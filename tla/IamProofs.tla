----------------------------- MODULE IamProofs ------------------------------
(***************************************************************************)
(* Proofs about the modules of src/src/iam for every value of their          *)
(* constants: OneTimePassword and Session, for any number of concurrent       *)
(* calls, any lifetimes of codes and tokens and clocks of any length, and     *)
(* Users, for any users, requests and addresses.                            *)
(***************************************************************************)
EXTENDS OneTimePassword, Session, Users, FiniteSetTheorems, TLAPS

-----------------------------------------------------------------------------
(* Session: types.                                                          *)

\* The second the clock shows is a token, and tokens are numbers.
LEMMA TokenTypes ==
    ASSUME half \in 0 .. LastHalf
    PROVE  /\ Second \in Tokens /\ Tokens \subseteq Nat /\ LastHalf \in Nat
           /\ \A t \in Tokens : Expires(t, TokenSeconds) \in Nat
BY SessionAssumption DEF Second, Tokens, Expires

\* A call that goes on awaits something, for a token that was issued.
LEMMA ContinueType ==
    ASSUME SessionTypeOK, NEW c \in SessionCalls, NEW o \in SessionCall,
           Continue(c, o), o.step # "none" => o.token \in issued, issued' = issued
    PROVE  /\ sessionCall' \in [SessionCalls -> SessionCall]
           /\ \A d \in SessionCalls : sessionCall'[d].step # "none"
                 => sessionCall'[d].token \in issued'
           /\ sessionCall'[c] = o
           /\ \A d \in SessionCalls \ {c} : sessionCall'[d] = sessionCall[d]
BY DEF SessionTypeOK, Continue, CallAt

\* What a busy call carries.
LEMMA CallTypes ==
    ASSUME NEW o \in SessionCall
    PROVE  /\ o.step # "none" => o.token \in Tokens
           /\ o.step = "blacklist" => o.ttl \in Nat \ {0}
           /\ o.step = "check" => o.out \in BOOLEAN
           /\ o.step = "admitted" => o.out \in BOOLEAN /\ o.at \in Nat
BY DEF SessionCall, NoCall

\* Every step keeps the state of Session well typed.
LEMMA SessionTypes ==
    ASSUME SessionTypeOK, SessionNext
    PROVE  SessionTypeOK'
<1> USE DEF SessionTypeOK
<1>1. CASE HalfSecond
  <2>1. half' \in 0 .. LastHalf
    BY <1>1, SessionAssumption DEF HalfSecond
  <2>2. /\ DOMAIN blacklist' = {t \in DOMAIN blacklist : blacklist[t] > half'}
        /\ \A t \in DOMAIN blacklist' : blacklist'[t] = blacklist[t]
        /\ blacklist' \in [DOMAIN blacklist' -> Nat]
    BY <1>1 DEF HalfSecond
  <2> QED
    BY <1>1, <2>1, <2>2 DEF HalfSecond, CallAt
<1>2. ASSUME NEW withRefresh \in BOOLEAN, GenerateTokens(withRefresh)
      PROVE  SessionTypeOK'
  BY <1>2, TokenTypes DEF GenerateTokens, CallAt
<1>3. ASSUME NEW refresh \in refreshes, RefreshAccessToken(refresh)
      PROVE  SessionTypeOK'
  BY <1>3, TokenTypes DEF RefreshAccessToken, CallAt
<1>4. ASSUME NEW c \in SessionCalls, NEW o \in SessionCall, Continue(c, o),
             o.step # "none" => o.token \in issued,
             UNCHANGED <<half, issued, refreshes, blacklist>>, loggedOut' \subseteq issued
      PROVE  SessionTypeOK'
  <2>1. /\ sessionCall' \in [SessionCalls -> SessionCall]
        /\ \A d \in SessionCalls : sessionCall'[d].step # "none"
              => sessionCall'[d].token \in issued'
    BY <1>4, ContinueType
  <2> QED
    BY <1>4, <2>1 DEF CallAt
<1>5. ASSUME NEW c \in SessionCalls, NEW token \in issued, Logout(c, token)
      PROVE  SessionTypeOK'
  <2>1. BlacklistTtl(token) > 0 => BlacklistTtl(token) \in Nat \ {0}
    BY TokenTypes DEF BlacklistTtl
  <2>2. BlacklistTtl(token) > 0 =>
           [step |-> "blacklist", token |-> token, ttl |-> BlacklistTtl(token)] \in SessionCall
    BY <2>1 DEF SessionCall
  <2>3. [step |-> "clear", token |-> token] \in SessionCall
    BY DEF SessionCall
  <2> QED
    BY <1>4, <1>5, <2>2, <2>3 DEF Logout
<1>6. ASSUME NEW c \in SessionCalls, BlacklistToken(c) PROVE SessionTypeOK'
  <2> DEFINE token == sessionCall[c].token
             o == [step |-> "clear", token |-> token]
  <2>1. sessionCall[c].step = "blacklist" /\ token \in issued
    BY <1>6 DEF BlacklistToken, CallAt
  <2>2. o \in SessionCall /\ sessionCall[c].ttl \in Nat \ {0}
    BY <2>1, CallTypes DEF SessionCall
  <2>3. /\ sessionCall' \in [SessionCalls -> SessionCall]
        /\ \A d \in SessionCalls : sessionCall'[d].step # "none"
              => sessionCall'[d].token \in issued'
    BY <1>6, <2>1, <2>2, ContinueType DEF BlacklistToken
  <2>4. /\ DOMAIN blacklist' = DOMAIN blacklist \cup {token}
        /\ \A t \in DOMAIN blacklist' : blacklist'[t] = IF t = token
                                           THEN half + 2 * sessionCall[c].ttl ELSE blacklist[t]
        /\ blacklist' = [t \in DOMAIN blacklist' |-> blacklist'[t]]
    BY <1>6 DEF BlacklistToken
  <2>5. half \in Nat /\ half + 2 * sessionCall[c].ttl \in Nat
        /\ half + 2 * sessionCall[c].ttl > half
    BY <2>2
  <2>6. \A t \in DOMAIN blacklist' : blacklist'[t] \in Nat /\ blacklist'[t] > half
    BY <2>4, <2>5
  <2> QED
    BY <1>6, <2>1, <2>3, <2>4, <2>6 DEF BlacklistToken, CallAt
<1>7. ASSUME NEW c \in SessionCalls, ClearUserSessions(c) PROVE SessionTypeOK'
  <2>1. sessionCall[c].token \in issued
    BY <1>7 DEF ClearUserSessions, CallAt
  <2> QED
    BY <1>4, <1>7, <2>1 DEF ClearUserSessions, SessionCall, NoCall
<1>8. ASSUME NEW c \in SessionCalls, NEW token \in issued, IsTokenBlacklisted(c, token)
      PROVE  SessionTypeOK'
  <2>1. [step |-> "check", token |-> token, out |-> token \in loggedOut] \in SessionCall
    BY DEF SessionCall
  <2> QED
    BY <1>4, <1>8, <2>1 DEF IsTokenBlacklisted
<1>9. ASSUME NEW c \in SessionCalls, ValidateAccessToken(c) PROVE SessionTypeOK'
  <2>1. sessionCall[c].step = "check" /\ sessionCall[c].token \in issued
    BY <1>9 DEF ValidateAccessToken, CallAt
  <2>2. [step |-> "admitted", token |-> sessionCall[c].token,
         out |-> sessionCall[c].out, at |-> half] \in SessionCall
    BY <2>1, CallTypes DEF SessionCall
  <2> QED
    BY <1>4, <1>9, <2>1, <2>2 DEF ValidateAccessToken, SessionCall, NoCall
<1>10. ASSUME NEW c \in SessionCalls, Admitted(c) \/ SessionCallFails(c) PROVE SessionTypeOK'
  BY <1>4, <1>10 DEF Admitted, SessionCallFails, SessionCall, NoCall
<1> QED
  BY <1>1, <1>2, <1>3, <1>5, <1>6, <1>7, <1>8, <1>9, <1>10 DEF SessionNext

\* SessionTypeOK holds in every reachable state.
THEOREM SessionTypeCorrect == SessionSpec => []SessionTypeOK
<1>1. SessionInit => SessionTypeOK
  BY SessionAssumption DEF SessionInit, SessionTypeOK, SessionCall, NoCall, CallAt, Tokens
<1>2. SessionTypeOK /\ [SessionNext]_sessionVars => SessionTypeOK'
  <2> SUFFICES ASSUME SessionTypeOK, [SessionNext]_sessionVars PROVE SessionTypeOK'
    OBVIOUS
  <2>1. CASE UNCHANGED sessionVars
    BY <2>1 DEF sessionVars, SessionTypeOK, CallAt
  <2>2. CASE SessionNext
    BY <2>2, SessionTypes
  <2> QED
    BY <2>1, <2>2
<1> QED
  BY <1>1, <1>2, PTL DEF SessionSpec

-----------------------------------------------------------------------------
(* Session: a revoked token is refused.                                     *)

\* The time the blacklist is asked to keep a token falls short of its life by half a
\* second at most, and nothing is asked for only within its last second.
LEMMA TtlCovers ==
    ASSUME half \in Nat, NEW token \in Nat
    PROVE  /\ half + 2 * BlacklistTtl(token) >= 2 * Expires(token, TokenSeconds) - 1
           /\ ~ (half < 2 * Expires(token, TokenSeconds) /\ BlacklistTtl(token) > 0)
                 => Outlived(token, half)
BY SessionAssumption DEF BlacklistTtl, Expires, Outlived

\* As time goes on a remembered token is outlived before it is forgotten.
LEMMA KeptWhileTimePasses ==
    ASSUME SessionTypeOK, SessionInv, HalfSecond, NEW t \in Tokens,
           Remembered(t) \/ Outlived(t, half)
    PROVE  Remembered(t)' \/ Outlived(t, half')
<1>1. half' = half + 1 /\ half \in Nat /\ Expires(t, TokenSeconds) \in Nat
  BY TokenTypes DEF HalfSecond, SessionTypeOK
<1>2. CASE Outlived(t, half)
  BY <1>1, <1>2 DEF Outlived
<1>3. CASE Remembered(t)
  <2>1. blacklist[t] \in Nat /\ blacklist[t] >= 2 * Expires(t, TokenSeconds) - 1
    BY <1>3 DEF Remembered, SessionInv, SessionTypeOK
  <2>2. CASE blacklist[t] > half'
    BY <1>3, <2>2 DEF HalfSecond, Remembered
  <2>3. CASE ~ (blacklist[t] > half')
    BY <1>1, <2>1, <2>3 DEF Outlived
  <2> QED
    BY <2>2, <2>3
<1> QED
  BY <1>2, <1>3

\* Every step keeps SessionInv.
LEMMA SessionKept ==
    ASSUME SessionTypeOK, SessionInv, SessionNext
    PROVE  SessionInv'
<1> USE DEF SessionTypeOK
<1>0. half \in Nat /\ \A c \in SessionCalls : CallInv(sessionCall[c])
  BY DEF SessionInv
<1>1. ASSUME NEW c \in SessionCalls, NEW o \in SessionCall, Continue(c, o),
             o.step # "none" => o.token \in issued, issued' = issued,
             UNCHANGED <<half, blacklist>>, CallInv(o),
             \A t \in loggedOut' : Remembered(t) \/ Outlived(t, half)
      PROVE  SessionInv'
  <2>1. \A d \in SessionCalls : CallInv(sessionCall'[d])
    BY <1>0, <1>1, ContinueType
  <2>2. \A d \in SessionCalls : CallInv(sessionCall[d])'
    BY <1>1, <2>1 DEF CallInv, Remembered
  <2> QED
    BY <1>1, <2>2 DEF SessionInv, Remembered
<1>2. CASE HalfSecond
  <2>1. /\ half' = half + 1
        /\ \A t \in DOMAIN blacklist' : t \in DOMAIN blacklist /\ blacklist'[t] = blacklist[t]
    BY <1>2 DEF HalfSecond
  <2>2. ASSUME NEW c \in SessionCalls PROVE CallInv(sessionCall[c])'
    <3> DEFINE o == sessionCall[c]
    <3>1. sessionCall' = sessionCall /\ o \in SessionCall /\ CallInv(o)
      BY <1>0, <1>2 DEF HalfSecond
    <3> HIDE DEF o
    <3>2. o.step # "none" => o.token \in Tokens /\ Expires(o.token, TokenSeconds) \in Nat
      BY <3>1, CallTypes, TokenTypes
    <3>3. o.step = "blacklist" => o.ttl \in Nat
                                  /\ half' + 2 * o.ttl >= 2 * Expires(o.token, TokenSeconds) - 1
      BY <1>0, <2>1, <3>1, <3>2, CallTypes DEF CallInv
    <3>4. o.step = "clear" => o.token \in DOMAIN blacklist' \/ Outlived(o.token, half')
      BY <1>2, <3>1, <3>2, KeptWhileTimePasses DEF CallInv, Remembered
    <3>5. o.step = "check" /\ o.out => Outlived(o.token, half')
      BY <1>0, <2>1, <3>1, <3>2 DEF CallInv, Outlived
    <3>6. o.step = "admitted" /\ o.out => Outlived(o.token, o.at)
      BY <3>1 DEF CallInv
    <3>7. sessionCall'[c] = o
      BY <3>1 DEF o
    <3> QED
      BY <3>3, <3>4, <3>5, <3>6, <3>7 DEF CallInv, Remembered
  <2>3. ASSUME NEW t \in loggedOut PROVE Remembered(t)' \/ Outlived(t, half')
    BY <1>2, KeptWhileTimePasses DEF SessionInv
  <2> QED
    BY <1>2, <2>1, <2>2, <2>3 DEF SessionInv, HalfSecond
<1>3. ASSUME NEW withRefresh \in BOOLEAN, GenerateTokens(withRefresh) PROVE SessionInv'
  BY <1>3 DEF GenerateTokens, SessionInv, CallInv, Remembered
<1>4. ASSUME NEW refresh \in refreshes, RefreshAccessToken(refresh) PROVE SessionInv'
  BY <1>4 DEF RefreshAccessToken, SessionInv, CallInv, Remembered
<1>5. ASSUME NEW c \in SessionCalls, NEW token \in issued, Logout(c, token) PROVE SessionInv'
  <2> DEFINE send == [step |-> "blacklist", token |-> token, ttl |-> BlacklistTtl(token)]
             skip == [step |-> "clear", token |-> token]
  <2>1. token \in Nat /\ token \in Tokens
    BY TokenTypes
  <2>2. CASE half < 2 * Expires(token, TokenSeconds) /\ BlacklistTtl(token) > 0
    <3>1. Expires(token, TokenSeconds) \in Nat
      BY <2>1, TokenTypes
    <3>2. BlacklistTtl(token) \in Nat \ {0}
      BY <1>0, <2>2, <3>1 DEF BlacklistTtl
    <3>3. send \in SessionCall /\ send.step # "none" /\ send.token \in issued
      BY <2>1, <3>2 DEF SessionCall
    <3>4. CallInv(send)
      BY <1>0, <2>1, TtlCovers DEF CallInv
    <3> QED
      BY <1>1, <1>5, <2>2, <3>3, <3>4 DEF Logout, SessionInv
  <2>3. CASE ~ (half < 2 * Expires(token, TokenSeconds) /\ BlacklistTtl(token) > 0)
    <3>1. skip \in SessionCall /\ skip.step # "none" /\ skip.token \in issued
      BY <2>1 DEF SessionCall
    <3>2. CallInv(skip)
      BY <1>0, <2>1, <2>3, TtlCovers DEF CallInv
    <3> QED
      BY <1>1, <1>5, <2>3, <3>1, <3>2 DEF Logout, SessionInv
  <2> QED
    BY <2>2, <2>3
<1>6. ASSUME NEW c \in SessionCalls, BlacklistToken(c) PROVE SessionInv'
  <2> DEFINE token == sessionCall[c].token
             o == [step |-> "clear", token |-> token]
  <2>1. /\ sessionCall[c].step = "blacklist" /\ token \in issued
        /\ UNCHANGED <<half, issued, loggedOut>> /\ Continue(c, o)
    BY <1>6 DEF BlacklistToken, CallAt
  <2>2. o \in SessionCall /\ o.step = "clear" /\ o.token = token
    BY <2>1 DEF SessionCall
  <2>3. /\ sessionCall'[c] = o
        /\ \A d \in SessionCalls \ {c} : sessionCall'[d] = sessionCall[d]
    BY <2>1, <2>2, ContinueType
  <2>4. /\ DOMAIN blacklist' = DOMAIN blacklist \cup {token}
        /\ \A t \in DOMAIN blacklist' : blacklist'[t] = IF t = token
                                           THEN half + 2 * sessionCall[c].ttl ELSE blacklist[t]
    BY <1>6 DEF BlacklistToken
  <2>5. half + 2 * sessionCall[c].ttl >= 2 * Expires(token, TokenSeconds) - 1
    BY <1>0, <2>1 DEF CallInv
  <2>6. \A t : Remembered(t) => Remembered(t)'
    BY <2>4 DEF Remembered
  <2>7. \A t \in DOMAIN blacklist' : blacklist'[t] >= 2 * Expires(t, TokenSeconds) - 1
    BY <2>4, <2>5 DEF SessionInv
  <2>8. \A d \in SessionCalls : CallInv(sessionCall[d])'
    <3>1. token \in DOMAIN blacklist'
      BY <2>4
    <3>2. CallInv(sessionCall[c])'
      BY <2>2, <2>3, <3>1 DEF CallInv, Remembered
    <3>3. ASSUME NEW d \in SessionCalls \ {c} PROVE CallInv(sessionCall[d])'
      <4>1. CallInv(sessionCall[d])
        BY <1>0
      <4> QED
        BY <2>1, <2>3, <2>6, <4>1 DEF CallInv
    <3> QED
      BY <3>2, <3>3
  <2> QED
    BY <2>1, <2>6, <2>7, <2>8 DEF SessionInv
<1>7. ASSUME NEW c \in SessionCalls, ClearUserSessions(c) PROVE SessionInv'
  <2>1. CallInv(NoCall) /\ NoCall \in SessionCall /\ NoCall.step = "none"
    BY DEF CallInv, NoCall, SessionCall
  <2>2. Remembered(sessionCall[c].token) \/ Outlived(sessionCall[c].token, half)
    BY <1>0, <1>7 DEF ClearUserSessions, CallAt, CallInv
  <2> QED
    BY <1>1, <1>7, <2>1, <2>2 DEF ClearUserSessions, SessionInv
<1>8. ASSUME NEW c \in SessionCalls, NEW token \in issued, IsTokenBlacklisted(c, token)
      PROVE  SessionInv'
  <2> DEFINE o == [step |-> "check", token |-> token, out |-> token \in loggedOut]
  <2>1. o \in SessionCall /\ o.token \in issued
    BY DEF SessionCall
  <2>2. token \in loggedOut => Outlived(token, half)
    BY <1>8 DEF IsTokenBlacklisted, SessionInv
  <2>3. CallInv(o)
    BY <2>2 DEF CallInv
  <2> QED
    BY <1>1, <1>8, <2>1, <2>3 DEF IsTokenBlacklisted, SessionInv
<1>9. ASSUME NEW c \in SessionCalls, ValidateAccessToken(c) PROVE SessionInv'
  <2> DEFINE o == [step |-> "admitted", token |-> sessionCall[c].token,
                   out |-> sessionCall[c].out, at |-> half]
  <2>1. sessionCall[c].step = "check" /\ sessionCall[c].token \in issued
    BY <1>9 DEF ValidateAccessToken, CallAt
  <2>2. o \in SessionCall /\ o.token \in issued
    BY <1>0, <2>1, CallTypes DEF SessionCall
  <2>3. CallInv(o)
    BY <1>0, <2>1 DEF CallInv
  <2>4. CallInv(NoCall) /\ NoCall \in SessionCall /\ NoCall.step = "none"
    BY DEF CallInv, NoCall, SessionCall
  <2> HIDE DEF o
  <2> QED
    BY <1>1, <1>9, <2>2, <2>3, <2>4 DEF ValidateAccessToken, SessionInv, o
<1>10. ASSUME NEW c \in SessionCalls, Admitted(c) \/ SessionCallFails(c) PROVE SessionInv'
  <2>1. CallInv(NoCall) /\ NoCall \in SessionCall /\ NoCall.step = "none"
    BY DEF CallInv, NoCall, SessionCall
  <2> QED
    BY <1>1, <1>10, <2>1 DEF Admitted, SessionCallFails, SessionInv
<1> QED
  BY <1>2, <1>3, <1>4, <1>5, <1>6, <1>7, <1>8, <1>9, <1>10 DEF SessionNext

\* SessionInv holds in every reachable state.
THEOREM SessionInvariant == SessionSpec => [](SessionTypeOK /\ SessionInv)
<1>1. SessionInit => SessionInv
  BY DEF SessionInit, SessionInv, CallInv, NoCall
<1>2. SessionTypeOK /\ SessionInv /\ [SessionNext]_sessionVars => SessionInv'
  <2> SUFFICES ASSUME SessionTypeOK, SessionInv, [SessionNext]_sessionVars PROVE SessionInv'
    OBVIOUS
  <2>1. CASE UNCHANGED sessionVars
    BY <2>1 DEF sessionVars, SessionInv, CallInv, Remembered
  <2>2. CASE SessionNext
    BY <2>2, SessionKept
  <2> QED
    BY <2>1, <2>2
<1> QED
  BY <1>1, <1>2, SessionTypeCorrect, PTL DEF SessionSpec

\* A token whose logout has been answered is let in only within its last second, however
\* the blacklist rounds and however late its command arrives.
THEOREM RevokedSafe == SessionSpec => []RevokedIsRefused
<1>1. SessionInv => RevokedIsRefused
  BY DEF SessionInv, CallInv, RevokedIsRefused, CallAt, Outlived
<1> QED
  BY <1>1, SessionInvariant, PTL

-----------------------------------------------------------------------------
(* OneTimePassword: types.                                                  *)

\* What a busy call carries.
LEMMA OtpCallTypes ==
    ASSUME NEW o \in OtpCall
    PROVE  /\ o.step \in {"idle", "store", "writeBack", "delete", "consume"}
           /\ o.step = "store" => o.data \in OtpData
           /\ o.step = "writeBack" => o.seen \in OpenOtp /\ o.ttl \in Nat
           /\ o.step = "delete" => o.seen \in OtpData
           /\ o.step = "consume" => o.seen \in OpenOtp /\ o.at \in Nat
           /\ o.step \in {"writeBack", "delete", "consume"} => o.seen \in OtpData
BY DEF OtpCall, Quiet, OpenOtp

\* Going on changes the one call.
LEMMA ResumeType ==
    ASSUME OtpTypeOK, NEW c \in OtpCalls, NEW o \in OtpCall, Resume(c, o)
    PROVE  /\ otpCall' \in [OtpCalls -> OtpCall]
           /\ otpCall'[c] = o
           /\ \A d \in OtpCalls \ {c} : otpCall'[d] = otpCall[d]
BY DEF OtpTypeOK, Resume

\* Codes and times are numbers.
LEMMA OtpDataTypes ==
    ASSUME NEW data \in OtpData
    PROVE  /\ data.code \in Codes /\ data.expiresAt \in Nat
           /\ data.attempts \in Nat /\ data.attempts <= MaxAttempts
           /\ data.attempts < MaxAttempts => Counted(data) \in OtpData
           /\ Counted(data).code = data.code /\ Counted(data).expiresAt = data.expiresAt
           /\ Counted(data).attempts = data.attempts + 1
BY DEF OtpData, MaxAttempts, Counted

\* Every verdict is one a call can wait on.
LEMMA VerdictType ==
    ASSUME NEW data \in OtpData, NEW guess, clock \in Nat
    PROVE  /\ Verdict(data, guess) \in OtpCall
           /\ Verdict(data, guess).seen = data
           /\ Verdict(data, guess).step \in {"writeBack", "delete", "consume"}
           /\ Verdict(data, guess).step # "delete" => data.attempts < MaxAttempts
           /\ Verdict(data, guess).step = "consume" => /\ Verdict(data, guess).at = clock
                                                       /\ clock <= data.expiresAt
<1>1. data.expiresAt \in Nat /\ data.attempts \in Nat /\ MaxAttempts \in Nat
  BY OtpDataTypes DEF MaxAttempts
<1>2. RemainingTtl(data) \in Nat
  BY <1>1 DEF RemainingTtl, Greatest
<1>3. CASE clock > data.expiresAt \/ data.attempts >= MaxAttempts
  <2>1. Verdict(data, guess) = [step |-> "delete", seen |-> data]
    BY <1>3 DEF Verdict
  <2> QED
    BY <2>1 DEF OtpCall
<1>4. CASE ~ (clock > data.expiresAt \/ data.attempts >= MaxAttempts) /\ guess # data.code
  <2>1. Verdict(data, guess) = [step |-> "writeBack", seen |-> data, ttl |-> RemainingTtl(data)]
    BY <1>4 DEF Verdict
  <2>2. data \in OpenOtp
    BY <1>1, <1>4 DEF OpenOtp
  <2> QED
    BY <1>2, <2>1, <2>2 DEF OtpCall, OpenOtp
<1>5. CASE ~ (clock > data.expiresAt \/ data.attempts >= MaxAttempts) /\ guess = data.code
  <2>1. Verdict(data, guess) = [step |-> "consume", seen |-> data, at |-> clock]
    BY <1>5 DEF Verdict
  <2>2. data \in OpenOtp /\ clock <= data.expiresAt
    BY <1>1, <1>5 DEF OpenOtp
  <2> QED
    BY <2>1, <2>2 DEF OtpCall, OpenOtp
<1> QED
  BY <1>3, <1>4, <1>5

\* The history of the guesses.
LEMMA TallyTypes ==
    ASSUME OtpTypeOK
    PROVE  /\ \A codes \in SUBSET Codes : GiveUp(codes) =>
                /\ tally' \in [Codes -> [guesses : Nat, accepted : Nat]]
                /\ raced' = raced \cup codes
                /\ \A k \in Codes \ codes : tally'[k] = tally[k]
           /\ \A k \in Codes, g \in Nat, a \in Nat : Count(k, g, a) =>
                /\ tally' \in [Codes -> [guesses : Nat, accepted : Nat]]
                /\ raced' = raced
                /\ k \notin raced => tally'[k] = [guesses |-> tally[k].guesses + g,
                                                  accepted |-> tally[k].accepted + a]
                /\ \A j \in Codes \ {k} : tally'[j] = tally[j]
<1> USE DEF OtpTypeOK
<1>1. ASSUME NEW codes \in SUBSET Codes, GiveUp(codes)
      PROVE  /\ tally' \in [Codes -> [guesses : Nat, accepted : Nat]]
             /\ raced' = raced \cup codes
             /\ \A k \in Codes \ codes : tally'[k] = tally[k]
  BY <1>1 DEF GiveUp, Untold
<1>2. ASSUME NEW k \in Codes, NEW g \in Nat, NEW a \in Nat, Count(k, g, a)
      PROVE  /\ tally' \in [Codes -> [guesses : Nat, accepted : Nat]]
             /\ raced' = raced
             /\ k \notin raced => tally'[k] = [guesses |-> tally[k].guesses + g,
                                               accepted |-> tally[k].accepted + a]
             /\ \A j \in Codes \ {k} : tally'[j] = tally[j]
  <2> DEFINE new == [guesses |-> tally[k].guesses + g, accepted |-> tally[k].accepted + a]
  <2>1. tally[k].guesses \in Nat /\ tally[k].accepted \in Nat
    OBVIOUS
  <2>2. new \in [guesses : Nat, accepted : Nat]
    BY <2>1
  <2>3. raced' = raced /\ tally' = IF k \in raced THEN tally ELSE [tally EXCEPT ![k] = new]
    BY <1>2 DEF Count
  <2> HIDE DEF new
  <2>4. tally' \in [Codes -> [guesses : Nat, accepted : Nat]]
    BY <2>2, <2>3
  <2>5. k \notin raced => tally'[k] = new
    BY <2>3
  <2>6. \A j \in Codes \ {k} : tally'[j] = tally[j]
    BY <2>3
  <2> QED
    BY <2>3, <2>4, <2>5, <2>6 DEF new
<1> QED
  BY <1>1, <1>2

\* Who overtakes whom concerns codes.
LEMMA OvertakenTypes ==
    ASSUME OtpTypeOK, NEW c \in OtpCalls,
           otpCall[c].step \in {"writeBack", "delete", "consume"}
    PROVE  /\ otpCall[c].seen \in OtpData
           /\ Overtaken(c) \in SUBSET Codes
           /\ Overtaken(c) = {} => OtpStored /\ StoredOtp = otpCall[c].seen
           /\ Overtaken(c) # {} => /\ otpCall[c].seen.code \in Overtaken(c)
                                   /\ OtpStored => StoredOtp.code \in Overtaken(c)
<1>1. otpCall[c].seen \in OtpData
  BY OtpCallTypes DEF OtpTypeOK
<1>2. otpCall[c].seen.code \in Codes /\ (OtpStored => StoredOtp.code \in Codes)
  BY <1>1, OtpDataTypes DEF OtpTypeOK
<1> QED
  BY <1>1, <1>2 DEF Overtaken

\* Codes are generated one after the other, each once.
LEMMA GeneratedTypes ==
    ASSUME OtpTypeOK, NEW c \in OtpCalls, GenerateOtp(c)
    PROVE  \E code \in Codes :
              LET data == [code |-> code, attempts |-> 0, expiresAt |-> clock + 2 * OtpSeconds]
                  o == [step |-> "store", data |-> data]
              IN /\ code \notin DOMAIN generated
                 /\ DOMAIN generated' = DOMAIN generated \cup {code}
                 /\ DOMAIN generated' \subseteq Codes
                 /\ generated' \in [DOMAIN generated' -> Nat]
                 /\ generated'[code] = clock
                 /\ \A k \in DOMAIN generated : generated'[k] = generated[k]
                 /\ o \in OtpCall /\ Resume(c, o)
                 /\ UNCHANGED <<clock, otpKey, tally, raced>>
<1> USE DEF OtpTypeOK
<1>1. PICK code \in Codes :
         /\ DOMAIN generated = 1 .. code - 1
         /\ generated' = [k \in 1 .. code |-> IF k = code THEN clock ELSE generated[k]]
         /\ Resume(c, [step |-> "store", data |-> [code |-> code, attempts |-> 0,
                                                   expiresAt |-> clock + 2 * OtpSeconds]])
         /\ UNCHANGED <<clock, otpKey, tally, raced>>
  BY DEF GenerateOtp
<1> DEFINE data == [code |-> code, attempts |-> 0, expiresAt |-> clock + 2 * OtpSeconds]
           o == [step |-> "store", data |-> data]
<1>2. code \in Nat \ {0} /\ code <= LastCode /\ LastCode \in Nat /\ clock \in Nat
  BY OtpAssumption DEF Codes
<1>3. code \notin DOMAIN generated /\ 1 .. code = DOMAIN generated \cup {code}
      /\ 1 .. code \subseteq Codes
  BY <1>1, <1>2 DEF Codes
<1>4. DOMAIN generated' = DOMAIN generated \cup {code} /\ generated'[code] = clock
      /\ \A k \in DOMAIN generated : generated'[k] = generated[k]
  BY <1>1, <1>3
<1>5. generated' = [k \in DOMAIN generated' |-> generated'[k]]
  BY <1>1
<1>6. \A k \in DOMAIN generated' : generated'[k] \in Nat
  BY <1>2, <1>4
<1>7. data \in OtpData
  BY <1>1, <1>2, OtpAssumption DEF OtpData, MaxAttempts
<1>8. o \in OtpCall
  BY <1>7 DEF OtpCall
<1> QED
  BY <1>1, <1>3, <1>4, <1>5, <1>6, <1>8

\* Every step keeps the state of OneTimePassword well typed.
LEMMA OtpTypes ==
    ASSUME OtpTypeOK, OtpNext
    PROVE  OtpTypeOK'
<1> USE DEF OtpTypeOK
<1>0. clock \in Nat /\ Quiet \in OtpCall
  BY OtpAssumption DEF OtpCall
<1>1. CASE Tick
  <2>1. clock' \in 0 .. LastTick
    BY <1>1, OtpAssumption DEF Tick
  <2>2. OtpStored' => otpKey' = otpKey /\ OtpStored
    BY <1>1 DEF Tick, OtpStored
  <2> QED
    BY <1>1, <2>1, <2>2 DEF Tick, StoredOtp
<1>2. CASE ClearOtp
  BY <1>2 DEF ClearOtp, OtpStored
<1>3. ASSUME NEW c \in OtpCalls, GenerateOtp(c) PROVE OtpTypeOK'
  BY <1>3, GeneratedTypes, ResumeType DEF OtpStored, StoredOtp
<1>4. ASSUME NEW c \in OtpCalls, StoreOtp(c) PROVE OtpTypeOK'
  <2>1. otpCall[c].data \in OtpData
    BY <1>4, OtpCallTypes DEF StoreOtp, Waits
  <2>2. StoredOtp' = otpCall[c].data /\ otpKey'.until \in Nat
    BY <1>0, <1>4, OtpAssumption DEF StoreOtp, StoredOtp, Setex
  <2> QED
    BY <1>0, <1>4, <2>1, <2>2, ResumeType DEF StoreOtp
<1>5. ASSUME NEW c \in OtpCalls, NEW guess, VerifyOtp(c, guess) PROVE OtpTypeOK'
  <2>1. StoredOtp \in OtpData /\ StoredOtp.code \in Codes
    BY <1>5, OtpDataTypes DEF VerifyOtp
  <2>2. otpCall' \in [OtpCalls -> OtpCall]
    BY <1>0, <1>5, <2>1, VerdictType, ResumeType DEF VerifyOtp
  <2>3. /\ tally' \in [Codes -> [guesses : Nat, accepted : Nat]]
        /\ raced' \subseteq Codes
    <3> DEFINE n == IF Verdict(StoredOtp, guess).step = "delete" THEN 0 ELSE 1
    <3>1. GiveUp({StoredOtp.code}) \/ Count(StoredOtp.code, n, 0)
      BY <1>5 DEF VerifyOtp
    <3>2. n \in Nat /\ {StoredOtp.code} \in SUBSET Codes
      BY <2>1
    <3> HIDE DEF n
    <3>3. CASE GiveUp({StoredOtp.code})
      BY <2>1, <3>2, <3>3, TallyTypes
    <3>4. CASE Count(StoredOtp.code, n, 0)
      BY <2>1, <3>2, <3>4, TallyTypes
    <3> QED
      BY <3>1, <3>3, <3>4
  <2> QED
    BY <1>5, <2>2, <2>3 DEF VerifyOtp, OtpStored, StoredOtp
<1>6. ASSUME NEW c \in OtpCalls, WriteBack(c) PROVE OtpTypeOK'
  <2>1. otpCall[c].step = "writeBack" /\ otpCall[c].seen \in OpenOtp /\ otpCall[c].ttl \in Nat
    BY <1>6, OtpCallTypes DEF WriteBack, Waits
  <2>2. Counted(otpCall[c].seen) \in OtpData
    BY <2>1, OtpDataTypes DEF OpenOtp
  <2>3. StoredOtp' = Counted(otpCall[c].seen) /\ otpKey'.until \in Nat
    BY <1>0, <1>6, <2>1 DEF WriteBack, StoredOtp, Setex
  <2>4. /\ tally' \in [Codes -> [guesses : Nat, accepted : Nat]]
        /\ raced' \subseteq Codes
    BY <1>6, <2>1, TallyTypes, OvertakenTypes DEF WriteBack
  <2> QED
    BY <1>0, <1>6, <2>2, <2>3, <2>4, ResumeType DEF WriteBack
<1>7. ASSUME NEW c \in OtpCalls, DeleteOtp(c) PROVE OtpTypeOK'
  <2>1. /\ tally' \in [Codes -> [guesses : Nat, accepted : Nat]]
        /\ raced' \subseteq Codes
    BY <1>7, TallyTypes, OvertakenTypes DEF DeleteOtp, Waits
  <2> QED
    BY <1>0, <1>7, <2>1, ResumeType DEF DeleteOtp, OtpStored
<1>8. ASSUME NEW c \in OtpCalls, ConsumeOtp(c) PROVE OtpTypeOK'
  <2>1. otpCall[c].step = "consume" /\ otpCall[c].seen.code \in Codes
    BY <1>8, OvertakenTypes, OtpDataTypes DEF ConsumeOtp, Waits
  <2>2. /\ tally' \in [Codes -> [guesses : Nat, accepted : Nat]]
        /\ raced' \subseteq Codes
    <3>1. GiveUp(Overtaken(c)) \/ Count(otpCall[c].seen.code, 0, 1)
      BY <1>8 DEF ConsumeOtp
    <3>2. Overtaken(c) \in SUBSET Codes
      BY <2>1, OvertakenTypes
    <3>3. CASE GiveUp(Overtaken(c))
      BY <3>2, <3>3, TallyTypes
    <3>4. CASE Count(otpCall[c].seen.code, 0, 1)
      BY <2>1, <3>4, TallyTypes
    <3> QED
      BY <3>1, <3>3, <3>4
  <2> QED
    BY <1>0, <1>8, <2>2, ResumeType DEF ConsumeOtp, OtpStored
<1>9. ASSUME NEW c \in OtpCalls, OtpCallFails(c) PROVE OtpTypeOK'
  <2>1. /\ tally' \in [Codes -> [guesses : Nat, accepted : Nat]]
        /\ raced' \subseteq Codes
    BY <1>9, TallyTypes DEF OtpCallFails
  <2> QED
    BY <1>0, <1>9, <2>1, ResumeType DEF OtpCallFails, OtpStored, StoredOtp
<1> QED
  BY <1>1, <1>2, <1>3, <1>4, <1>5, <1>6, <1>7, <1>8, <1>9 DEF OtpNext

\* OtpTypeOK holds in every reachable state.
THEOREM OtpTypeCorrect == OtpSpec => []OtpTypeOK
<1>1. OtpInit => OtpTypeOK
  BY OtpAssumption DEF OtpInit, OtpTypeOK, OtpStored, OtpCall, Untold
<1>2. OtpTypeOK /\ [OtpNext]_otpVars => OtpTypeOK'
  <2> SUFFICES ASSUME OtpTypeOK, [OtpNext]_otpVars PROVE OtpTypeOK'
    OBVIOUS
  <2>1. CASE UNCHANGED otpVars
    BY <2>1 DEF otpVars, OtpTypeOK, OtpStored, StoredOtp
  <2>2. CASE OtpNext
    BY <2>2, OtpTypes
  <2> QED
    BY <2>1, <2>2
<1> QED
  BY <1>1, <1>2, PTL DEF OtpSpec

-----------------------------------------------------------------------------
(* OneTimePassword: a code dies on time.                                    *)

\* What the dates say of one call.
CallDated(o) ==
    /\ o.step = "store" => Dated(o.data)
    /\ o.step \in {"writeBack", "delete", "consume"} => Dated(o.seen)
    /\ o.step = "consume" => o.at <= o.seen.expiresAt

\* A step that generates nothing keeps DatesInv if the call it moves and the key it
\* writes are dated.
LEMMA DatesFrame ==
    ASSUME OtpTypeOK, DatesInv, generated' = generated,
           \A c \in OtpCalls : otpCall'[c] = otpCall[c] \/ CallDated(otpCall'[c]),
           OtpStored' => Dated(StoredOtp')
    PROVE  DatesInv'
<1>1. \A data : Dated(data) => data.code \in DOMAIN generated'
                               /\ data.expiresAt = generated'[data.code] + 2 * OtpSeconds
  BY DEF Dated
<1>2. \A c \in OtpCalls : CallDated(otpCall[c])
  BY DEF DatesInv, CallDated, Waits
<1>3. \A c \in OtpCalls : CallDated(otpCall'[c])
  BY <1>2
<1> QED
  BY <1>1, <1>3 DEF DatesInv, Dated, CallDated, Waits

\* Every step keeps DatesInv: a code is written back with the lifetime it was read with.
LEMMA DatesKept ==
    ASSUME OtpTypeOK, DatesInv, OtpNext
    PROVE  DatesInv'
<1>0. clock \in Nat /\ Quiet \in OtpCall /\ CallDated(Quiet) /\ (OtpStored => Dated(StoredOtp))
      /\ \A c \in OtpCalls : CallDated(otpCall[c])
  BY OtpAssumption DEF OtpTypeOK, OtpCall, CallDated, Quiet, DatesInv, Waits
<1>1. CASE Tick
  BY <1>0, <1>1, DatesFrame DEF Tick, OtpStored, StoredOtp
<1>2. CASE ClearOtp
  BY <1>2, DatesFrame DEF ClearOtp, OtpStored
<1>3. ASSUME NEW c \in OtpCalls, GenerateOtp(c) PROVE DatesInv'
  <2>1. PICK code \in Codes :
          LET data == [code |-> code, attempts |-> 0, expiresAt |-> clock + 2 * OtpSeconds]
              o == [step |-> "store", data |-> data]
          IN /\ code \notin DOMAIN generated
             /\ DOMAIN generated' = DOMAIN generated \cup {code}
             /\ generated'[code] = clock
             /\ \A k \in DOMAIN generated : generated'[k] = generated[k]
             /\ o \in OtpCall /\ Resume(c, o)
             /\ UNCHANGED <<clock, otpKey, tally, raced>>
    BY <1>3, GeneratedTypes
  <2> DEFINE data == [code |-> code, attempts |-> 0, expiresAt |-> clock + 2 * OtpSeconds]
             o == [step |-> "store", data |-> data]
             DatedNow(d) == d.code \in DOMAIN generated'
                            /\ d.expiresAt = generated'[d.code] + 2 * OtpSeconds
  <2>2. \A d : Dated(d) => DatedNow(d)
    BY <2>1 DEF Dated
  <2>3. o \in OtpCall /\ Resume(c, o) /\ otpKey' = otpKey
    BY <2>1
  <2>4. otpCall'[c] = o /\ \A d \in OtpCalls \ {c} : otpCall'[d] = otpCall[d]
    BY <2>3, ResumeType
  <2>5. DatedNow(o.data) /\ o.step = "store"
    BY <2>1
  <2> HIDE DEF o
  <2>6. \A d \in OtpCalls :
          /\ otpCall'[d].step = "store" => DatedNow(otpCall'[d].data)
          /\ otpCall'[d].step \in {"writeBack", "delete", "consume"} => DatedNow(otpCall'[d].seen)
          /\ otpCall'[d].step = "consume" => otpCall'[d].at <= otpCall'[d].seen.expiresAt
    BY <1>0, <2>2, <2>4, <2>5 DEF CallDated
  <2>7. OtpStored' => DatedNow(StoredOtp')
    BY <1>0, <2>2, <2>3 DEF OtpStored, StoredOtp
  <2> QED
    BY <2>6, <2>7 DEF DatesInv, Dated, Waits
<1>4. ASSUME NEW c \in OtpCalls, StoreOtp(c) PROVE DatesInv'
  <2>1. Dated(otpCall[c].data) /\ StoredOtp' = otpCall[c].data
    BY <1>0, <1>4 DEF StoreOtp, Waits, CallDated, StoredOtp, Setex
  <2> QED
    BY <1>0, <1>4, <2>1, ResumeType, DatesFrame DEF StoreOtp
<1>5. ASSUME NEW c \in OtpCalls, NEW guess, VerifyOtp(c, guess) PROVE DatesInv'
  <2> DEFINE o == Verdict(StoredOtp, guess)
  <2>1. StoredOtp \in OtpData /\ Dated(StoredOtp) /\ UNCHANGED <<otpKey, generated>>
        /\ Resume(c, o)
    BY <1>0, <1>5 DEF VerifyOtp, OtpTypeOK
  <2>2. o \in OtpCall /\ CallDated(o)
    BY <1>0, <2>1, VerdictType DEF CallDated
  <2> HIDE DEF o
  <2>3. otpCall'[c] = o /\ \A d \in OtpCalls \ {c} : otpCall'[d] = otpCall[d]
    BY <2>1, <2>2, ResumeType
  <2> QED
    BY <1>0, <2>1, <2>2, <2>3, DatesFrame DEF OtpStored, StoredOtp
<1>6. ASSUME NEW c \in OtpCalls, WriteBack(c) PROVE DatesInv'
  <2>1. Dated(otpCall[c].seen) /\ otpCall[c].seen \in OtpData
    BY <1>0, <1>6, OvertakenTypes DEF WriteBack, Waits, CallDated
  <2>2. StoredOtp' = Counted(otpCall[c].seen)
    BY <1>6 DEF WriteBack, StoredOtp, Setex
  <2>3. Dated(StoredOtp')
    BY <2>1, <2>2, OtpDataTypes DEF Dated
  <2> QED
    BY <1>0, <1>6, <2>3, ResumeType, DatesFrame DEF WriteBack
<1>7. ASSUME NEW c \in OtpCalls, DeleteOtp(c) \/ ConsumeOtp(c) PROVE DatesInv'
  BY <1>0, <1>7, ResumeType, DatesFrame DEF DeleteOtp, ConsumeOtp, OtpStored
<1>8. ASSUME NEW c \in OtpCalls, OtpCallFails(c) PROVE DatesInv'
  BY <1>0, <1>8, ResumeType, DatesFrame DEF OtpCallFails, OtpStored, StoredOtp
<1> QED
  BY <1>1, <1>2, <1>3, <1>4, <1>5, <1>6, <1>7, <1>8 DEF OtpNext

\* DatesInv holds in every reachable state.
THEOREM DatesInvariant == OtpSpec => [](OtpTypeOK /\ DatesInv)
<1>1. OtpInit => DatesInv
  BY DEF OtpInit, DatesInv, OtpStored, Quiet, Waits
<1>2. OtpTypeOK /\ DatesInv /\ [OtpNext]_otpVars => DatesInv'
  <2> SUFFICES ASSUME OtpTypeOK, DatesInv, [OtpNext]_otpVars PROVE DatesInv'
    OBVIOUS
  <2>1. CASE UNCHANGED otpVars
    BY <2>1 DEF otpVars, DatesInv, Dated, OtpStored, StoredOtp, Waits
  <2>2. CASE OtpNext
    BY <2>2, DatesKept
  <2> QED
    BY <2>1, <2>2
<1> QED
  BY <1>1, <1>2, OtpTypeCorrect, PTL DEF OtpSpec

\* Nobody is let in on a verdict reached after the lifetime the code was generated with,
\* however often and however late it is written back.
THEOREM CodesDie == OtpSpec => []CodeDiesOnTime
<1>1. DatesInv => CodeDiesOnTime
  BY DEF DatesInv, CodeDiesOnTime, Dated, Waits
<1> QED
  BY <1>1, DatesInvariant, PTL

-----------------------------------------------------------------------------
(* OneTimePassword: attempts are limited.                                   *)

\* The calls that hold a code.
HoldsCode(o, k) ==
    \/ o.step = "store" /\ o.data.code = k
    \/ o.step \in {"writeBack", "delete", "consume"} /\ o.seen.code = k

\* What a step leaves alone for a code stays right.
LEMMA CodeFrame ==
    ASSUME NEW k \in Codes, CodeInv(k), tally'[k] = tally[k],
           k \in DOMAIN generated => k \in DOMAIN generated',
           \A d \in OtpCalls : \/ otpCall'[d] = otpCall[d]
                               \/ ~ HoldsCode(otpCall[d], k) /\ ~ HoldsCode(otpCall'[d], k),
           KeyOf(k)' => KeyOf(k) /\ StoredOtp' = StoredOtp
    PROVE  CodeInv(k)'
<1>1. \A d \in OtpCalls : /\ Storing(d, k)' => Storing(d, k) /\ otpCall'[d] = otpCall[d]
                          /\ Verifying(d, k)' <=> Verifying(d, k)
                          /\ Verifying(d, k) => otpCall'[d] = otpCall[d]
  BY DEF Storing, Verifying, Waits, HoldsCode
<1>2. k \notin DOMAIN generated' => tally'[k] = Untold
  BY DEF CodeInv
<1>3. ASSUME NEW c \in OtpCalls, Storing(c, k)'
      PROVE  /\ tally'[k] = Untold /\ otpCall'[c].data.attempts = 0
             /\ ~ KeyOf(k)'
             /\ \A d \in OtpCalls : ~ Verifying(d, k)' /\ (Storing(d, k)' => d = c)
  BY <1>1, <1>3 DEF CodeInv
<1>4. ASSUME NEW c \in OtpCalls, Verifying(c, k)'
      PROVE  /\ tally'[k].accepted = 0 /\ tally'[k].guesses = Guessed(otpCall'[c])
             /\ KeyOf(k)' => StoredOtp' = otpCall'[c].seen
             /\ \A d \in OtpCalls : Verifying(d, k)' => d = c
  BY <1>1, <1>4 DEF CodeInv
<1>5. ASSUME KeyOf(k)'
      PROVE  /\ tally'[k].accepted = 0
             /\ \/ tally'[k].guesses = StoredOtp'.attempts
                \/ \E c \in OtpCalls : Verifying(c, k)'
  BY <1>1, <1>5 DEF CodeInv
<1> QED
  BY <1>2, <1>3, <1>4, <1>5 DEF CodeInv, Guessed

\* A code nothing holds any more and nothing has stored.
LEMMA CodeGone ==
    ASSUME NEW k \in Codes, tally'[k].accepted <= 1, tally'[k].guesses <= MaxAttempts,
           k \in DOMAIN generated', ~ KeyOf(k)', \A d \in OtpCalls : ~ HoldsCode(otpCall'[d], k)
    PROVE  CodeInv(k)'
<1>1. \A d \in OtpCalls : ~ Storing(d, k)' /\ ~ Verifying(d, k)'
  BY DEF Storing, Verifying, Waits, HoldsCode
<1> QED
  BY <1>1 DEF CodeInv

\* A verification that is not overtaken judges what is stored, and is the only call that
\* holds its code.
LEMMA JudgesAlone ==
    ASSUME OtpTypeOK, DatesInv, OtpInv, NEW c \in OtpCalls,
           otpCall[c].step \in {"writeBack", "delete", "consume"},
           Overtaken(c) = {}, NEW k \in Codes \ raced, k = otpCall[c].seen.code
    PROVE  /\ StoredOtp = otpCall[c].seen /\ KeyOf(k) /\ k \in DOMAIN generated
           /\ tally[k].accepted = 0 /\ tally[k].guesses = Guessed(otpCall[c])
           /\ \A d \in OtpCalls \ {c} : ~ HoldsCode(otpCall[d], k)
<1>1. CodeInv(k) /\ Verifying(c, k)
  BY DEF OtpInv, Verifying
<1>2. StoredOtp = otpCall[c].seen /\ KeyOf(k) /\ k \in DOMAIN generated
  BY OvertakenTypes DEF KeyOf, DatesInv, Dated
<1>3. \A d \in OtpCalls \ {c} : ~ Storing(d, k) /\ ~ Verifying(d, k)
  BY <1>1, <1>2 DEF CodeInv
<1> QED
  BY <1>1, <1>2, <1>3 DEF CodeInv, HoldsCode, Storing, Verifying, Waits

\* A call that ends, having overtaken nobody it does not give up, leaves every other code
\* alone: the key it writes, if any, is of the code it held.
LEMMA OthersKept ==
    ASSUME OtpTypeOK, OtpInv, NEW c \in OtpCalls,
           otpCall[c].step \in {"writeBack", "delete", "consume"},
           Resume(c, Quiet), generated' = generated,
           NEW k \in Codes \ raced, k # otpCall[c].seen.code, tally'[k] = tally[k], ~ KeyOf(k)'
    PROVE  CodeInv(k)'
<1>1. otpCall'[c] = Quiet /\ \A d \in OtpCalls \ {c} : otpCall'[d] = otpCall[d]
  BY ResumeType DEF OtpCall
<1>2. ~ HoldsCode(otpCall[c], k) /\ ~ HoldsCode(otpCall'[c], k)
  BY <1>1 DEF HoldsCode, Quiet
<1> QED
  BY <1>1, <1>2, CodeFrame DEF OtpInv

\* Every step keeps OtpInv.
LEMMA OtpKept ==
    ASSUME OtpTypeOK, DatesInv, OtpInv, OtpNext
    PROVE  OtpInv'
<1> SUFFICES ASSUME NEW k \in Codes, k \notin raced' PROVE CodeInv(k)'
  BY DEF OtpInv
<1>0. /\ Quiet \in OtpCall /\ \A j \in Codes : ~ HoldsCode(Quiet, j)
      /\ \A c \in OtpCalls : otpCall[c] \in OtpCall
      /\ clock \in Nat /\ tally[k].guesses \in Nat /\ tally[k].accepted \in Nat
  BY OtpAssumption DEF OtpTypeOK, OtpCall, Quiet, HoldsCode
<1>1. CASE Tick \/ ClearOtp
  <2>1. /\ UNCHANGED <<tally, raced, generated, otpCall>>
        /\ KeyOf(k)' => KeyOf(k) /\ StoredOtp' = StoredOtp
    BY <1>1 DEF Tick, ClearOtp, KeyOf, OtpStored, StoredOtp
  <2> QED
    BY <2>1, CodeFrame DEF OtpInv
<1>2. ASSUME NEW c \in OtpCalls, GenerateOtp(c) PROVE CodeInv(k)'
  <2>1. PICK code \in Codes :
          LET data == [code |-> code, attempts |-> 0, expiresAt |-> clock + 2 * OtpSeconds]
              o == [step |-> "store", data |-> data]
          IN /\ code \notin DOMAIN generated
             /\ DOMAIN generated' = DOMAIN generated \cup {code}
             /\ o \in OtpCall /\ Resume(c, o)
             /\ UNCHANGED <<clock, otpKey, tally, raced>>
    BY <1>2, GeneratedTypes
  <2> DEFINE data == [code |-> code, attempts |-> 0, expiresAt |-> clock + 2 * OtpSeconds]
             o == [step |-> "store", data |-> data]
  <2>2. /\ o.step = "store" /\ o.data.code = code /\ o.data.attempts = 0
        /\ o \in OtpCall /\ Resume(c, o)
        /\ \A j \in Codes \ {code} : ~ HoldsCode(o, j)
    BY <2>1 DEF HoldsCode
  <2> HIDE DEF o
  <2>3. otpCall'[c] = o /\ otpCall[c] = Quiet
        /\ \A d \in OtpCalls \ {c} : otpCall'[d] = otpCall[d]
    BY <1>2, <2>2, ResumeType DEF GenerateOtp, Waits, OtpTypeOK, OtpCall
  <2>4. k \in Codes \ raced /\ CodeInv(k)
    BY <2>1 DEF OtpInv
  <2>5. CASE k # code
    BY <1>0, <2>1, <2>2, <2>3, <2>4, <2>5, CodeFrame DEF KeyOf, OtpStored, StoredOtp
  <2>6. CASE k = code
    <3>1. ~ KeyOf(k) /\ \A d \in OtpCalls : ~ HoldsCode(otpCall[d], k)
      BY <2>1, <2>6 DEF DatesInv, Dated, KeyOf, HoldsCode, Waits
    <3>2. tally'[k] = Untold /\ ~ KeyOf(k)'
      BY <2>1, <2>4, <2>6, <3>1 DEF CodeInv, KeyOf, OtpStored, StoredOtp
    <3>3. \A d \in OtpCalls : ~ Verifying(d, k)' /\ (Storing(d, k)' => d = c)
      BY <2>2, <2>3, <3>1 DEF Verifying, Storing, Waits, HoldsCode
    <3>4. k \in DOMAIN generated' /\ otpCall'[c].data.attempts = 0
      BY <2>1, <2>2, <2>3, <2>6
    <3>5. Untold.accepted <= 1 /\ Untold.guesses <= MaxAttempts
      BY DEF Untold, MaxAttempts
    <3> QED
      BY <3>2, <3>3, <3>4, <3>5 DEF CodeInv
  <2> QED
    BY <2>5, <2>6
<1>3. ASSUME NEW c \in OtpCalls, StoreOtp(c) PROVE CodeInv(k)'
  <2>1. /\ Waits(c, "store") /\ StoredOtp' = otpCall[c].data
        /\ UNCHANGED <<clock, generated, tally, raced>>
        /\ otpCall'[c] = Quiet /\ \A d \in OtpCalls \ {c} : otpCall'[d] = otpCall[d]
    BY <1>0, <1>3, ResumeType DEF StoreOtp, StoredOtp, Setex
  <2>2. CodeInv(k)
    BY <2>1 DEF OtpInv
  <2>3. CASE otpCall[c].data.code # k
    <3>1. ~ KeyOf(k)' /\ ~ HoldsCode(otpCall[c], k) /\ ~ HoldsCode(otpCall'[c], k)
      BY <1>0, <2>1, <2>3 DEF KeyOf, HoldsCode, Waits
    <3> QED
      BY <2>1, <2>2, <3>1, CodeFrame
  <2>4. CASE otpCall[c].data.code = k
    <3>1. Storing(c, k)
      BY <2>1, <2>4 DEF Storing
    <3>2. /\ tally'[k] = Untold /\ StoredOtp'.attempts = 0
          /\ \A d \in OtpCalls : ~ Verifying(d, k) /\ (Storing(d, k) => d = c)
      BY <2>1, <2>2, <3>1 DEF CodeInv
    <3>3. \A d \in OtpCalls : ~ Verifying(d, k)' /\ ~ Storing(d, k)'
      BY <2>1, <3>2 DEF Verifying, Storing, Waits, Quiet
    <3>4. Untold.accepted = 0 /\ Untold.guesses = 0
      BY DEF Untold
    <3> QED
      BY <3>2, <3>3, <3>4 DEF CodeInv, MaxAttempts
  <2> QED
    BY <2>3, <2>4
<1>4. ASSUME NEW c \in OtpCalls, NEW guess, VerifyOtp(c, guess) PROVE CodeInv(k)'
  <2> DEFINE o == Verdict(StoredOtp, guess)
             n == IF o.step = "delete" THEN 0 ELSE 1
  <2>1. /\ OtpStored /\ StoredOtp \in OtpData /\ StoredOtp.code \in Codes
        /\ UNCHANGED <<clock, otpKey, generated>> /\ Resume(c, o)
    BY <1>4, OtpDataTypes DEF VerifyOtp, OtpTypeOK
  <2>2. /\ o \in OtpCall /\ o.step \in {"writeBack", "delete", "consume"} /\ o.seen = StoredOtp
        /\ o.step # "delete" => StoredOtp.attempts < MaxAttempts
    BY <1>0, <2>1, VerdictType
  <2>3. n \in Nat /\ Guessed(o) = StoredOtp.attempts + n
        /\ StoredOtp.attempts \in Nat /\ StoredOtp.attempts + n <= MaxAttempts
    BY <2>1, <2>2, OtpDataTypes DEF Guessed, MaxAttempts
  <2>4. IF \E d \in OtpCalls : Verifying(d, StoredOtp.code)
        THEN GiveUp({StoredOtp.code}) ELSE Count(StoredOtp.code, n, 0)
    BY <1>4 DEF VerifyOtp
  <2> HIDE DEF o, n
  <2>5. otpCall'[c] = o /\ otpCall[c] = Quiet
        /\ \A d \in OtpCalls \ {c} : otpCall'[d] = otpCall[d]
    BY <1>4, <2>1, <2>2, ResumeType DEF VerifyOtp, Waits, OtpTypeOK, OtpCall
  <2>6. CASE k # StoredOtp.code
    <3>1. tally'[k] = tally[k] /\ k \notin raced
      <4>1. CASE GiveUp({StoredOtp.code})
        BY <2>1, <2>6, <4>1, TallyTypes
      <4>2. CASE Count(StoredOtp.code, n, 0)
        BY <2>1, <2>3, <2>6, <4>2, TallyTypes
      <4> QED
        BY <2>4, <4>1, <4>2
    <3>2. ~ HoldsCode(o, k)
      BY <2>2, <2>6 DEF HoldsCode
    <3>3. ~ KeyOf(k)'
      BY <2>1, <2>6 DEF KeyOf, OtpStored, StoredOtp
    <3> QED
      BY <1>0, <2>1, <2>5, <3>1, <3>2, <3>3, CodeFrame DEF OtpInv
  <2>7. CASE k = StoredOtp.code
    <3>1. ~ GiveUp({StoredOtp.code})
      BY <2>1, <2>7, TallyTypes
    <3>2. Count(k, n, 0) /\ \A d \in OtpCalls : ~ Verifying(d, k)
      BY <2>4, <2>7, <3>1
    <3>3. k \notin raced /\ tally'[k] = [guesses |-> tally[k].guesses + n,
                                         accepted |-> tally[k].accepted + 0]
      BY <2>3, <3>2, TallyTypes
    <3>4. CodeInv(k) /\ KeyOf(k)
      BY <2>1, <2>7, <3>3 DEF OtpInv, KeyOf
    <3>5. tally[k].accepted = 0 /\ tally[k].guesses = StoredOtp.attempts
      BY <3>2, <3>4 DEF CodeInv
    <3>6. tally'[k].accepted = 0 /\ tally'[k].guesses = Guessed(o)
          /\ tally'[k].guesses <= MaxAttempts
      BY <2>3, <3>3, <3>5
    <3>7. \A d \in OtpCalls : ~ Storing(d, k)
      BY <3>4 DEF CodeInv
    <3>8. \A d \in OtpCalls : ~ Storing(d, k)' /\ (Verifying(d, k)' => d = c)
      BY <2>2, <2>5, <3>2, <3>7 DEF Storing, Verifying, Waits
    <3>9. Verifying(c, k)' /\ StoredOtp' = o.seen /\ k \in DOMAIN generated'
      <4>1. k \in DOMAIN generated
        BY <2>1, <2>7 DEF DatesInv, Dated
      <4> QED
        BY <2>1, <2>2, <2>5, <2>7, <4>1 DEF Verifying, StoredOtp
    <3>10. tally'[k].guesses = Guessed(otpCall'[c]) /\ StoredOtp' = otpCall'[c].seen
      BY <2>5, <3>6, <3>9
    <3> QED
      BY <3>6, <3>8, <3>9, <3>10 DEF CodeInv, Guessed
  <2> QED
    BY <2>6, <2>7
<1>5. ASSUME NEW c \in OtpCalls, WriteBack(c) PROVE CodeInv(k)'
  <2> DEFINE seen == otpCall[c].seen
  <2>1. /\ otpCall[c].step = "writeBack" /\ seen \in OpenOtp /\ seen \in OtpData
        /\ Overtaken(c) \in SUBSET Codes /\ GiveUp(Overtaken(c)) /\ generated' = generated
        /\ Resume(c, Quiet)
    BY <1>0, <1>5, OtpCallTypes, OvertakenTypes DEF WriteBack, Waits
  <2>2. StoredOtp' = Counted(seen)
    BY <1>5 DEF WriteBack, StoredOtp, Setex
  <2>3. k \notin Overtaken(c) /\ k \notin raced /\ tally'[k] = tally[k]
    BY <2>1, TallyTypes
  <2>4. CASE k # seen.code
    <3>1. ~ KeyOf(k)'
      BY <2>1, <2>2, <2>4, OtpDataTypes DEF KeyOf
    <3> QED
      BY <2>1, <2>3, <2>4, <3>1, OthersKept
  <2>5. CASE k = seen.code
    <3>1. Overtaken(c) = {}
      BY <2>1, <2>3, <2>5, OvertakenTypes
    <3>2. /\ k \in DOMAIN generated /\ tally[k].accepted = 0
          /\ tally[k].guesses = Guessed(otpCall[c])
          /\ \A d \in OtpCalls \ {c} : ~ HoldsCode(otpCall[d], k)
      BY <2>1, <2>3, <2>5, <3>1, JudgesAlone
    <3>3. otpCall'[c] = Quiet /\ \A d \in OtpCalls \ {c} : otpCall'[d] = otpCall[d]
      BY <1>0, <2>1, ResumeType
    <3>4. \A d \in OtpCalls : ~ Storing(d, k)' /\ ~ Verifying(d, k)'
      BY <1>0, <3>2, <3>3 DEF HoldsCode, Storing, Verifying, Waits
    <3>5. tally'[k].guesses = StoredOtp'.attempts /\ tally'[k].accepted = 0
      BY <2>1, <2>2, <2>3, <3>2, OtpDataTypes DEF Guessed
    <3>6. tally'[k].guesses <= MaxAttempts
      BY <2>3 DEF OtpInv, CodeInv
    <3> QED
      BY <2>1, <3>2, <3>4, <3>5, <3>6 DEF CodeInv
  <2> QED
    BY <2>4, <2>5
<1>6. ASSUME NEW c \in OtpCalls, DeleteOtp(c) PROVE CodeInv(k)'
  <2>1. /\ otpCall[c].step = "delete" /\ Overtaken(c) \in SUBSET Codes
        /\ GiveUp(Overtaken(c)) /\ generated' = generated /\ Resume(c, Quiet) /\ ~ KeyOf(k)'
    BY <1>0, <1>6, OvertakenTypes DEF DeleteOtp, Waits, KeyOf, OtpStored
  <2>2. k \notin Overtaken(c) /\ k \notin raced /\ tally'[k] = tally[k]
    BY <2>1, TallyTypes
  <2>3. CASE k # otpCall[c].seen.code
    BY <2>1, <2>2, <2>3, OthersKept
  <2>4. CASE k = otpCall[c].seen.code
    <3>1. Overtaken(c) = {}
      BY <2>1, <2>2, <2>4, OvertakenTypes
    <3>2. /\ k \in DOMAIN generated
          /\ \A d \in OtpCalls \ {c} : ~ HoldsCode(otpCall[d], k)
      BY <2>1, <2>2, <2>4, <3>1, JudgesAlone
    <3>3. otpCall'[c] = Quiet /\ \A d \in OtpCalls \ {c} : otpCall'[d] = otpCall[d]
      BY <1>0, <2>1, ResumeType
    <3>4. tally'[k].accepted <= 1 /\ tally'[k].guesses <= MaxAttempts
      BY <2>2 DEF OtpInv, CodeInv
    <3> QED
      BY <1>0, <2>1, <3>2, <3>3, <3>4, CodeGone
  <2> QED
    BY <2>3, <2>4
<1>7. ASSUME NEW c \in OtpCalls, ConsumeOtp(c) PROVE CodeInv(k)'
  <2> DEFINE seen == otpCall[c].seen
  <2>1. /\ otpCall[c].step = "consume" /\ seen \in OpenOtp /\ seen \in OtpData
        /\ seen.code \in Codes /\ Overtaken(c) \in SUBSET Codes
        /\ generated' = generated /\ Resume(c, Quiet) /\ ~ KeyOf(k)'
    BY <1>0, <1>7, OtpCallTypes, OvertakenTypes, OtpDataTypes
       DEF ConsumeOtp, Waits, KeyOf, OtpStored
  <2>2. CASE Overtaken(c) # {}
    <3>1. k \notin Overtaken(c) /\ k \notin raced /\ tally'[k] = tally[k]
      BY <1>7, <2>1, <2>2, TallyTypes DEF ConsumeOtp
    <3> QED
      BY <2>1, <2>2, <3>1, OthersKept, OvertakenTypes
  <2>3. CASE Overtaken(c) = {}
    <3>1. Count(seen.code, 0, 1)
      BY <1>7, <2>3 DEF ConsumeOtp
    <3>2. /\ k \notin raced
          /\ k = seen.code => tally'[k] = [guesses |-> tally[k].guesses + 0,
                                           accepted |-> tally[k].accepted + 1]
          /\ k # seen.code => tally'[k] = tally[k]
      <4> DEFINE j == seen.code
      <4>0. j \in Codes /\ Count(j, 0, 1) /\ 0 \in Nat /\ 1 \in Nat
        BY <2>1, <3>1
      <4> HIDE DEF j
      <4>1. /\ raced' = raced
            /\ j \notin raced => tally'[j] = [guesses |-> tally[j].guesses + 0,
                                             accepted |-> tally[j].accepted + 1]
            /\ \A i \in Codes \ {j} : tally'[i] = tally[i]
        BY <4>0, TallyTypes
      <4> QED
        BY <4>1 DEF j
    <3>3. CASE k # seen.code
      BY <2>1, <3>2, <3>3, OthersKept
    <3>4. CASE k = seen.code
      <4>1. /\ k \in DOMAIN generated /\ tally[k].accepted = 0
            /\ \A d \in OtpCalls \ {c} : ~ HoldsCode(otpCall[d], k)
        BY <2>1, <2>3, <3>2, <3>4, JudgesAlone
      <4>2. otpCall'[c] = Quiet /\ \A d \in OtpCalls \ {c} : otpCall'[d] = otpCall[d]
        BY <1>0, <2>1, ResumeType
      <4>3. tally[k].guesses <= MaxAttempts
        BY <3>2 DEF OtpInv, CodeInv
      <4>4. tally'[k].accepted <= 1 /\ tally'[k].guesses <= MaxAttempts
        BY <1>0, <3>2, <3>4, <4>1, <4>3
      <4> QED
        BY <1>0, <2>1, <4>1, <4>2, <4>4, CodeGone
    <3> QED
      BY <3>3, <3>4
  <2> QED
    BY <2>2, <2>3
<1>8. ASSUME NEW c \in OtpCalls, OtpCallFails(c) PROVE CodeInv(k)'
  <2>1. /\ GiveUp({j \in Codes : Verifying(c, j)}) /\ UNCHANGED <<otpKey, generated>>
        /\ otpCall'[c] = Quiet /\ \A d \in OtpCalls \ {c} : otpCall'[d] = otpCall[d]
    BY <1>0, <1>8, ResumeType DEF OtpCallFails
  <2>2. ~ Verifying(c, k) /\ k \notin raced /\ tally'[k] = tally[k]
    BY <2>1, TallyTypes
  <2>3. CodeInv(k) /\ KeyOf(k)' = KeyOf(k) /\ StoredOtp' = StoredOtp
    BY <2>1, <2>2 DEF OtpInv, KeyOf, OtpStored, StoredOtp
  <2>4. CASE ~ Storing(c, k)
    <3>1. ~ HoldsCode(otpCall[c], k)
      BY <2>2, <2>4 DEF HoldsCode, Storing, Verifying, Waits
    <3> QED
      BY <1>0, <2>1, <2>2, <2>3, <3>1, CodeFrame
  <2>5. CASE Storing(c, k)
    <3>1. /\ ~ KeyOf(k)' /\ tally[k] = Untold
          /\ \A d \in OtpCalls \ {c} : ~ Storing(d, k) /\ ~ Verifying(d, k)
      BY <2>3, <2>5 DEF CodeInv
    <3>2. \A d \in OtpCalls : ~ HoldsCode(otpCall'[d], k)
      BY <1>0, <2>1, <3>1 DEF HoldsCode, Storing, Verifying, Waits
    <3>3. k \in DOMAIN generated'
      BY <2>1, <2>5 DEF Storing, DatesInv, Dated
    <3>4. tally'[k].accepted <= 1 /\ tally'[k].guesses <= MaxAttempts
      BY <2>2, <2>3 DEF CodeInv
    <3> QED
      BY <3>1, <3>2, <3>3, <3>4, CodeGone
  <2> QED
    BY <2>4, <2>5
<1> QED
  BY <1>1, <1>2, <1>3, <1>4, <1>5, <1>6, <1>7, <1>8 DEF OtpNext

\* OtpInv holds in every reachable state.
THEOREM OtpInvariant == OtpSpec => [](OtpTypeOK /\ DatesInv /\ OtpInv)
<1>1. OtpInit => OtpInv
  BY DEF OtpInit, OtpInv, CodeInv, Storing, Verifying, KeyOf, OtpStored, Untold, Quiet, Waits,
         MaxAttempts
<1>2. OtpTypeOK /\ DatesInv /\ OtpInv /\ [OtpNext]_otpVars => OtpInv'
  <2> SUFFICES ASSUME OtpTypeOK, DatesInv, OtpInv, [OtpNext]_otpVars PROVE OtpInv'
    OBVIOUS
  <2>1. CASE UNCHANGED otpVars
    BY <2>1 DEF otpVars, OtpInv, CodeInv, Storing, Verifying, KeyOf, OtpStored, StoredOtp,
                Waits, Guessed
  <2>2. CASE OtpNext
    BY <2>2, OtpKept
  <2> QED
    BY <2>1, <2>2
<1> QED
  BY <1>1, <1>2, DatesInvariant, PTL DEF OtpSpec

\* A code whose verifications do not overlap lets one caller in at most, on three guesses
\* at most, and a code that is still good has the attempts left that it says it has.
THEOREM OtpHolds == OtpSpec => []OtpHoldsUnlessRaced
<1>1. OtpTypeOK /\ OtpInv => OtpHoldsUnlessRaced
  <2> SUFFICES ASSUME OtpTypeOK, OtpInv, NEW k \in Codes \ raced
               PROVE  /\ tally[k].accepted <= 1
                      /\ tally[k].guesses <= MaxAttempts
                      /\ HasValidOtp /\ StoredOtp.code = k
                           => tally[k].accepted = 0 /\ tally[k].guesses + GetRemainingAttempts
                                                         \in {MaxAttempts, MaxAttempts + 1}
    BY DEF OtpHoldsUnlessRaced
  <2>1. CodeInv(k)
    BY DEF OtpInv
  <2>2. ASSUME HasValidOtp, StoredOtp.code = k
        PROVE  tally[k].accepted = 0 /\ tally[k].guesses + GetRemainingAttempts
                                          \in {MaxAttempts, MaxAttempts + 1}
    <3>1. KeyOf(k) /\ StoredOtp.attempts < MaxAttempts /\ StoredOtp.attempts \in Nat
          /\ GetRemainingAttempts = MaxAttempts - StoredOtp.attempts
      BY <2>2, OtpDataTypes
         DEF HasValidOtp, KeyOf, GetRemainingAttempts, Greatest, MaxAttempts, OtpTypeOK
    <3>2. tally[k].guesses \in {StoredOtp.attempts, StoredOtp.attempts + 1}
      BY <2>1, <3>1 DEF CodeInv, Guessed
    <3> QED
      BY <2>1, <3>1, <3>2 DEF CodeInv, MaxAttempts
  <2> QED
    BY <2>1, <2>2 DEF CodeInv
<1> QED
  BY <1>1, OtpInvariant, PTL

-----------------------------------------------------------------------------
(* The mapping between entities and rows.                                   *)

LEMMA RowOfUser ==
    ASSUME NEW user \in UserProps
    PROVE  /\ MapUserToPrisma(user) \in UserRow
           /\ MapUserToPrisma(user) # Nobody
<1> DEFINE row == MapUserToPrisma(user)
<1>1. row \in UserRow
  <2>1. FleetOwnerColumn[user.status] \in {"PROCESSING", "APPROVED", "ON_HOLD", "ARCHIVED"}
    BY DEF FleetOwnerColumn, UserProps, ApprovalStatuses
  <2>2. ChauffeurColumn[user.status] \in {"PENDING", "APPROVED", "REJECTED"}
    BY DEF ChauffeurColumn, UserProps, ApprovalStatuses
  <2> HIDE DEF row
  <2>3. /\ row.fleetOwnerStatus \in {"PROCESSING", "APPROVED", "ON_HOLD", "ARCHIVED", Nobody}
        /\ row.chauffeurApprovalStatus \in {"PENDING", "APPROVED", "REJECTED", Nobody}
    BY <2>1, <2>2 DEF row, MapUserToPrisma
  <2> QED
    BY <2>3 DEF row, MapUserToPrisma, UserRow, UserProps
<1> QED
  BY <1>1, NobodyAssumption

LEMMA UserOfRow ==
    ASSUME NEW id \in UserIds, NEW row \in UserRow
    PROVE  /\ MapPrismaToUser(id, row) \in UserProps
           /\ MapPrismaToUser(id, row).id = id
           /\ SameUser(MapPrismaToUser(id, row), row)
           /\ MapPrismaToUser(id, row).onboarded = row.hasOnboarded
<1> DEFINE user == MapPrismaToUser(id, row)
<1>1. /\ FleetOwnerStatusOf(row.fleetOwnerStatus) \in ApprovalStatuses
      /\ ChauffeurStatusOf(row.chauffeurApprovalStatus) \in ApprovalStatuses
  BY DEF FleetOwnerStatusOf, ChauffeurStatusOf, UserRow, ApprovalStatuses
<1>2. user.status \in ApprovalStatuses
  BY <1>1 DEF MapPrismaToUser, ApprovalStatuses
<1> QED
  BY <1>2 DEF MapPrismaToUser, UserRow, UserProps, SameUser

LEMMA NewUsers ==
    ASSUME NEW email \in Emails, NEW phone \in Phones \cup {PlaceholderPhone}
    PROVE  /\ RegisterAsCustomer(email, phone) \in UserProps
           /\ CreateGuest(email, phone) \in UserProps
           /\ RegisterAsFleetOwner(email, phone) \in UserProps
           /\ CreateStaff(email, phone) \in UserProps
  BY DEF RegisterAsCustomer, CreateGuest, RegisterAsFleetOwner, CreateStaff, Entity,
         UserProps, UserRoles, ApprovalStatuses, Addresses

LEMMA NewChauffeur ==
    ASSUME NEW owner \in UserIds, NEW phone \in Phones
    PROVE  CreateChauffeur(owner, phone) \in UserProps
<1>1. ChauffeurEmail(phone) \in Addresses
  BY DEF Addresses
<1> QED
  BY <1>1 DEF CreateChauffeur, Entity, UserProps, UserRoles, ApprovalStatuses

LEMMA StoredRow ==
    ASSUME UsersTypeOK, NEW u \in Stored
    PROVE  u \in UserIds /\ userRow[u] \in UserRow /\ FindById(u) \in UserProps
<1>1. u \in UserIds /\ userRow[u] \in UserRow
  BY DEF UsersTypeOK, Stored
<1> QED
  BY <1>1, UserOfRow DEF FindById

-----------------------------------------------------------------------------
(* Requests.                                                                *)

LEMMA Awaited ==
    ASSUME NEW op \in Operations, NEW step \in Steps, NEW user \in UserProps \cup {Nobody},
           NEW seen \in ApprovalStatuses \cup {Nobody}
    PROVE  /\ Awaiting(op, step, user, seen) \in ApiRequest
           /\ Free \in ApiRequest
  BY DEF Awaiting, Free, ApiRequest, Operations, Steps

\* A request as the type invariant wants it.
SlotOK(slot) ==
    /\ slot \in ApiRequest
    /\ slot.step # "idle" => slot.user \in UserProps
    /\ slot.step \in {"save", "verify", "upload", "bank", "user", "document"} =>
          slot.user.id \in Stored /\ slot.seen \in ApprovalStatuses

LEMMA SlotsOK ==
    ASSUME UsersTypeOK, NEW r \in ApiRequests
    PROVE  SlotOK(api[r])
  BY DEF UsersTypeOK, SlotOK, ApiAt, Reads

LEMMA FreeOK == SlotOK(Free)
  BY DEF SlotOK, Free, ApiRequest, Operations, Steps

LEMMA CreatingOK ==
    ASSUME NEW op \in Operations, NEW step \in {"email", "phone", "create"},
           NEW user \in UserProps
    PROVE  SlotOK(Awaiting(op, step, user, Nobody))
  BY DEF SlotOK, Awaiting, ApiRequest, Steps

LEMMA ReadingOK ==
    ASSUME NEW op \in Operations, NEW step \in {"save", "verify"},
           NEW user \in UserProps, user.id \in Stored, NEW seen \in ApprovalStatuses
    PROVE  SlotOK(Awaiting(op, step, user, seen))
  BY DEF SlotOK, Awaiting, ApiRequest, Steps

\* The request stands at the next step with what it held.
Onward(slot, step) == [slot EXCEPT !.step = step]

LEMMA AtStep ==
    ASSUME NEW slot, SlotOK(slot), NEW step \in Steps
    PROVE  /\ Onward(slot, step) \in ApiRequest
           /\ Onward(slot, step).step = step
           /\ Onward(slot, step).user = slot.user
           /\ Onward(slot, step).seen = slot.seen
  BY DEF SlotOK, Onward, ApiRequest

LEMMA GoesTo ==
    ASSUME UsersTypeOK, NEW r \in ApiRequests, NEW step \in Steps, GoTo(r, step)
    PROVE  api' = [api EXCEPT ![r] = Onward(api[r], step)]
  BY DEF GoTo, Onward, UsersTypeOK

\* Requests other than r keep their place.
LEMMA OthersStay ==
    ASSUME UsersTypeOK, NEW r \in ApiRequests, NEW slot, api' = [api EXCEPT ![r] = slot]
    PROVE  /\ api'[r] = slot
           /\ \A s \in ApiRequests : s # r => api'[s] = api[s]
  BY DEF UsersTypeOK

LEMMA SlotTyped ==
    ASSUME UsersTypeOK, NEW r \in ApiRequests, NEW slot, SlotOK(slot),
           api' = [api EXCEPT ![r] = slot],
           (userRow \in [UserIds -> UserRow \cup {Nobody}])', Stored \subseteq Stored',
           (bankRow \subseteq UserIds)', (certificate \subseteq UserIds)',
           (interfered \subseteq UserIds)'
    PROVE  UsersTypeOK'
<1>1. (api \in [ApiRequests -> ApiRequest])'
  BY DEF UsersTypeOK, SlotOK
<1>2. \A s \in ApiRequests : SlotOK(api[s])'
  <2> TAKE s \in ApiRequests
  <2>1. SlotOK(api'[s])
    BY OthersStay, SlotsOK
  <2> QED
    BY <2>1 DEF SlotOK
<1> QED
  BY <1>1, <1>2 DEF UsersTypeOK, SlotOK, ApiAt, Reads

LEMMA SlotTypedOnly ==
    ASSUME UsersTypeOK, NEW r \in ApiRequests, NEW slot, SlotOK(slot),
           api' = [api EXCEPT ![r] = slot], UNCHANGED Rows
    PROVE  UsersTypeOK'
<1>1. /\ (userRow \in [UserIds -> UserRow \cup {Nobody}])'
      /\ (bankRow \subseteq UserIds)'
      /\ (certificate \subseteq UserIds)'
      /\ (interfered \subseteq UserIds)'
      /\ Stored \subseteq Stored'
  BY DEF UsersTypeOK, Rows, Stored
<1> QED
  BY <1>1, SlotTyped

\* What a request may write is a row.
LEMMA StoreTyped ==
    ASSUME UsersTypeOK, NEW user \in UserProps, user.id \in Stored, StoreUser(user)
    PROVE  /\ (userRow \in [UserIds -> UserRow \cup {Nobody}])'
           /\ (interfered \subseteq UserIds)'
           /\ userRow' = [userRow EXCEPT ![user.id] =
                            [MapUserToPrisma(user) EXCEPT !.role = userRow[user.id].role]]
           /\ [MapUserToPrisma(user) EXCEPT !.role = userRow[user.id].role] \in UserRow
           /\ Stored' = Stored
<1>1. userRow[user.id] \in UserRow /\ user.id \in UserIds
  BY DEF UsersTypeOK, Stored
<1>2. [MapUserToPrisma(user) EXCEPT !.role = userRow[user.id].role] \in UserRow
  BY <1>1, RowOfUser DEF UserRow
<1>3. userRow' = [userRow EXCEPT ![user.id] =
                    [MapUserToPrisma(user) EXCEPT !.role = userRow[user.id].role]]
  BY DEF StoreUser
<1> HIDE DEF MapUserToPrisma
<1>4. (userRow \in [UserIds -> UserRow \cup {Nobody}])'
  BY <1>1, <1>2, <1>3 DEF UsersTypeOK
<1>5. (interfered \subseteq UserIds)'
  BY <1>1 DEF StoreUser, UsersTypeOK
<1>6. Stored' = Stored
  BY <1>1, <1>2, <1>3, NobodyAssumption DEF UsersTypeOK, Stored
<1> QED
  BY <1>2, <1>3, <1>4, <1>5, <1>6

-----------------------------------------------------------------------------
(* The invariant, row by row and request by request.                        *)

RowsInv ==
    /\ ColumnsInv
    /\ \A c, d \in Stored : userRow[c].email = userRow[d].email => c = d
    /\ \A u \in Stored : Employed(userRow[u])

SlotInv(slot) ==
    LET user == slot.user IN
    /\ slot.step \in {"email", "phone", "create"} => Employed(user) /\ ~user.onboarded
    /\ slot.step \in {"save", "verify", "upload", "bank", "user", "document"} =>
          /\ SameUser(user, userRow[user.id])
          /\ user.status = slot.seen \/ CanBeRejected(slot.seen)
    /\ slot.step \in {"verify", "upload", "bank"} => ~user.onboarded
    /\ slot.step = "save" /\ user.onboarded => Onboarded(user.id)
    /\ slot.step = "user" => user.onboarded /\ user.id \in bankRow
    /\ slot.step = "document" => user.id \in bankRow /\ Onboarded(user.id)

LEMMA InParts ==
    UsersInv <=> RowsInv /\ \A r \in ApiRequests : SlotInv(api[r])
<1>1. ASSUME UsersInv PROVE RowsInv /\ \A r \in ApiRequests : SlotInv(api[r])
  BY <1>1 DEF UsersInv, RowsInv, SlotInv, IdentityInv, VerdictsInv, OnboardingInv,
              Creates, Reads, ApiAt
<1>2. ASSUME RowsInv, \A r \in ApiRequests : SlotInv(api[r]) PROVE UsersInv
  <2>1. IdentityInv
    BY <1>2 DEF RowsInv, SlotInv, IdentityInv, Creates, Reads
  <2>2. VerdictsInv
    BY <1>2 DEF SlotInv, VerdictsInv, Reads
  <2>3. OnboardingInv
    BY <1>2 DEF SlotInv, OnboardingInv, Creates, ApiAt
  <2> QED
    BY <1>2, <2>1, <2>2, <2>3 DEF UsersInv, RowsInv
<1> QED
  BY <1>1, <1>2

LEMMA InPartsNext ==
    (UsersInv <=> RowsInv /\ \A r \in ApiRequests : SlotInv(api[r]))'
  BY InParts, PTL

\* What a step leaves true of the users that have a row: who they are, that they are
\* on board, and what was written about them.
RowsKept ==
    /\ Stored \subseteq Stored'
    /\ \A u \in Stored : SameUser(userRow'[u], userRow[u]) /\ (Onboarded(u) => Onboarded(u)')
    /\ bankRow \subseteq bankRow'

LEMMA SlotKept ==
    ASSUME UsersTypeOK, RowsKept, NEW slot, SlotOK(slot), SlotInv(slot)
    PROVE  SlotInv(slot)'
<1>1. ASSUME NEW u \in FindFleetOwners PROVE u \in FindFleetOwners'
  BY <1>1 DEF RowsKept, SameUser, FindFleetOwners, FindByRole, HasRole
<1>2. Employed(slot.user) => Employed(slot.user)'
  BY <1>1 DEF Employed
<1>3. slot.step \in {"save", "verify", "upload", "bank", "user", "document"} =>
        /\ slot.user.id \in Stored
        /\ SameUser(slot.user, userRow[slot.user.id]) =>
              SameUser(slot.user, userRow'[slot.user.id])
        /\ Onboarded(slot.user.id) => Onboarded(slot.user.id)'
  BY DEF RowsKept, SlotOK, SameUser
<1> QED
  BY <1>2, <1>3 DEF SlotInv, RowsKept

LEMMA InvKept ==
    ASSUME UsersTypeOK, UsersInv, RowsKept, RowsInv',
           NEW r \in ApiRequests, NEW slot, api' = [api EXCEPT ![r] = slot], SlotInv(slot)'
    PROVE  UsersInv'
<1>1. \A s \in ApiRequests : SlotInv(api[s])'
  <2> TAKE s \in ApiRequests
  <2>1. CASE s = r
    <3>1. api'[s] = slot
      BY <2>1, OthersStay
    <3> QED
      BY <3>1 DEF SlotInv
  <2>2. CASE s # r
    <3>1. SlotOK(api[s]) /\ SlotInv(api[s])
      BY SlotsOK, InParts
    <3>2. api'[s] = api[s]
      BY <2>2, OthersStay
    <3> DEFINE other == api[s]
    <3>3. SlotOK(other) /\ SlotInv(other) /\ api'[s] = other
      BY <3>1, <3>2
    <3> QED
      BY <3>1, <3>2, SlotKept DEF SlotInv
  <2> QED
    BY <2>1, <2>2
<1> QED
  BY <1>1, InPartsNext

LEMMA SlotMoves ==
    ASSUME UsersTypeOK, UsersInv, NEW r \in ApiRequests, NEW slot, SlotOK(slot), SlotInv(slot),
           api' = [api EXCEPT ![r] = slot], UNCHANGED Rows
    PROVE  UsersTypeOK' /\ UsersInv'
<1>1. UsersTypeOK'
  BY SlotTypedOnly
<1>2. RowsKept
  BY DEF RowsKept, Rows, Stored, SameUser, Onboarded
<1>3. RowsInv'
  BY InParts DEF RowsInv, Rows, ColumnsInv, Stored, Employed, FindFleetOwners, FindByRole,
                 HasRole
<1>4. SlotInv(slot)'
  BY <1>2, SlotKept
<1> QED
  BY <1>1, <1>2, <1>3, <1>4, InvKept

LEMMA FreeInv == SlotInv(Free)
  BY DEF SlotInv, Free

-----------------------------------------------------------------------------
(* The requests that hold a user without a row.                             *)

LEMMA SignInKeeps ==
    ASSUME UsersTypeOK, UsersInv, NEW r \in ApiRequests, NEW email \in Emails,
           NEW role \in {"customer", "fleetOwner"}, SignIn(r, email, role)
    PROVE  UsersTypeOK' /\ UsersInv'
<1> DEFINE user == IF role = "fleetOwner" THEN RegisterAsFleetOwner(email, PlaceholderPhone)
                                          ELSE RegisterAsCustomer(email, PlaceholderPhone)
           slot == Awaiting("signIn", "create", user, Nobody)
<1>1. user \in UserProps
  BY NewUsers
<1>2. user.role # "chauffeur" /\ ~user.onboarded
  BY DEF RegisterAsFleetOwner, RegisterAsCustomer, Entity
<1>3. api' = [api EXCEPT ![r] = slot] /\ UNCHANGED Rows
  BY DEF SignIn
<1> HIDE DEF user
<1>4. SlotOK(slot)
  BY <1>1, CreatingOK DEF Operations
<1>5. SlotInv(slot)
  BY <1>2 DEF SlotInv, Awaiting, Employed
<1> HIDE DEF slot
<1> QED
  BY <1>3, <1>4, <1>5, SlotMoves

LEMMA BookAsGuestKeeps ==
    ASSUME UsersTypeOK, UsersInv, NEW r \in ApiRequests, NEW email \in Emails,
           NEW phone \in Phones, BookAsGuest(r, email, phone)
    PROVE  UsersTypeOK' /\ UsersInv'
<1> DEFINE user == CreateGuest(email, phone)
           slot == Awaiting("guest", "create", user, Nobody)
<1>1. user \in UserProps
  BY NewUsers
<1>2. user.role # "chauffeur" /\ ~user.onboarded
  BY DEF CreateGuest, Entity
<1>3. api' = [api EXCEPT ![r] = slot] /\ UNCHANGED Rows
  BY DEF BookAsGuest
<1> HIDE DEF user
<1>4. SlotOK(slot)
  BY <1>1, CreatingOK DEF Operations
<1>5. SlotInv(slot)
  BY <1>2 DEF SlotInv, Awaiting, Employed
<1> HIDE DEF slot
<1> QED
  BY <1>3, <1>4, <1>5, SlotMoves

\* The employer is a fleet owner when the chauffeur is asked for.
LEMMA AddChauffeurKeeps ==
    ASSUME UsersTypeOK, UsersInv, NEW r \in ApiRequests, NEW owner \in UserIds,
           NEW phone \in Phones, AddChauffeur(r, owner, phone)
    PROVE  UsersTypeOK' /\ UsersInv'
<1> DEFINE user == CreateChauffeur(owner, phone)
           slot == Awaiting("chauffeur", "phone", user, Nobody)
<1>1. user \in UserProps
  BY NewChauffeur
<1>2. owner \in FindFleetOwners
  BY DEF AddChauffeur, GuardAdmits, FindFleetOwners, FindByRole, HasRole
<1>3. /\ user.email = ChauffeurEmail(user.phone)
      /\ user.fleetOwnerId = owner
      /\ ~user.onboarded
  BY DEF CreateChauffeur, Entity
<1>4. api' = [api EXCEPT ![r] = slot] /\ UNCHANGED Rows
  BY DEF AddChauffeur
<1> HIDE DEF user
<1>5. SlotOK(slot)
  BY <1>1, CreatingOK DEF Operations
<1>6. SlotInv(slot)
  BY <1>2, <1>3 DEF SlotInv, Awaiting, Employed
<1> HIDE DEF slot
<1> QED
  BY <1>4, <1>5, <1>6, SlotMoves

LEMMA CreateStaffAccountKeeps ==
    ASSUME UsersTypeOK, UsersInv, NEW r \in ApiRequests, NEW caller \in UserIds,
           NEW admin \in UserIds, NEW email \in Emails, NEW phone \in Phones,
           CreateStaffAccount(r, caller, admin, email, phone)
    PROVE  UsersTypeOK' /\ UsersInv'
<1> DEFINE user == CreateStaff(email, phone)
           slot == Awaiting("staff", "email", user, Nobody)
<1>1. user \in UserProps
  BY NewUsers
<1>2. user.role # "chauffeur" /\ ~user.onboarded
  BY DEF CreateStaff, Entity
<1>3. api' = [api EXCEPT ![r] = slot] /\ UNCHANGED Rows
  BY DEF CreateStaffAccount
<1> HIDE DEF user
<1>4. SlotOK(slot)
  BY <1>1, CreatingOK DEF Operations
<1>5. SlotInv(slot)
  BY <1>2 DEF SlotInv, Awaiting, Employed
<1> HIDE DEF slot
<1> QED
  BY <1>3, <1>4, <1>5, SlotMoves

\* A request that ends, or goes on with the same user.
LEMMA Ending ==
    ASSUME UsersTypeOK, UsersInv, NEW r \in ApiRequests, Ends(r), UNCHANGED Rows
    PROVE  UsersTypeOK' /\ UsersInv'
  BY FreeOK, FreeInv, SlotMoves DEF Ends

LEMMA StaysCreating ==
    ASSUME UsersTypeOK, UsersInv, NEW r \in ApiRequests, Creates(r),
           NEW step \in {"phone", "create"}, GoTo(r, step), UNCHANGED Rows
    PROVE  UsersTypeOK' /\ UsersInv'
<1> DEFINE slot == Onward(api[r], step)
<1>1. api' = [api EXCEPT ![r] = slot]
  BY GoesTo DEF Steps
<1>2. SlotOK(api[r]) /\ SlotInv(api[r])
  BY SlotsOK, InParts
<1>3. /\ slot \in ApiRequest
      /\ slot.step = step
      /\ slot.user = api[r].user
  BY <1>2, AtStep DEF Steps
<1> HIDE DEF slot
<1>4. SlotOK(slot)
  BY <1>2, <1>3 DEF SlotOK, Creates
<1>5. SlotInv(slot)
  BY <1>2, <1>3 DEF SlotInv, Creates
<1> QED
  BY <1>1, <1>4, <1>5, SlotMoves

LEMMA ValidateUniqueEmailKeeps ==
    ASSUME UsersTypeOK, UsersInv, NEW r \in ApiRequests, ValidateUniqueEmail(r)
    PROVE  UsersTypeOK' /\ UsersInv'
<1>1. Creates(r)
  BY DEF ValidateUniqueEmail, ApiAt, Creates
<1>2. UNCHANGED Rows /\ (Ends(r) \/ GoTo(r, "phone"))
  BY DEF ValidateUniqueEmail
<1> QED
  BY <1>1, <1>2, Ending, StaysCreating

LEMMA ValidateUniquePhoneNumberKeeps ==
    ASSUME UsersTypeOK, UsersInv, NEW r \in ApiRequests, ValidateUniquePhoneNumber(r)
    PROVE  UsersTypeOK' /\ UsersInv'
<1>1. Creates(r)
  BY DEF ValidateUniquePhoneNumber, ApiAt, Creates
<1>2. UNCHANGED Rows /\ (Ends(r) \/ GoTo(r, "create"))
  BY DEF ValidateUniquePhoneNumber
<1> QED
  BY <1>1, <1>2, Ending, StaysCreating

\* The row of a new user: its columns fit its role, and the rest is copied.
LEMMA ColumnsFit ==
    ASSUME NEW user \in UserProps
    PROVE  LET row == MapUserToPrisma(user) IN
           /\ SameUser(user, row)
           /\ row.hasOnboarded = user.onboarded
           /\ IsFleetOwner(row) <=> row.fleetOwnerStatus # Nobody
           /\ row.role = "chauffeur" <=> row.chauffeurApprovalStatus # Nobody
<1>1. /\ FleetOwnerColumn[user.status] # Nobody
      /\ ChauffeurColumn[user.status] # Nobody
  BY NobodyAssumption DEF FleetOwnerColumn, ChauffeurColumn, UserProps, ApprovalStatuses
<1> QED
  BY <1>1 DEF MapUserToPrisma, SameUser, IsFleetOwner

LEMMA CreateRowKeeps ==
    ASSUME UsersTypeOK, UsersInv, NEW r \in ApiRequests, NEW id \in UserIds, CreateRow(r, id)
    PROVE  UsersTypeOK' /\ UsersInv'
<1> DEFINE row == MapUserToPrisma(api[r].user)
<1>1. /\ Creates(r) /\ id \notin Stored
      /\ ~EmailTaken(api[r].user.email)
      /\ userRow' = [userRow EXCEPT ![id] = row]
      /\ api' = [api EXCEPT ![r] = Free]
      /\ bankRow' = bankRow /\ certificate' = certificate /\ interfered' = interfered
  BY DEF CreateRow, ApiAt, Creates, Ends
<1>2. SlotOK(api[r]) /\ SlotInv(api[r])
  BY SlotsOK, InParts
<1>3. api[r].user \in UserProps
  BY <1>1, <1>2 DEF SlotOK, Creates
<1>4. row \in UserRow /\ row # Nobody
  BY <1>3, RowOfUser
<1>5. /\ SameUser(api[r].user, row)
      /\ IsFleetOwner(row) <=> row.fleetOwnerStatus # Nobody
      /\ row.role = "chauffeur" <=> row.chauffeurApprovalStatus # Nobody
  BY <1>3, ColumnsFit
<1> HIDE DEF row
<1>6. /\ Stored' = Stored \cup {id}
      /\ userRow'[id] = row
      /\ \A u \in Stored : userRow'[u] = userRow[u]
  BY <1>1, <1>4 DEF UsersTypeOK, Stored
<1>7. (userRow \in [UserIds -> UserRow \cup {Nobody}])'
  BY <1>1, <1>4 DEF UsersTypeOK
<1>8. UsersTypeOK'
  BY <1>1, <1>6, <1>7, FreeOK, SlotTyped DEF UsersTypeOK
<1>9. RowsKept
  BY <1>1, <1>6 DEF RowsKept, SameUser, Onboarded
<1>10. RowsInv'
  <2>1. ColumnsInv'
    BY <1>5, <1>6, InParts DEF RowsInv, ColumnsInv
  <2>2. (\A c, d \in Stored : userRow[c].email = userRow[d].email => c = d)'
    BY <1>1, <1>5, <1>6, InParts DEF RowsInv, EmailTaken, SameUser
  <2>3. FindFleetOwners \subseteq FindFleetOwners'
    BY <1>6 DEF FindFleetOwners, FindByRole, HasRole
  <2>4. Employed(api[r].user)
    BY <1>1, <1>2 DEF SlotInv, Creates
  <2>5. (\A u \in Stored : Employed(userRow[u]))'
    <3>1. \A u \in Stored : Employed(userRow[u])
      BY InParts DEF RowsInv
    <3> QED
      BY <3>1, <2>3, <2>4, <1>5, <1>6 DEF Employed, SameUser
  <2> QED
    BY <2>1, <2>2, <2>5 DEF RowsInv
<1>11. SlotInv(Free)'
  BY DEF SlotInv, Free
<1> QED
  BY <1>1, <1>8, <1>9, <1>10, <1>11, InvKept

-----------------------------------------------------------------------------
(* The requests that hold a user they read.                                 *)

LEMMA JustRead ==
    ASSUME UsersTypeOK, NEW id \in Stored
    PROVE  LET user == FindById(id) IN
           /\ user \in UserProps
           /\ user.id = id
           /\ user.status \in ApprovalStatuses
           /\ SameUser(user, userRow[id])
           /\ user.onboarded = userRow[id].hasOnboarded
<1>1. id \in UserIds /\ userRow[id] \in UserRow /\ FindById(id) \in UserProps
  BY StoredRow
<1> QED
  BY <1>1, UserOfRow DEF FindById, UserProps

LEMMA UpdateUserProfileKeeps ==
    ASSUME UsersTypeOK, UsersInv, NEW r \in ApiRequests, NEW id \in UserIds,
           UpdateUserProfile(r, id)
    PROVE  UsersTypeOK' /\ UsersInv'
<1> DEFINE user == FindById(id)
           slot == Awaiting("profile", "save", user, user.status)
<1>1. /\ id \in Stored
      /\ api' = [api EXCEPT ![r] = slot]
      /\ UNCHANGED Rows
  BY DEF UpdateUserProfile
<1>2. /\ user \in UserProps
      /\ user.id = id
      /\ user.status \in ApprovalStatuses
      /\ SameUser(user, userRow[id])
      /\ user.onboarded = userRow[id].hasOnboarded
  BY <1>1, JustRead
<1> HIDE DEF user
<1>3. SlotOK(slot)
  BY <1>1, <1>2, ReadingOK DEF Operations
<1>4. SlotInv(slot)
  BY <1>2 DEF SlotInv, Awaiting, Onboarded
<1> HIDE DEF slot
<1> QED
  BY <1>1, <1>3, <1>4, SlotMoves

LEMMA ProcessOnboardingKeeps ==
    ASSUME UsersTypeOK, UsersInv, NEW r \in ApiRequests, NEW id \in UserIds,
           ProcessOnboarding(r, id)
    PROVE  UsersTypeOK' /\ UsersInv'
<1> DEFINE user == FindById(id)
           slot == Awaiting("onboard", "verify", user, user.status)
<1>1. /\ id \in Stored
      /\ ~user.onboarded
      /\ api' = [api EXCEPT ![r] = slot]
      /\ UNCHANGED Rows
  BY DEF ProcessOnboarding, GuardAdmits, ValidateUserForOnboarding
<1>2. /\ user \in UserProps
      /\ user.id = id
      /\ user.status \in ApprovalStatuses
      /\ SameUser(user, userRow[id])
  BY <1>1, JustRead
<1> HIDE DEF user
<1>3. SlotOK(slot)
  BY <1>1, <1>2, ReadingOK DEF Operations
<1>4. SlotInv(slot)
  BY <1>1, <1>2 DEF SlotInv, Awaiting
<1> HIDE DEF slot
<1> QED
  BY <1>1, <1>3, <1>4, SlotMoves

\* The decision is taken on a status that is open to one.
LEMMA DecideKeeps ==
    ASSUME UsersTypeOK, UsersInv, NEW r \in ApiRequests, NEW id \in UserIds,
           NEW approver \in UserIds, NEW decision \in {"approve", "reject"},
           Decide(r, id, approver, decision)
    PROVE  UsersTypeOK' /\ UsersInv'
<1> DEFINE read == FindById(id)
           user == ProcessApprovalDecision(read, decision)
           slot == Awaiting("decide", "save", user, read.status)
<1>1. /\ id \in Stored
      /\ CanBeRejected(read.status)
      /\ api' = [api EXCEPT ![r] = slot]
      /\ UNCHANGED Rows
  BY DEF Decide, CanBeApproved, CanBeRejected
<1>2. /\ read \in UserProps
      /\ read.id = id
      /\ read.status \in ApprovalStatuses
      /\ SameUser(read, userRow[id])
      /\ read.onboarded = userRow[id].hasOnboarded
  BY <1>1, JustRead
<1> HIDE DEF read
<1>3. /\ user \in UserProps
      /\ user.id = id
      /\ SameUser(user, userRow[id])
      /\ user.onboarded = userRow[id].hasOnboarded
  BY <1>2 DEF ProcessApprovalDecision, Approve, Reject, UserProps, ApprovalStatuses, SameUser
<1> HIDE DEF user
<1>4. SlotOK(slot)
  BY <1>1, <1>2, <1>3, ReadingOK DEF Operations
<1>5. SlotInv(slot)
  BY <1>1, <1>3 DEF SlotInv, Awaiting, Onboarded
<1> HIDE DEF slot
<1> QED
  BY <1>1, <1>4, <1>5, SlotMoves

\* A whole row is written back.  It is the same user as before, and one that was on
\* board stays so or is counted among those interfered with.
LEMMA Stores ==
    ASSUME UsersTypeOK, UsersInv, NEW r \in ApiRequests, Reads(r), StoreUser(api[r].user)
    PROVE  LET id == api[r].user.id IN
           /\ id \in Stored
           /\ Stored' = Stored
           /\ \A u \in Stored : u # id => userRow'[u] = userRow[u]
           /\ SameUser(userRow'[id], userRow[id])
           /\ userRow'[id].hasOnboarded = api[r].user.onboarded
           /\ userRow'[id] = MapUserToPrisma(api[r].user)
           /\ (userRow \in [UserIds -> UserRow \cup {Nobody}])'
           /\ (interfered \subseteq UserIds)'
           /\ \A u \in Stored : Onboarded(u) => Onboarded(u)'
           /\ RowsInv'
<1> DEFINE user == api[r].user
           id == user.id
           row == MapUserToPrisma(user)
<1>1. SlotOK(api[r]) /\ SlotInv(api[r])
  BY SlotsOK, InParts
<1>2. /\ user \in UserProps
      /\ id \in Stored /\ id \in UserIds
      /\ SameUser(user, userRow[id])
  BY <1>1 DEF SlotOK, SlotInv, Reads, Stored
<1>3. userRow[id] \in UserRow
  BY <1>2, StoredRow
<1>4. /\ row \in UserRow /\ row # Nobody
      /\ SameUser(user, row)
      /\ row.hasOnboarded = user.onboarded
      /\ IsFleetOwner(row) <=> row.fleetOwnerStatus # Nobody
      /\ row.role = "chauffeur" <=> row.chauffeurApprovalStatus # Nobody
  BY <1>2, RowOfUser, ColumnsFit
<1>5. /\ (userRow \in [UserIds -> UserRow \cup {Nobody}])'
      /\ (interfered \subseteq UserIds)'
      /\ userRow' = [userRow EXCEPT ![id] = [row EXCEPT !.role = userRow[id].role]]
      /\ Stored' = Stored
  BY <1>2, StoreTyped
<1>6. interfered' = IF userRow[id].hasOnboarded /\ ~user.onboarded
                    THEN interfered \cup {id} ELSE interfered
  BY DEF StoreUser
<1> HIDE DEF row
<1>7. [row EXCEPT !.role = userRow[id].role] = row
  BY <1>2, <1>4 DEF SameUser, UserRow
<1>8. /\ userRow'[id] = row
      /\ \A u \in Stored : u # id => userRow'[u] = userRow[u]
  BY <1>2, <1>5, <1>7 DEF UsersTypeOK, Stored
<1>9. SameUser(userRow'[id], userRow[id])
  BY <1>2, <1>4, <1>8 DEF SameUser
<1>10. \A u \in Stored : Onboarded(u) => Onboarded(u)'
  <2> HIDE DEF user, id
  <2> QED
    BY <1>4, <1>6, <1>8 DEF Onboarded, UserRow
<1>11. \A u \in Stored : SameUser(userRow'[u], userRow[u])
  BY <1>8, <1>9 DEF SameUser
<1>12. RowsInv'
  <2>1. RowsInv
    BY InParts
  <2>2. ColumnsInv'
    BY <2>1, <1>4, <1>5, <1>8 DEF RowsInv, ColumnsInv
  <2>3. (\A c, d \in Stored : userRow[c].email = userRow[d].email => c = d)'
    BY <2>1, <1>5, <1>11 DEF RowsInv, SameUser
  <2>4. FindFleetOwners' = FindFleetOwners
    BY <1>5, <1>11 DEF SameUser, FindFleetOwners, FindByRole, HasRole
  <2>5. (\A u \in Stored : Employed(userRow[u]))'
    BY <2>1, <2>4, <1>5, <1>11 DEF RowsInv, Employed, SameUser
  <2> QED
    BY <2>2, <2>3, <2>5 DEF RowsInv
<1> HIDE DEF user, id
<1> QED
  BY <1>2, <1>4, <1>5, <1>8, <1>9, <1>10, <1>12 DEF user, id, row

LEMMA SaveUserKeeps ==
    ASSUME UsersTypeOK, UsersInv, NEW r \in ApiRequests, SaveUser(r)
    PROVE  UsersTypeOK' /\ UsersInv'
<1>1. /\ Reads(r)
      /\ StoreUser(api[r].user)
      /\ api' = [api EXCEPT ![r] = Free]
      /\ bankRow' = bankRow /\ certificate' = certificate
  BY DEF SaveUser, ApiAt, Reads, Ends
<1>2. /\ (userRow \in [UserIds -> UserRow \cup {Nobody}])'
      /\ (interfered \subseteq UserIds)'
      /\ Stored' = Stored
      /\ RowsInv'
  BY <1>1, Stores
<1>3. RowsKept
  BY <1>1, Stores DEF RowsKept, SameUser
<1>4. UsersTypeOK'
  BY <1>1, <1>2, FreeOK, SlotTyped DEF UsersTypeOK
<1>5. SlotInv(Free)'
  BY DEF SlotInv, Free
<1> QED
  BY <1>1, <1>2, <1>3, <1>4, <1>5, InvKept

LEMMA SaveOnboardedUserKeeps ==
    ASSUME UsersTypeOK, UsersInv, NEW r \in ApiRequests, SaveOnboardedUser(r)
    PROVE  UsersTypeOK' /\ UsersInv'
<1> PICK slot : slot = Onward(api[r], "document")
  OBVIOUS
<1>1. /\ Reads(r) /\ ApiAt(r, "user")
      /\ StoreUser(api[r].user)
      /\ api' = [api EXCEPT ![r] = slot]
      /\ bankRow' = bankRow /\ certificate' = certificate
  BY GoesTo DEF SaveOnboardedUser, ApiAt, Reads, Steps
<1>2. /\ (userRow \in [UserIds -> UserRow \cup {Nobody}])'
      /\ (interfered \subseteq UserIds)'
      /\ Stored' = Stored
      /\ RowsInv'
      /\ api[r].user.id \in Stored
      /\ userRow'[api[r].user.id].hasOnboarded = api[r].user.onboarded
  BY <1>1, Stores
<1>3. RowsKept
  BY <1>1, Stores DEF RowsKept, SameUser
<1>4. SlotOK(api[r]) /\ SlotInv(api[r])
  BY SlotsOK, InParts
<1>5. /\ slot \in ApiRequest /\ slot.step = "document"
      /\ slot.user = api[r].user /\ slot.seen = api[r].seen
  BY <1>4, AtStep DEF Steps
<1>6. SlotOK(slot)
  BY <1>1, <1>4, <1>5 DEF SlotOK, Reads, ApiAt
<1>7. UsersTypeOK'
  BY <1>1, <1>2, <1>6, SlotTyped DEF UsersTypeOK
<1>8. SlotInv(slot)'
  <2>1. SameUser(slot.user, userRow'[slot.user.id])
    BY <1>1, <1>2, <1>3, <1>4, <1>5 DEF SlotInv, Reads, RowsKept, SameUser
  <2>2. slot.user.onboarded /\ slot.user.id \in bankRow
    BY <1>1, <1>4, <1>5 DEF SlotInv, ApiAt
  <2>3. slot.user.status = slot.seen \/ CanBeRejected(slot.seen)
    BY <1>1, <1>4, <1>5 DEF SlotInv, Reads
  <2> QED
    BY <1>1, <1>2, <1>5, <2>1, <2>2, <2>3 DEF SlotInv, Onboarded
<1> QED
  BY <1>1, <1>2, <1>3, <1>7, <1>8, InvKept

-----------------------------------------------------------------------------
(* The rest of an onboarding, and requests that fail.                       *)

LEMMA StaysOnboarding ==
    ASSUME UsersTypeOK, UsersInv, NEW r \in ApiRequests, api[r].step \in {"verify", "upload"},
           NEW step \in {"upload", "bank"}, GoTo(r, step), UNCHANGED Rows
    PROVE  UsersTypeOK' /\ UsersInv'
<1> PICK slot : slot = Onward(api[r], step)
  OBVIOUS
<1>1. api' = [api EXCEPT ![r] = slot]
  BY GoesTo DEF Steps
<1>2. SlotOK(api[r]) /\ SlotInv(api[r])
  BY SlotsOK, InParts
<1>3. /\ slot \in ApiRequest /\ slot.step = step
      /\ slot.user = api[r].user /\ slot.seen = api[r].seen
  BY <1>2, AtStep DEF Steps
<1>4. SlotOK(slot)
  BY <1>2, <1>3 DEF SlotOK
<1>5. SlotInv(slot)
  BY <1>2, <1>3 DEF SlotInv
<1> QED
  BY <1>1, <1>4, <1>5, SlotMoves

LEMMA BankAccountAnsweredKeeps ==
    ASSUME UsersTypeOK, UsersInv, NEW r \in ApiRequests, BankAccountAnswered(r)
    PROVE  UsersTypeOK' /\ UsersInv'
<1>1. api[r].step = "verify" /\ UNCHANGED Rows /\ (Ends(r) \/ GoTo(r, "upload"))
  BY DEF BankAccountAnswered, ApiAt
<1> QED
  BY <1>1, Ending, StaysOnboarding

LEMMA CertificateUploadedKeeps ==
    ASSUME UsersTypeOK, UsersInv, NEW r \in ApiRequests, CertificateUploaded(r)
    PROVE  UsersTypeOK' /\ UsersInv'
<1>1. api[r].step = "upload" /\ UNCHANGED Rows /\ GoTo(r, "bank")
  BY DEF CertificateUploaded, ApiAt
<1> QED
  BY <1>1, StaysOnboarding

\* Nothing a request may do to the rows of users but add to the other tables.
LEMMA TablesGrow ==
    ASSUME UsersTypeOK, UsersInv, NEW r \in ApiRequests, NEW slot, SlotOK(slot),
           api' = [api EXCEPT ![r] = slot], userRow' = userRow,
           bankRow \subseteq bankRow', interfered \subseteq interfered',
           (bankRow \subseteq UserIds)', (certificate \subseteq UserIds)',
           (interfered \subseteq UserIds)', SlotInv(slot)'
    PROVE  UsersTypeOK' /\ UsersInv'
<1>1. (userRow \in [UserIds -> UserRow \cup {Nobody}])' /\ Stored' = Stored
  BY DEF UsersTypeOK, Stored
<1>2. UsersTypeOK'
  BY <1>1, SlotTyped
<1>3. RowsKept
  BY <1>1 DEF RowsKept, SameUser, Onboarded
<1>4. RowsInv'
  BY InParts DEF RowsInv, ColumnsInv, Stored, Employed, FindFleetOwners, FindByRole, HasRole
<1> QED
  BY <1>2, <1>3, <1>4, InvKept

LEMMA OnBoard ==
    ASSUME NEW user \in UserProps
    PROVE  /\ CompleteOnboarding(user) \in UserProps
           /\ CompleteOnboarding(user).onboarded
           /\ CompleteOnboarding(user).id = user.id
           /\ CompleteOnboarding(user).status = user.status
           /\ SameUser(CompleteOnboarding(user), user)
  BY DEF CompleteOnboarding, UserProps, SameUser

LEMMA SaveBankDetailsKeeps ==
    ASSUME UsersTypeOK, UsersInv, NEW r \in ApiRequests, SaveBankDetails(r)
    PROVE  UsersTypeOK' /\ UsersInv'
<1>1. CASE Ends(r) /\ bankRow' = bankRow
  BY <1>1, Ending DEF SaveBankDetails, Rows
<1>2. CASE ~(Ends(r) /\ bankRow' = bankRow)
  <2> PICK slot : slot = [api[r] EXCEPT !.step = "user", !.user = CompleteOnboarding(@)]
    OBVIOUS
  <2>1. /\ api[r].step = "bank"
        /\ bankRow' = bankRow \cup {api[r].user.id}
        /\ api' = [api EXCEPT ![r].step = "user", ![r].user = CompleteOnboarding(@)]
        /\ userRow' = userRow /\ certificate' = certificate /\ interfered' = interfered
    BY <1>2 DEF SaveBankDetails, ApiAt
  <2>2. SlotOK(api[r]) /\ SlotInv(api[r])
    BY SlotsOK, InParts
  <2>3. /\ api[r] \in ApiRequest
        /\ api[r].user \in UserProps
        /\ api[r].user.id \in Stored
        /\ api[r].seen \in ApprovalStatuses
    BY <2>1, <2>2 DEF SlotOK
  <2>4. api' = [api EXCEPT ![r] = slot]
    BY <2>1, <2>3 DEF UsersTypeOK, ApiRequest
  <2>5. /\ slot.step = "user"
        /\ slot.user = CompleteOnboarding(api[r].user)
        /\ slot.seen = api[r].seen
        /\ slot.op = api[r].op
        /\ slot = Awaiting(slot.op, slot.step, slot.user, slot.seen)
    BY <2>3 DEF ApiRequest, Awaiting
  <2>6. /\ slot.user \in UserProps
        /\ slot.user.onboarded
        /\ slot.user.id = api[r].user.id
        /\ slot.user.status = api[r].user.status
        /\ SameUser(slot.user, api[r].user)
    BY <2>3, <2>5, OnBoard
  <2>7. slot \in ApiRequest
    BY <2>3, <2>5, <2>6 DEF Awaiting, ApiRequest, Steps
  <2>8. SlotOK(slot)
    BY <2>3, <2>5, <2>6, <2>7 DEF SlotOK
  <2>9. SlotInv(slot)'
    <3>1. /\ SameUser(slot.user, userRow[slot.user.id])
          /\ slot.user.status = slot.seen \/ CanBeRejected(slot.seen)
      BY <2>1, <2>2, <2>5, <2>6 DEF SlotInv, SameUser
    <3> QED
      BY <2>1, <2>5, <2>6, <3>1 DEF SlotInv
  <2>10. (bankRow \subseteq UserIds)' /\ (certificate \subseteq UserIds)'
           /\ (interfered \subseteq UserIds)'
    BY <2>1, <2>3 DEF UsersTypeOK, Stored
  <2> QED
    BY <2>1, <2>4, <2>8, <2>9, <2>10, TablesGrow
<1> QED
  BY <1>1, <1>2

LEMMA SaveCertificateKeeps ==
    ASSUME UsersTypeOK, UsersInv, NEW r \in ApiRequests, SaveCertificate(r)
    PROVE  UsersTypeOK' /\ UsersInv'
<1>1. /\ Reads(r)
      /\ certificate' = certificate \cup {api[r].user.id}
      /\ api' = [api EXCEPT ![r] = Free]
      /\ userRow' = userRow /\ bankRow' = bankRow /\ interfered' = interfered
  BY DEF SaveCertificate, ApiAt, Reads, Ends
<1>2. api[r].user.id \in UserIds
  BY <1>1 DEF UsersTypeOK, Stored
<1>3. SlotInv(Free)'
  BY DEF SlotInv, Free
<1> QED
  BY <1>1, <1>2, <1>3, FreeOK, TablesGrow DEF UsersTypeOK

LEMMA RequestFailsKeeps ==
    ASSUME UsersTypeOK, UsersInv, NEW r \in ApiRequests, RequestFails(r)
    PROVE  UsersTypeOK' /\ UsersInv'
<1>1. /\ api' = [api EXCEPT ![r] = Free]
      /\ userRow' = userRow /\ bankRow' = bankRow /\ certificate' = certificate
      /\ interfered' = IF api[r].step \in {"user", "document"}
                       THEN interfered \cup {api[r].user.id} ELSE interfered
  BY DEF RequestFails, Ends
<1>2. api[r].step \in {"user", "document"} => api[r].user.id \in UserIds
  BY DEF UsersTypeOK, Stored, Reads
<1>3. SlotInv(Free)'
  BY DEF SlotInv, Free
<1> QED
  BY <1>1, <1>2, <1>3, FreeOK, TablesGrow DEF UsersTypeOK

-----------------------------------------------------------------------------
LEMMA UsersStart ==
    ASSUME UsersInit
    PROVE  UsersTypeOK /\ UsersInv
<1> DEFINE admin == Entity("REGISTERED", "admin", Nobody, PlaceholderPhone, Nobody, "APPROVED")
           row == MapUserToPrisma(admin)
<1>1. admin \in UserProps
  BY DEF Entity, UserProps, UserRoles, ApprovalStatuses, Addresses
<1>2. row \in UserRow /\ row # Nobody
  BY <1>1, RowOfUser
<1>3. row.role = "admin"
  BY DEF MapUserToPrisma, Entity
<1>4. /\ IsFleetOwner(row) <=> row.fleetOwnerStatus # Nobody
      /\ row.role = "chauffeur" <=> row.chauffeurApprovalStatus # Nobody
  BY <1>1, ColumnsFit
<1>5. /\ userRow = [u \in UserIds |-> IF u = FirstAdmin THEN row ELSE Nobody]
      /\ bankRow = {} /\ certificate = {} /\ interfered = {}
      /\ api = [r \in ApiRequests |-> Free]
  BY DEF UsersInit
<1> HIDE DEF row, admin
<1>6. Stored = {FirstAdmin} /\ userRow[FirstAdmin] = row
  BY <1>2, <1>5, UsersAssumption DEF Stored
<1>7. UsersTypeOK
  <2>1. userRow \in [UserIds -> UserRow \cup {Nobody}]
    BY <1>2, <1>5
  <2>2. api \in [ApiRequests -> ApiRequest] /\ \A r \in ApiRequests : SlotOK(api[r])
    BY <1>5, FreeOK DEF SlotOK
  <2>3. \A r \in ApiRequests : api[r].step = "idle"
    BY <1>5 DEF Free
  <2> QED
    BY <1>5, <2>1, <2>2, <2>3 DEF UsersTypeOK, ApiAt, Reads
<1>8. RowsInv
  BY <1>3, <1>4, <1>6 DEF RowsInv, ColumnsInv, Employed
<1>9. \A r \in ApiRequests : SlotInv(api[r])
  BY <1>5, FreeInv
<1> QED
  BY <1>7, <1>8, <1>9, InParts

LEMMA UsersStep ==
    ASSUME UsersTypeOK, UsersInv, [UsersNext]_usersVars
    PROVE  UsersTypeOK' /\ UsersInv'
<1>1. CASE UsersNext
  <2> PICK r \in ApiRequests : UsersNext!(r)
    BY <1>1 DEF UsersNext
  <2> QED
    BY SignInKeeps, BookAsGuestKeeps, AddChauffeurKeeps, CreateStaffAccountKeeps,
       ValidateUniqueEmailKeeps, ValidateUniquePhoneNumberKeeps, CreateRowKeeps, DecideKeeps,
       UpdateUserProfileKeeps, SaveUserKeeps, ProcessOnboardingKeeps,
       BankAccountAnsweredKeeps, CertificateUploadedKeeps, SaveBankDetailsKeeps,
       SaveOnboardedUserKeeps, SaveCertificateKeeps, RequestFailsKeeps
<1>2. CASE UNCHANGED usersVars
  <2>1. UsersTypeOK'
    BY <1>2 DEF usersVars, UsersTypeOK, ApiAt, Reads, Stored
  <2>2. UsersInv'
    BY <1>2 DEF usersVars, UsersInv, ColumnsInv, IdentityInv, VerdictsInv, OnboardingInv,
                ApiAt, Reads, Creates, Stored, Employed, FindFleetOwners, FindByRole, HasRole,
                Onboarded
  <2> QED
    BY <2>1, <2>2
<1> QED
  BY <1>1, <1>2

\* The type invariant, and what rows and requests keep to between two steps.
THEOREM UsersInvariant == UsersSpec => [](UsersTypeOK /\ UsersInv)
<1>1. UsersInit => UsersTypeOK /\ UsersInv
  BY UsersStart
<1>2. UsersTypeOK /\ UsersInv /\ [UsersNext]_usersVars => (UsersTypeOK /\ UsersInv)'
  BY UsersStep
<1> QED
  BY <1>1, <1>2, PTL DEF UsersSpec

\* The type invariant of Users.
THEOREM UsersTypeCorrect == UsersSpec => []UsersTypeOK
  BY UsersInvariant, PTL

-----------------------------------------------------------------------------
(* The lists of users, and the chauffeurs.                                  *)

\* The status read back is the status of the column the role has.
LEMMA StatusOfColumns ==
    ASSUME UsersTypeOK, ColumnsInv, NEW u \in Stored
    PROVE  LET row == userRow[u]
               status == FindById(u).status
           IN
           /\ CanBeApproved(status) <=> \/ row.fleetOwnerStatus = "PROCESSING"
                                        \/ row.chauffeurApprovalStatus = "PENDING"
           /\ status = "APPROVED" <=> \/ row.fleetOwnerStatus = "APPROVED"
                                      \/ row.chauffeurApprovalStatus = "APPROVED"
                                      \/ row.role \in {"customer", "admin", "staff"}
           /\ status = "REJECTED" <=> \/ row.fleetOwnerStatus = "ARCHIVED"
                                      \/ row.chauffeurApprovalStatus = "REJECTED"
<1> DEFINE row == userRow[u]
           status == FindById(u).status
<1>1. /\ row.role \in UserRoles
      /\ row.fleetOwnerStatus \in {"PROCESSING", "APPROVED", "ON_HOLD", "ARCHIVED", Nobody}
      /\ row.chauffeurApprovalStatus \in {"PENDING", "APPROVED", "REJECTED", Nobody}
  BY StoredRow DEF UserRow
<1>2. /\ row.role = "fleetOwner" <=> row.fleetOwnerStatus # Nobody
      /\ row.role = "chauffeur" <=> row.chauffeurApprovalStatus # Nobody
  BY DEF ColumnsInv, IsFleetOwner
<1>3. status = CASE row.role = "fleetOwner" -> FleetOwnerStatusOf(row.fleetOwnerStatus)
                 [] row.role = "chauffeur" -> ChauffeurStatusOf(row.chauffeurApprovalStatus)
                 [] OTHER -> "APPROVED"
  BY DEF FindById, MapPrismaToUser
<1>4. Nobody \notin {"PROCESSING", "APPROVED", "ON_HOLD", "ARCHIVED", "PENDING", "REJECTED"}
  BY NobodyAssumption DEF ApprovalStatuses
<1> HIDE DEF row, status
<1>5. CASE row.role = "fleetOwner"
  <2>1. /\ status = FleetOwnerStatusOf(row.fleetOwnerStatus)
        /\ row.chauffeurApprovalStatus = Nobody
    BY <1>2, <1>3, <1>5
  <2> QED
    BY <1>1, <1>2, <1>4, <1>5, <2>1 DEF FleetOwnerStatusOf, CanBeApproved, row, status
<1>6. CASE row.role = "chauffeur"
  <2>1. /\ status = ChauffeurStatusOf(row.chauffeurApprovalStatus)
        /\ row.fleetOwnerStatus = Nobody
    BY <1>2, <1>3, <1>6
  <2> QED
    BY <1>1, <1>2, <1>4, <1>6, <2>1 DEF ChauffeurStatusOf, CanBeApproved, row, status
<1>7. CASE row.role \notin {"fleetOwner", "chauffeur"}
  <2>1. /\ status = "APPROVED"
        /\ row.fleetOwnerStatus = Nobody /\ row.chauffeurApprovalStatus = Nobody
    BY <1>2, <1>3, <1>7
  <2> QED
    BY <1>1, <1>4, <1>7, <2>1 DEF UserRoles, CanBeApproved, row, status
<1> QED
  BY <1>5, <1>6, <1>7

\* A search, a list and a count ask the same of a row.
LEMMA ListsOfStored ==
    ASSUME UsersTypeOK, ColumnsInv
    PROVE  ListsAgree
<1>1. FindPendingApprovals(Nobody) = {u \in Stored : CanBeApproved(FindById(u).status)}
  BY StatusOfColumns DEF FindPendingApprovals, HasRole
<1>2. FindApprovedUsers(Nobody) = {u \in Stored : IsApproved(FindById(u))}
  BY StatusOfColumns DEF FindApprovedUsers, HasRole, IsApproved
<1>3. FindRejectedUsers(Nobody) = {u \in Stored : FindById(u).status = "REJECTED"}
  BY StatusOfColumns DEF FindRejectedUsers, HasRole
<1>4. CountPendingApprovals = CountByApprovalStatus("PENDING")
  <2>1. FindPendingApprovals(Nobody) = {u \in Stored : StatusFilter("PENDING", u)}
    BY DEF FindPendingApprovals, HasRole, StatusFilter
  <2> QED
    BY <2>1 DEF CountPendingApprovals, CountByApprovalStatus
<1>5. ASSUME NEW role \in {"fleetOwner", "chauffeur"}
      PROVE  /\ Search(role, Nobody, "PENDING") = FindPendingApprovals(role)
             /\ Search(role, Nobody, "APPROVED") = FindApprovedUsers(role)
  <2>1. \A u \in HasRole(role) : userRow[u].role = role
    BY NobodyAssumption DEF HasRole, UserRoles
  <2> QED
    BY <2>1 DEF Search, FindPendingApprovals, FindApprovedUsers, StatusFilter
<1> QED
  BY <1>1, <1>2, <1>3, <1>4, <1>5 DEF ListsAgree

\* Every query for pending, approved or rejected users agrees with the status of the
\* entity, for any set of users.
THEOREM ListsAlwaysAgree == UsersSpec => []ListsAgree
<1>1. UsersTypeOK /\ UsersInv => ListsAgree
  BY ListsOfStored DEF UsersInv
<1> QED
  BY <1>1, UsersInvariant, PTL

\* No two chauffeurs share a phone number, and each belongs to a stored fleet owner,
\* although the number is looked up before the row is written.
THEOREM ChauffeursStayIdentified == UsersSpec => []ChauffeursIdentified
<1>1. ASSUME UsersTypeOK, UsersInv
      PROVE  ChauffeursIdentified
  <2>1. \A c \in FindChauffeurs(Nobody) :
           /\ c \in Stored /\ userRow[c].role = "chauffeur"
           /\ userRow[c].email = ChauffeurEmail(userRow[c].phone)
           /\ userRow[c].fleetOwnerId \in FindFleetOwners
    <3> TAKE c \in FindChauffeurs(Nobody)
    <3>1. c \in Stored /\ userRow[c].role = "chauffeur"
      BY NobodyAssumption DEF FindChauffeurs, HasRole, UserRoles
    <3> QED
      BY <1>1, <3>1 DEF UsersInv, IdentityInv, Employed
  <2>2. ASSUME NEW c \in FindChauffeurs(Nobody), NEW d \in FindChauffeurs(Nobody),
               userRow[c].phone = userRow[d].phone
        PROVE  c = d
    BY <1>1, <2>1, <2>2 DEF UsersInv, IdentityInv
  <2> QED
    BY <2>1, <2>2 DEF ChauffeursIdentified, FindFleetOwnerByChauffeur
<1> QED
  BY <1>1, UsersInvariant, PTL

-----------------------------------------------------------------------------
(* Onboarding: bank details, flag and certificate of one user.              *)

WholeFor(u) ==
    \/ InOnboarding(u)
    \/ u \in FindUsersWithBankDetails \cap certificate \cap FindOnboardedUsers(Nobody)
    \/ u \notin bankRow \cup certificate \cup FindOnboardedUsers(Nobody)

LEMMA HaveOnboarded ==
    /\ \A u : u \in FindOnboardedUsers(Nobody) <=> u \in Stored /\ userRow[u].hasOnboarded
    /\ \A u : u \in FindUsersWithBankDetails <=> u \in Stored /\ u \in bankRow
  BY DEF FindOnboardedUsers, HasRole, FindUsersWithBankDetails

\* A step that leaves the three of u alone, and lets nobody out of u's onboarding.
LEMMA LeftAlone ==
    ASSUME NEW u \in UserIds, WholeFor(u), Stored \subseteq Stored',
           u \in bankRow' <=> u \in bankRow, u \in certificate' <=> u \in certificate,
           (u \in Stored' /\ userRow'[u].hasOnboarded) <=>
               (u \in Stored /\ userRow[u].hasOnboarded),
           InOnboarding(u) => InOnboarding(u)'
    PROVE  WholeFor(u)'
<1>1. (u \in FindOnboardedUsers(Nobody))' <=> u \in FindOnboardedUsers(Nobody)
  BY HaveOnboarded DEF FindOnboardedUsers, HasRole
<1>2. u \in FindUsersWithBankDetails => (u \in FindUsersWithBankDetails)'
  BY DEF FindUsersWithBankDetails
<1> QED
  BY <1>1, <1>2 DEF WholeFor

\* Requests other than r stay in onboarding, and r does if it moves on with its user.
LEMMA StaysIn ==
    ASSUME UsersTypeOK, NEW r \in ApiRequests, NEW slot, api' = [api EXCEPT ![r] = slot],
           NEW u, InOnboarding(u),
           api[r].step \in {"user", "document"} /\ api[r].user.id = u =>
               slot.step \in {"user", "document"} /\ slot.user.id = u
    PROVE  InOnboarding(u)'
<1> PICK s \in ApiRequests : api[s].step \in {"user", "document"} /\ api[s].user.id = u
  BY DEF InOnboarding
<1>1. api'[r] = slot /\ (s # r => api'[s] = api[s])
  BY OthersStay
<1>2. CASE s = r
  BY <1>1, <1>2 DEF InOnboarding
<1>3. CASE s # r
  BY <1>1, <1>3 DEF InOnboarding
<1> QED
  BY <1>2, <1>3

LEMMA MovesOutside ==
    ASSUME UsersTypeOK, OnboardingWhole, NEW r \in ApiRequests, NEW slot,
           api' = [api EXCEPT ![r] = slot], api[r].step \notin {"user", "document"},
           UNCHANGED Rows
    PROVE  OnboardingWhole'
<1>1. ASSUME NEW u \in UserIds \ interfered PROVE WholeFor(u)'
  <2>1. WholeFor(u)
    BY DEF OnboardingWhole, WholeFor
  <2>2. InOnboarding(u) => InOnboarding(u)'
    BY StaysIn
  <2> QED
    BY <2>1, <2>2, LeftAlone DEF Rows, Stored
<1> QED
  BY <1>1 DEF OnboardingWhole, WholeFor, Rows

LEMMA CreateRowWhole ==
    ASSUME UsersTypeOK, UsersInv, OnboardingWhole, NEW r \in ApiRequests, NEW id \in UserIds,
           CreateRow(r, id)
    PROVE  OnboardingWhole'
<1>1. /\ ApiAt(r, "create") /\ Creates(r) /\ id \notin Stored
      /\ userRow' = [userRow EXCEPT ![id] = MapUserToPrisma(api[r].user)]
      /\ api' = [api EXCEPT ![r] = Free]
      /\ bankRow' = bankRow /\ certificate' = certificate /\ interfered' = interfered
  BY DEF CreateRow, ApiAt, Creates, Ends
<1>2. ~api[r].user.onboarded
  BY <1>1 DEF UsersInv, OnboardingInv
<1>3. ~MapUserToPrisma(api[r].user).hasOnboarded
  BY <1>2 DEF MapUserToPrisma
<1>4. /\ ~userRow'[id].hasOnboarded
      /\ \A u \in UserIds : u # id => userRow'[u] = userRow[u]
  BY <1>1, <1>3 DEF UsersTypeOK
<1>5. Stored \subseteq Stored' /\ \A u \in Stored' : u # id => u \in Stored
  BY <1>1, <1>4 DEF Stored
<1>6. ASSUME NEW u \in UserIds \ interfered PROVE WholeFor(u)'
  <2>1. WholeFor(u)
    BY DEF OnboardingWhole, WholeFor
  <2>2. InOnboarding(u) => InOnboarding(u)'
    BY <1>1, StaysIn DEF ApiAt
  <2>3. (u \in Stored' /\ userRow'[u].hasOnboarded) <=>
            (u \in Stored /\ userRow[u].hasOnboarded)
    BY <1>1, <1>4, <1>5
  <2> QED
    BY <1>1, <1>5, <2>1, <2>2, <2>3, LeftAlone
<1> QED
  BY <1>1, <1>6 DEF OnboardingWhole, WholeFor

\* A save that changes the flag is one of a user interfered with, before or now.
LEMMA SaveUserWhole ==
    ASSUME UsersTypeOK, UsersInv, OnboardingWhole, NEW r \in ApiRequests, SaveUser(r)
    PROVE  OnboardingWhole'
<1> DEFINE id == api[r].user.id
<1>1. /\ Reads(r) /\ ApiAt(r, "save")
      /\ StoreUser(api[r].user)
      /\ api' = [api EXCEPT ![r] = Free]
      /\ bankRow' = bankRow /\ certificate' = certificate
  BY DEF SaveUser, ApiAt, Reads, Ends
<1>2. /\ id \in Stored /\ Stored' = Stored
      /\ \A u \in Stored : u # id => userRow'[u] = userRow[u]
      /\ userRow'[id].hasOnboarded = api[r].user.onboarded
  BY <1>1, Stores
<1>3. interfered' = IF userRow[id].hasOnboarded /\ ~api[r].user.onboarded
                    THEN interfered \cup {id} ELSE interfered
  BY <1>1 DEF StoreUser
<1>4. api[r].user.onboarded => userRow[id].hasOnboarded \/ id \in interfered
  BY <1>1 DEF UsersInv, OnboardingInv, Onboarded
<1>5. ASSUME NEW u \in UserIds, u \notin interfered' PROVE WholeFor(u)'
  <2>1. u \notin interfered /\ WholeFor(u)
    BY <1>3, <1>5 DEF OnboardingWhole, WholeFor
  <2>2. InOnboarding(u) => InOnboarding(u)'
    BY <1>1, StaysIn DEF ApiAt
  <2>3. userRow[id].hasOnboarded \in BOOLEAN /\ userRow'[id].hasOnboarded \in BOOLEAN
    <3>1. userRow[id] \in UserRow
      BY <1>2, StoredRow
    <3>2. userRow'[id] = MapUserToPrisma(api[r].user) /\ api[r].user \in UserProps
      BY <1>1, Stores DEF UsersTypeOK, ApiAt
    <3>3. userRow'[id] \in UserRow
      BY <3>2, RowOfUser
    <3> QED
      BY <3>1, <3>3 DEF UserRow
  <2>4. u = id => (userRow'[u].hasOnboarded <=> userRow[u].hasOnboarded)
    BY <1>2, <1>3, <1>4, <1>5, <2>1, <2>3
  <2>5. (u \in Stored' /\ userRow'[u].hasOnboarded) <=>
            (u \in Stored /\ userRow[u].hasOnboarded)
    BY <1>2, <2>4
  <2> QED
    BY <1>1, <1>2, <2>1, <2>2, <2>5, LeftAlone
<1> QED
  BY <1>5 DEF OnboardingWhole, WholeFor

LEMMA SaveBankDetailsWhole ==
    ASSUME UsersTypeOK, UsersInv, OnboardingWhole, NEW r \in ApiRequests, SaveBankDetails(r)
    PROVE  OnboardingWhole'
<1>1. CASE Ends(r) /\ bankRow' = bankRow
  BY <1>1, MovesOutside DEF SaveBankDetails, Rows, Ends, ApiAt
<1>2. CASE ~(Ends(r) /\ bankRow' = bankRow)
  <2> PICK slot : slot = [api[r] EXCEPT !.step = "user", !.user = CompleteOnboarding(@)]
    OBVIOUS
  <2>1. /\ api[r].step = "bank"
        /\ bankRow' = bankRow \cup {api[r].user.id}
        /\ api' = [api EXCEPT ![r].step = "user", ![r].user = CompleteOnboarding(@)]
        /\ userRow' = userRow /\ certificate' = certificate /\ interfered' = interfered
    BY <1>2 DEF SaveBankDetails, ApiAt
  <2>2. api[r] \in ApiRequest /\ api[r].user \in UserProps
    BY <2>1 DEF UsersTypeOK, ApiAt
  <2>3. api' = [api EXCEPT ![r] = slot]
    BY <2>1, <2>2 DEF UsersTypeOK, ApiRequest
  <2>4. slot.step = "user" /\ slot.user = CompleteOnboarding(api[r].user)
    BY <2>2 DEF ApiRequest
  <2>5. slot.user.id = api[r].user.id
    BY <2>2, <2>4, OnBoard
  <2>6. ASSUME NEW u \in UserIds \ interfered PROVE WholeFor(u)'
    <3>1. CASE u = api[r].user.id
      <4>1. api'[r] = slot
        BY <2>3, OthersStay
      <4> QED
        BY <2>4, <2>5, <3>1, <4>1 DEF WholeFor, InOnboarding
    <3>2. CASE u # api[r].user.id
      <4>1. WholeFor(u)
        BY DEF OnboardingWhole, WholeFor
      <4>2. InOnboarding(u) => InOnboarding(u)'
        BY <2>1, <2>3, StaysIn
      <4> QED
        BY <2>1, <3>2, <4>1, <4>2, LeftAlone DEF Stored
    <3> QED
      BY <3>1, <3>2
  <2> QED
    BY <2>1, <2>6 DEF OnboardingWhole, WholeFor
<1> QED
  BY <1>1, <1>2

LEMMA SaveOnboardedUserWhole ==
    ASSUME UsersTypeOK, UsersInv, OnboardingWhole, NEW r \in ApiRequests, SaveOnboardedUser(r)
    PROVE  OnboardingWhole'
<1> DEFINE id == api[r].user.id
<1> PICK slot : slot = Onward(api[r], "document")
  OBVIOUS
<1>1. /\ Reads(r)
      /\ StoreUser(api[r].user)
      /\ api' = [api EXCEPT ![r] = slot]
      /\ bankRow' = bankRow /\ certificate' = certificate
  BY GoesTo DEF SaveOnboardedUser, ApiAt, Reads, Steps
<1>2. /\ id \in Stored /\ Stored' = Stored
      /\ \A u \in Stored : u # id => userRow'[u] = userRow[u]
  BY <1>1, Stores
<1>3. slot.step = "document" /\ slot.user = api[r].user
  BY SlotsOK, AtStep DEF Steps
<1>4. interfered \subseteq interfered'
  BY <1>1 DEF StoreUser
<1>5. ASSUME NEW u \in UserIds, u \notin interfered' PROVE WholeFor(u)'
  <2>1. CASE u = id
    <3>1. api'[r] = slot
      BY <1>1, OthersStay
    <3> QED
      BY <1>3, <2>1, <3>1 DEF WholeFor, InOnboarding
  <2>2. CASE u # id
    <3>1. WholeFor(u)
      BY <1>4, <1>5 DEF OnboardingWhole, WholeFor
    <3>2. InOnboarding(u) => InOnboarding(u)'
      BY <1>1, <1>3, StaysIn
    <3>3. (u \in Stored' /\ userRow'[u].hasOnboarded) <=>
              (u \in Stored /\ userRow[u].hasOnboarded)
      BY <1>2, <2>2
    <3> QED
      BY <1>1, <1>2, <3>1, <3>2, <3>3, LeftAlone
  <2> QED
    BY <2>1, <2>2
<1> QED
  BY <1>5 DEF OnboardingWhole, WholeFor

\* The certificate is the last of the three.
LEMMA SaveCertificateWhole ==
    ASSUME UsersTypeOK, UsersInv, OnboardingWhole, NEW r \in ApiRequests, SaveCertificate(r)
    PROVE  OnboardingWhole'
<1> DEFINE id == api[r].user.id
<1>1. /\ Reads(r) /\ ApiAt(r, "document")
      /\ certificate' = certificate \cup {id}
      /\ api' = [api EXCEPT ![r] = Free]
      /\ userRow' = userRow /\ bankRow' = bankRow /\ interfered' = interfered
  BY DEF SaveCertificate, ApiAt, Reads, Ends
<1>2. /\ id \in Stored /\ id \in bankRow
      /\ userRow[id].hasOnboarded \/ id \in interfered
  BY <1>1 DEF UsersTypeOK, UsersInv, OnboardingInv, Onboarded
<1>3. ASSUME NEW u \in UserIds \ interfered PROVE WholeFor(u)'
  <2>1. Stored' = Stored
    BY <1>1 DEF Stored
  <2>2. CASE u = id
    <3>1. (u \in FindUsersWithBankDetails /\ u \in FindOnboardedUsers(Nobody))'
      BY <1>1, <1>2, <2>1, <2>2 DEF FindUsersWithBankDetails, FindOnboardedUsers, HasRole
    <3> QED
      BY <1>1, <2>2, <3>1 DEF WholeFor
  <2>3. CASE u # id
    <3>1. WholeFor(u)
      BY DEF OnboardingWhole, WholeFor
    <3>2. InOnboarding(u) => InOnboarding(u)'
      BY <1>1, <2>3, StaysIn
    <3> QED
      BY <1>1, <2>1, <2>3, <3>1, <3>2, LeftAlone
  <2> QED
    BY <2>2, <2>3
<1> QED
  BY <1>1, <1>3 DEF OnboardingWhole, WholeFor

LEMMA RequestFailsWhole ==
    ASSUME UsersTypeOK, UsersInv, OnboardingWhole, NEW r \in ApiRequests, RequestFails(r)
    PROVE  OnboardingWhole'
<1>1. /\ api' = [api EXCEPT ![r] = Free]
      /\ userRow' = userRow /\ bankRow' = bankRow /\ certificate' = certificate
      /\ interfered' = IF api[r].step \in {"user", "document"}
                       THEN interfered \cup {api[r].user.id} ELSE interfered
  BY DEF RequestFails, Ends
<1>2. ASSUME NEW u \in UserIds, u \notin interfered' PROVE WholeFor(u)'
  <2>1. /\ u \notin interfered
        /\ ~(api[r].step \in {"user", "document"} /\ api[r].user.id = u)
    BY <1>1, <1>2
  <2>2. WholeFor(u)
    BY <2>1 DEF OnboardingWhole, WholeFor
  <2>3. InOnboarding(u) => InOnboarding(u)'
    BY <1>1, <2>1, StaysIn
  <2> QED
    BY <1>1, <2>2, <2>3, LeftAlone DEF Stored
<1> QED
  BY <1>2 DEF OnboardingWhole, WholeFor

\* Every other request moves outside the steps that count as onboarding.
LEMMA OtherRequestsWhole ==
    ASSUME UsersTypeOK, OnboardingWhole, NEW r \in ApiRequests, UNCHANGED Rows,
           api[r].step \notin {"user", "document"},
           Ends(r) \/ \E step : GoTo(r, step) \/ \E slot : api' = [api EXCEPT ![r] = slot]
    PROVE  OnboardingWhole'
<1>1. \E slot : api' = [api EXCEPT ![r] = slot]
  BY DEF Ends, GoTo, UsersTypeOK
<1> QED
  BY <1>1, MovesOutside

LEMMA OnboardingStep ==
    ASSUME UsersTypeOK, UsersInv, OnboardingWhole, [UsersNext]_usersVars
    PROVE  OnboardingWhole'
<1>1. CASE UNCHANGED usersVars
  BY <1>1 DEF usersVars, OnboardingWhole, InOnboarding, FindUsersWithBankDetails,
              FindOnboardedUsers, HasRole, Stored
<1>2. ASSUME NEW r \in ApiRequests, ApiAt(r, "idle"), UNCHANGED Rows,
             \E slot : api' = [api EXCEPT ![r] = slot]
      PROVE  OnboardingWhole'
  BY <1>2, OtherRequestsWhole DEF ApiAt
<1>3. CASE UsersNext
  <2> PICK r \in ApiRequests : UsersNext!(r)
    BY <1>3 DEF UsersNext
  <2>1. ASSUME NEW email \in Emails, NEW role \in {"customer", "fleetOwner"},
               SignIn(r, email, role)
        PROVE  OnboardingWhole'
    BY <1>2, <2>1 DEF SignIn
  <2>2. ASSUME NEW email \in Emails, NEW phone \in Phones, BookAsGuest(r, email, phone)
        PROVE  OnboardingWhole'
    BY <1>2, <2>2 DEF BookAsGuest
  <2>3. ASSUME NEW owner \in UserIds, NEW phone \in Phones, AddChauffeur(r, owner, phone)
        PROVE  OnboardingWhole'
    BY <1>2, <2>3 DEF AddChauffeur
  <2>4. ASSUME NEW caller \in UserIds, NEW admin \in UserIds, NEW email \in Emails,
               NEW phone \in Phones, CreateStaffAccount(r, caller, admin, email, phone)
        PROVE  OnboardingWhole'
    BY <1>2, <2>4 DEF CreateStaffAccount
  <2>5. CASE ValidateUniqueEmail(r)
    BY <2>5, OtherRequestsWhole DEF ValidateUniqueEmail, ApiAt
  <2>6. CASE ValidateUniquePhoneNumber(r)
    BY <2>6, OtherRequestsWhole DEF ValidateUniquePhoneNumber, ApiAt
  <2>7. ASSUME NEW id \in UserIds, NEW approver \in UserIds,
               NEW decision \in {"approve", "reject"}, Decide(r, id, approver, decision)
        PROVE  OnboardingWhole'
    BY <1>2, <2>7 DEF Decide
  <2>8. ASSUME NEW id \in UserIds, UpdateUserProfile(r, id)
        PROVE  OnboardingWhole'
    BY <1>2, <2>8 DEF UpdateUserProfile
  <2>9. ASSUME NEW id \in UserIds, ProcessOnboarding(r, id)
        PROVE  OnboardingWhole'
    BY <1>2, <2>9 DEF ProcessOnboarding
  <2>10. CASE BankAccountAnswered(r)
    BY <2>10, OtherRequestsWhole DEF BankAccountAnswered, ApiAt
  <2>11. CASE CertificateUploaded(r)
    BY <2>11, OtherRequestsWhole DEF CertificateUploaded, ApiAt
  <2> QED
    BY <2>1, <2>2, <2>3, <2>4, <2>5, <2>6, <2>7, <2>8, <2>9, <2>10, <2>11, CreateRowWhole,
       SaveUserWhole, SaveBankDetailsWhole, SaveOnboardedUserWhole, SaveCertificateWhole,
       RequestFailsWhole
<1> QED
  BY <1>1, <1>3

\* Bank details, flag and certificate come apart only for users whose onboarding was cut
\* short or overwritten, for any number of requests.
THEOREM OnboardingStaysWhole == UsersSpec => []OnboardingWhole
<1>1. UsersInit => OnboardingWhole
  <2>1. ASSUME UsersInit PROVE FindOnboardedUsers(Nobody) = {}
    BY <2>1 DEF UsersInit, FindOnboardedUsers, HasRole, Stored, MapUserToPrisma, Entity
  <2> QED
    BY <2>1 DEF UsersInit, OnboardingWhole
<1>2. UsersTypeOK /\ UsersInv /\ OnboardingWhole /\ [UsersNext]_usersVars => OnboardingWhole'
  BY OnboardingStep
<1> QED
  BY <1>1, <1>2, UsersInvariant, PTL DEF UsersSpec

-----------------------------------------------------------------------------
(* Decisions.                                                               *)

\* Only a request that saves a user writes the row of a stored one.
LEMMA WrittenBy ==
    ASSUME UsersTypeOK, UsersInv, [UsersNext]_usersVars, NEW u \in Stored,
           userRow'[u] # userRow[u]
    PROVE  \E r \in ApiRequests :
              /\ api[r].step \in {"save", "user"}
              /\ api[r].user.id = u
              /\ userRow'[u] = MapUserToPrisma(api[r].user)
<1>1. UsersNext /\ userRow' # userRow
  BY DEF usersVars
<1> PICK r \in ApiRequests : UsersNext!(r)
  BY <1>1 DEF UsersNext
<1>2. (\E id \in UserIds : CreateRow(r, id)) \/ SaveUser(r) \/ SaveOnboardedUser(r)
  BY <1>1 DEF SignIn, BookAsGuest, AddChauffeur, CreateStaffAccount, ValidateUniqueEmail,
              ValidateUniquePhoneNumber, Decide, UpdateUserProfile, ProcessOnboarding,
              BankAccountAnswered, CertificateUploaded, SaveBankDetails, SaveCertificate,
              RequestFails, Rows
<1>3. ASSUME NEW id \in UserIds, CreateRow(r, id) PROVE FALSE
  BY <1>3 DEF CreateRow, UsersTypeOK, Stored
<1>4. api[r].step \in {"save", "user"} /\ Reads(r) /\ StoreUser(api[r].user)
  BY <1>2, <1>3 DEF SaveUser, SaveOnboardedUser, ApiAt, Reads
<1>5. api[r].user.id = u
  BY <1>4, Stores
<1> QED
  BY <1>4, <1>5, Stores

\* What is written of a decided user and read back is decided the same way.
LEMMA DecisionReadBack ==
    ASSUME NEW user \in UserProps, user.status \in {"APPROVED", "REJECTED"}, NEW id,
           user.role \in {"fleetOwner", "chauffeur"} \/ user.status = "APPROVED"
    PROVE  MapPrismaToUser(id, MapUserToPrisma(user)).status = user.status
<1> DEFINE row == MapUserToPrisma(user)
<1>1. row.role = user.role
  BY DEF MapUserToPrisma
<1>2. CASE user.role = "fleetOwner"
  <2>1. row.fleetOwnerStatus = FleetOwnerColumn[user.status]
    BY <1>2 DEF MapUserToPrisma
  <2>2. FleetOwnerStatusOf(row.fleetOwnerStatus) = user.status
    BY <2>1 DEF FleetOwnerColumn, FleetOwnerStatusOf
  <2> QED
    BY <1>1, <1>2, <2>2 DEF MapPrismaToUser
<1>3. CASE user.role = "chauffeur"
  <2>1. row.chauffeurApprovalStatus = ChauffeurColumn[user.status]
    BY <1>3 DEF MapUserToPrisma
  <2>2. ChauffeurStatusOf(row.chauffeurApprovalStatus) = user.status
    BY <2>1 DEF ChauffeurColumn, ChauffeurStatusOf
  <2> QED
    BY <1>1, <1>3, <2>2 DEF MapPrismaToUser
<1>4. CASE user.role \notin {"fleetOwner", "chauffeur"}
  BY <1>1, <1>4 DEF MapPrismaToUser
<1> QED
  BY <1>2, <1>3, <1>4

\* A decision is reversed only by a request that read the user before it was taken.
THEOREM DecisionsStandAlways == UsersSpec => DecisionsStand
<1>1. ASSUME UsersTypeOK, UsersInv, [UsersNext]_usersVars, NEW u \in Stored,
             FindById(u).status \in {"APPROVED", "REJECTED"},
             userRow'[u] # userRow[u],
             \A r \in ApiRequests : ~(/\ api[r].step \in {"save", "user"}
                                      /\ api[r].user.id = u
                                      /\ api[r].seen # FindById(u).status)
      PROVE  MapPrismaToUser(u, userRow'[u]).status = FindById(u).status
  <2> DEFINE before == FindById(u).status
  <2> PICK r \in ApiRequests :
              /\ api[r].step \in {"save", "user"}
              /\ api[r].user.id = u
              /\ userRow'[u] = MapUserToPrisma(api[r].user)
    BY <1>1, WrittenBy
  <2>1. api[r].seen = before
    BY <1>1
  <2>2. Reads(r) /\ api[r].user \in UserProps
    BY <1>1 DEF Reads, UsersTypeOK, ApiAt
  <2>3. api[r].user.status = before
    BY <1>1, <2>1, <2>2 DEF UsersInv, VerdictsInv, CanBeRejected
  <2>4. api[r].user.role = userRow[u].role
    BY <1>1, <2>2 DEF UsersInv, IdentityInv, SameUser
  <2>5. userRow[u].role \in {"fleetOwner", "chauffeur"} \/ before = "APPROVED"
    BY <1>1 DEF FindById, MapPrismaToUser
  <2> QED
    BY <1>1, <2>2, <2>3, <2>4, <2>5, DecisionReadBack
<1>2. UsersTypeOK /\ UsersInv /\ [UsersNext]_usersVars =>
        \A u \in Stored :
          LET before == FindById(u).status IN
          before \in {"APPROVED", "REJECTED"} =>
             \/ userRow[u]' = userRow[u]
             \/ FindById(u)'.status = before
             \/ \E r \in ApiRequests : /\ api[r].step \in {"save", "user"}
                                       /\ api[r].user.id = u
                                       /\ api[r].seen # before
  BY <1>1 DEF FindById
<1> QED
  BY <1>2, UsersInvariant, PTL DEF UsersSpec, DecisionsStand
=============================================================================

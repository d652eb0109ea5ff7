--------------------------- MODULE OneTimePassword ---------------------------
(***************************************************************************)
(* One-time passwords of one address: the OTP service of src/src/iam and the  *)
(* key it keeps in Redis.                                                   *)
(*                                                                         *)
(* A call of the service computes, sends Redis a command and awaits it; the   *)
(* command takes effect later and other calls come between.  Time runs in     *)
(* half seconds, because Redis keeps whole ones.                            *)
(***************************************************************************)
EXTENDS Naturals

CONSTANTS
    OtpCalls,       \* calls the server handles at one time
    OtpSeconds,     \* lifetime of a code
    LastTick,       \* bound on the clock, in half seconds
    LastCode,       \* bound on the codes generated
    NoOtp           \* no key

ASSUME OtpAssumption ==
    /\ OtpSeconds \in Nat \ {0}
    /\ LastTick \in Nat /\ LastCode \in Nat

VARIABLES
    clock,          \* half seconds
    otpKey,         \* the code stored for the address and when Redis forgets it
    otpCall,        \* [OtpCalls -> progress]
    generated,      \* [codes -> when the code was generated]
    tally,          \* history: [codes -> guesses compared with it, and acceptances]
    raced           \* history: codes whose verifications overlapped, were overtaken or
                    \*   cut short; their tally is given up

otpVars == <<clock, otpKey, otpCall, generated, tally, raced>>

-----------------------------------------------------------------------------
MaxAttempts == 3
Codes == 1 .. LastCode
WrongCode == 0

Least(a, b) == IF a < b THEN a ELSE b
Greatest(a, b) == IF a > b THEN a ELSE b

OtpData == [code : Codes, expiresAt : Nat, attempts : 0 .. MaxAttempts]

Setex(value, seconds) == [value |-> value, until |-> clock + 2 * seconds]
OtpStored == otpKey # NoOtp
StoredOtp == otpKey.value

HasValidOtp == OtpStored /\ clock <= StoredOtp.expiresAt /\ StoredOtp.attempts < MaxAttempts
GetRemainingAttempts ==
    IF OtpStored THEN Greatest(0, MaxAttempts - StoredOtp.attempts) ELSE MaxAttempts

-----------------------------------------------------------------------------
(* Calls: what is awaited, and what the call has seen.                       *)

Quiet == [step |-> "idle"]
Resume(c, state) == otpCall' = [otpCall EXCEPT ![c] = state]
Waits(c, step) == otpCall[c].step = step

Untold == [guesses |-> 0, accepted |-> 0]

GiveUp(codes) ==
    /\ raced' = raced \cup codes
    /\ tally' = [k \in Codes |-> IF k \in codes THEN Untold ELSE tally[k]]

Count(k, guesses, acceptances) ==
    /\ raced' = raced
    /\ tally' = IF k \in raced THEN tally
                ELSE [tally EXCEPT ![k] = [guesses |-> @.guesses + guesses,
                                           accepted |-> @.accepted + acceptances]]

\* A new code overwrites the key, whatever attempts were counted there.
GenerateOtp(c) ==
    /\ Waits(c, "idle")
    /\ \E code \in Codes :
          /\ DOMAIN generated = 1 .. code - 1
          /\ generated' = [k \in 1 .. code |-> IF k = code THEN clock ELSE generated[k]]
          /\ Resume(c, [step |-> "store", data |-> [code |-> code, attempts |-> 0,
                                                    expiresAt |-> clock + 2 * OtpSeconds]])
    /\ UNCHANGED <<clock, otpKey, tally, raced>>

StoreOtp(c) ==
    /\ Waits(c, "store")
    /\ otpKey' = Setex(otpCall[c].data, OtpSeconds)
    /\ Resume(c, Quiet)
    /\ UNCHANGED <<clock, generated, tally, raced>>

\* Mutant: a failed attempt prolongs the code.
CountedAndProlonged(data) ==
    [data EXCEPT !.attempts = @ + 1, !.expiresAt = clock + 2 * OtpSeconds]
Counted(data) == [data EXCEPT !.attempts = @ + 1]

\* Whole seconds to live, at least one.
RemainingTtl(data) == Greatest(1, (data.expiresAt - clock) \div 2)

\* Mutant: one attempt too many.
LateVerdict(data, guess) ==
    IF clock > data.expiresAt \/ data.attempts > MaxAttempts
    THEN [step |-> "delete", seen |-> data]
    ELSE IF guess # data.code
         THEN [step |-> "writeBack", seen |-> data, ttl |-> RemainingTtl(data)]
         ELSE [step |-> "consume", seen |-> data, at |-> clock]

\* What a verification does with the code it read: delete it, write it back with one
\* attempt more, or delete it and let the caller in.
Verdict(data, guess) ==
    IF clock > data.expiresAt \/ data.attempts >= MaxAttempts
    THEN [step |-> "delete", seen |-> data]
    ELSE IF guess # data.code
         THEN [step |-> "writeBack", seen |-> data, ttl |-> RemainingTtl(data)]
         ELSE [step |-> "consume", seen |-> data, at |-> clock]

Verifying(c, code) ==
    otpCall[c].step \in {"writeBack", "delete", "consume"} /\ otpCall[c].seen.code = code

VerifyOtp(c, guess) ==
    /\ Waits(c, "idle")
    /\ OtpStored
    /\ Resume(c, Verdict(StoredOtp, guess))
    /\ IF \E d \in OtpCalls : Verifying(d, StoredOtp.code)
       THEN GiveUp({StoredOtp.code})
       ELSE Count(StoredOtp.code, IF Verdict(StoredOtp, guess).step = "delete" THEN 0 ELSE 1, 0)
    /\ UNCHANGED <<clock, otpKey, generated>>

\* Codes that somebody else wrote or deleted since this call read the key.
Overtaken(c) ==
    IF OtpStored /\ StoredOtp = otpCall[c].seen
    THEN {}
    ELSE {otpCall[c].seen.code} \cup IF OtpStored THEN {StoredOtp.code} ELSE {}

WriteBack(c) ==
    /\ Waits(c, "writeBack")
    /\ otpKey' = Setex(Counted(otpCall[c].seen), otpCall[c].ttl)
    /\ GiveUp(Overtaken(c))
    /\ Resume(c, Quiet)
    /\ UNCHANGED <<clock, generated>>

DeleteOtp(c) ==
    /\ Waits(c, "delete")
    /\ otpKey' = NoOtp
    /\ GiveUp(Overtaken(c))
    /\ Resume(c, Quiet)
    /\ UNCHANGED <<clock, generated>>

\* The code is used up before the account is looked at; what follows, in Users and
\* Session, may still refuse the caller.
ConsumeOtp(c) ==
    /\ Waits(c, "consume")
    /\ otpKey' = NoOtp
    /\ IF Overtaken(c) = {} THEN Count(otpCall[c].seen.code, 0, 1) ELSE GiveUp(Overtaken(c))
    /\ Resume(c, Quiet)
    /\ UNCHANGED <<clock, generated>>

\* A logout clears the key of the address.
ClearOtp ==
    /\ OtpStored
    /\ otpKey' = NoOtp
    /\ UNCHANGED <<clock, otpCall, generated, tally, raced>>

\* Redis rejects what the call awaits, or the process dies.
OtpCallFails(c) ==
    /\ ~Waits(c, "idle")
    /\ Resume(c, Quiet)
    /\ GiveUp({k \in Codes : Verifying(c, k)})
    /\ UNCHANGED <<clock, otpKey, generated>>

\* Redis forgets the key when its time has come.
Tick ==
    /\ clock < LastTick
    /\ clock' = clock + 1
    /\ otpKey' = IF OtpStored /\ otpKey.until <= clock' THEN NoOtp ELSE otpKey
    /\ UNCHANGED <<otpCall, generated, tally, raced>>

-----------------------------------------------------------------------------
OtpInit ==
    /\ clock = 0
    /\ otpKey = NoOtp
    /\ otpCall = [c \in OtpCalls |-> Quiet]
    /\ generated = [k \in {} |-> 0]
    /\ tally = [k \in Codes |-> Untold]
    /\ raced = {}

OtpNext ==
    \/ Tick
    \/ ClearOtp
    \/ \E c \in OtpCalls :
          \/ GenerateOtp(c)
          \/ StoreOtp(c)
          \/ \E guess \in DOMAIN generated \cup {WrongCode} : VerifyOtp(c, guess)
          \/ WriteBack(c)
          \/ DeleteOtp(c)
          \/ ConsumeOtp(c)
          \/ OtpCallFails(c)

OtpSpec == OtpInit /\ [][OtpNext]_otpVars

-----------------------------------------------------------------------------
\* What a call awaits; only a code with attempts left is written back or consumed.
OpenOtp == { data \in OtpData : data.attempts < MaxAttempts }
OtpCall ==
    {Quiet}
    \cup [step : {"store"}, data : OtpData]
    \cup [step : {"writeBack"}, seen : OpenOtp, ttl : Nat]
    \cup [step : {"delete"}, seen : OtpData]
    \cup [step : {"consume"}, seen : OpenOtp, at : Nat]

OtpTypeOK ==
    /\ clock \in 0 .. LastTick
    /\ OtpStored => StoredOtp \in OtpData /\ otpKey.until \in Nat
    /\ otpCall \in [OtpCalls -> OtpCall]
    /\ DOMAIN generated \subseteq Codes
    /\ generated \in [DOMAIN generated -> Nat]
    /\ tally \in [Codes -> [guesses : Nat, accepted : Nat]]
    /\ raced \subseteq Codes

\* A code whose verifications came one after the other lets at most one caller in and
\* is compared with at most three guesses, whatever is generated, expires or is cleared
\* in between; a code that is still good has its remaining attempts left.  The counter
\* is read and written back in separate commands, and nothing of this holds of
\* verifications that overlap.
OtpHoldsUnlessRaced ==
    \A k \in Codes \ raced :
        /\ tally[k].accepted <= 1
        /\ tally[k].guesses <= MaxAttempts
        /\ HasValidOtp /\ StoredOtp.code = k
                 => tally[k].accepted = 0 /\ tally[k].guesses + GetRemainingAttempts
                                               \in {MaxAttempts, MaxAttempts + 1}

\* However often a code is written back, and by however late a call, nobody is let in
\* on a verdict reached after the lifetime the code was generated with.
CodeDiesOnTime ==
    \A c \in OtpCalls :
        Waits(c, "consume") =>
            otpCall[c].at <= generated[otpCall[c].seen.code] + 2 * OtpSeconds

-----------------------------------------------------------------------------
(* The inductive invariants.                                                *)

\* Whatever holds a code holds the lifetime it was generated with.
Dated(data) ==
    /\ data.code \in DOMAIN generated
    /\ data.expiresAt = generated[data.code] + 2 * OtpSeconds

DatesInv ==
    /\ OtpStored => Dated(StoredOtp)
    /\ \A c \in OtpCalls :
          /\ Waits(c, "store") => Dated(otpCall[c].data)
          /\ otpCall[c].step \in {"writeBack", "delete", "consume"} => Dated(otpCall[c].seen)
          /\ Waits(c, "consume") => otpCall[c].at <= otpCall[c].seen.expiresAt

\* A code is about to be stored, which happens once and before anything else does with
\* it; or stored, or read by one verification, or both, and then what was read is what
\* is stored and the guesses made are those counted, and the one being judged; or gone.
Storing(c, k) == Waits(c, "store") /\ otpCall[c].data.code = k
KeyOf(k) == OtpStored /\ StoredOtp.code = k
Guessed(o) == IF o.step = "delete" THEN o.seen.attempts ELSE o.seen.attempts + 1

CodeInv(k) ==
    /\ tally[k].accepted <= 1 /\ tally[k].guesses <= MaxAttempts
    /\ k \notin DOMAIN generated => tally[k] = Untold
    /\ \A c \in OtpCalls : Storing(c, k) =>
          /\ tally[k] = Untold /\ otpCall[c].data.attempts = 0
          /\ ~ KeyOf(k)
          /\ \A d \in OtpCalls : ~ Verifying(d, k) /\ (Storing(d, k) => d = c)
    /\ \A c \in OtpCalls : Verifying(c, k) =>
          /\ tally[k].accepted = 0 /\ tally[k].guesses = Guessed(otpCall[c])
          /\ KeyOf(k) => StoredOtp = otpCall[c].seen
          /\ \A d \in OtpCalls : Verifying(d, k) => d = c
    /\ KeyOf(k) =>
          /\ tally[k].accepted = 0
          /\ \/ tally[k].guesses = StoredOtp.attempts
             \/ \E c \in OtpCalls : Verifying(c, k)

OtpInv == \A k \in Codes \ raced : CodeInv(k)
=============================================================================

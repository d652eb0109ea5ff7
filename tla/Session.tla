------------------------------- MODULE Session -------------------------------
(***************************************************************************)
(* Access tokens of one user of src/src/iam: issuing, refreshing, checking and *)
(* revoking them.                                                          *)
(*                                                                         *)
(* Tokens are signed for whole seconds and Redis keeps whole seconds; the     *)
(* clock of the server has fractions of them.  Time runs in half seconds.     *)
(* A call computes, sends Redis a command and awaits it.                    *)
(***************************************************************************)
EXTENDS Naturals

CONSTANTS
    SessionCalls,   \* calls the server handles at one time
    TokenSeconds,   \* lifetime of an access token
    RefreshSeconds, \* lifetime of a refresh token
    LastHalf        \* bound on the clock, in half seconds

ASSUME SessionAssumption ==
    /\ TokenSeconds \in Nat \ {0}
    /\ RefreshSeconds \in Nat \ {0}
    /\ LastHalf \in Nat

VARIABLES
    half,           \* the time, in half seconds
    issued,         \* access tokens signed
    refreshes,      \* refresh tokens signed
    blacklist,      \* [revoked tokens Redis remembers -> when it forgets them]
    sessionCall,    \* [SessionCalls -> progress]
    loggedOut       \* history: tokens whose logout has been answered

sessionVars == <<half, issued, refreshes, blacklist, sessionCall, loggedOut>>

-----------------------------------------------------------------------------
(* A token is the second it was signed in: two signed for one user in one     *)
(* second are the same text.                                               *)

Second == half \div 2
Tokens == 0 .. LastHalf \div 2

Expires(token, lifetime) == token + lifetime
Verifies(token, lifetime) == Second < Expires(token, lifetime)

Remembered(token) == token \in DOMAIN blacklist

NoCall == [step |-> "none"]
CallAt(c, step) == sessionCall[c].step = step
Continue(c, state) == sessionCall' = [sessionCall EXCEPT ![c] = state]

-----------------------------------------------------------------------------
\* A verified one-time password, or a session refreshed for the user.
GenerateTokens(withRefresh) ==
    /\ issued' = issued \cup {Second}
    /\ refreshes' = IF withRefresh THEN refreshes \cup {Second} ELSE refreshes
    /\ UNCHANGED <<half, blacklist, sessionCall, loggedOut>>

\* A logout leaves refresh tokens good.
RefreshAccessToken(refresh) ==
    /\ Verifies(refresh, RefreshSeconds)
    /\ issued' = issued \cup {Second}
    /\ UNCHANGED <<half, refreshes, blacklist, sessionCall, loggedOut>>

\* Mutant: the number of seconds is cut once more.
BlacklistTtlShort(token) == Expires(token, TokenSeconds) - Second - 1
\* Whole seconds until the token expires, rounded down.
BlacklistTtl(token) == (2 * Expires(token, TokenSeconds) - half) \div 2

\* The claims are decoded without being verified: an expired token logs out too, and
\* has nothing stored.
Logout(c, token) ==
    /\ CallAt(c, "none")
    /\ IF half < 2 * Expires(token, TokenSeconds) /\ BlacklistTtl(token) > 0
       THEN Continue(c, [step |-> "blacklist", token |-> token, ttl |-> BlacklistTtl(token)])
       ELSE Continue(c, [step |-> "clear", token |-> token])
    /\ UNCHANGED <<half, issued, refreshes, blacklist, loggedOut>>

BlacklistToken(c) ==
    /\ CallAt(c, "blacklist")
    /\ LET token == sessionCall[c].token IN
       /\ blacklist' = [t \in DOMAIN blacklist \cup {token} |->
                           IF t = token THEN half + 2 * sessionCall[c].ttl ELSE blacklist[t]]
       /\ Continue(c, [step |-> "clear", token |-> token])
    /\ UNCHANGED <<half, issued, refreshes, loggedOut>>

\* Keys of the user are looked up by pattern and deleted; tokens are under no pattern.
ClearUserSessions(c) ==
    /\ CallAt(c, "clear")
    /\ loggedOut' = loggedOut \cup {sessionCall[c].token}
    /\ Continue(c, NoCall)
    /\ UNCHANGED <<half, issued, refreshes, blacklist>>

\* The guard and validateToken ask Redis first; the optional guard of bookings does not
\* ask at all.
IsTokenBlacklisted(c, token) ==
    /\ CallAt(c, "none")
    /\ ~Remembered(token)
    /\ Continue(c, [step |-> "check", token |-> token, out |-> token \in loggedOut])
    /\ UNCHANGED <<half, issued, refreshes, blacklist, loggedOut>>

ValidateAccessToken(c) ==
    /\ CallAt(c, "check")
    /\ Continue(c, IF Verifies(sessionCall[c].token, TokenSeconds)
                   THEN [step |-> "admitted", token |-> sessionCall[c].token,
                         out |-> sessionCall[c].out, at |-> half]
                   ELSE NoCall)
    /\ UNCHANGED <<half, issued, refreshes, blacklist, loggedOut>>

\* The row of the user is read; the request goes its way.
Admitted(c) ==
    /\ CallAt(c, "admitted")
    /\ Continue(c, NoCall)
    /\ UNCHANGED <<half, issued, refreshes, blacklist, loggedOut>>

\* What the call awaits rejects, or the process dies.
SessionCallFails(c) ==
    /\ CallAt(c, "blacklist") \/ CallAt(c, "clear")
    /\ Continue(c, NoCall)
    /\ UNCHANGED <<half, issued, refreshes, blacklist, loggedOut>>

\* Redis forgets what has run out.
HalfSecond ==
    /\ half < LastHalf
    /\ half' = half + 1
    /\ blacklist' = [t \in {t \in DOMAIN blacklist : blacklist[t] > half'} |-> blacklist[t]]
    /\ UNCHANGED <<issued, refreshes, sessionCall, loggedOut>>

-----------------------------------------------------------------------------
SessionInit ==
    /\ half = 0
    /\ issued = {} /\ refreshes = {}
    /\ blacklist = [t \in {} |-> 0]
    /\ sessionCall = [c \in SessionCalls |-> NoCall]
    /\ loggedOut = {}

SessionNext ==
    \/ HalfSecond
    \/ \E withRefresh \in BOOLEAN : GenerateTokens(withRefresh)
    \/ \E refresh \in refreshes : RefreshAccessToken(refresh)
    \/ \E c \in SessionCalls :
          \/ \E token \in issued : Logout(c, token)
          \/ BlacklistToken(c)
          \/ ClearUserSessions(c)
          \/ \E token \in issued : IsTokenBlacklisted(c, token)
          \/ ValidateAccessToken(c)
          \/ Admitted(c)
          \/ SessionCallFails(c)

SessionSpec == SessionInit /\ [][SessionNext]_sessionVars

-----------------------------------------------------------------------------
\* What a call awaits.
SessionCall ==
    {NoCall}
    \cup [step : {"blacklist"}, token : Tokens, ttl : Nat \ {0}]
    \cup [step : {"clear"}, token : Tokens]
    \cup [step : {"check"}, token : Tokens, out : BOOLEAN]
    \cup [step : {"admitted"}, token : Tokens, out : BOOLEAN, at : Nat]

SessionTypeOK ==
    /\ half \in 0 .. LastHalf
    /\ issued \subseteq Tokens /\ refreshes \subseteq Tokens
    /\ loggedOut \subseteq issued /\ DOMAIN blacklist \subseteq issued
    /\ blacklist \in [DOMAIN blacklist -> Nat]
    /\ \A t \in DOMAIN blacklist : blacklist[t] > half
    /\ sessionCall \in [SessionCalls -> SessionCall]
    /\ \A c \in SessionCalls : ~CallAt(c, "none") => sessionCall[c].token \in issued

\* A request that arrives with a token whose logout has been answered is let in by the
\* guard only within the last second of that token: the blacklist rounds the time it
\* keeps a token down to whole seconds, and may keep it a little longer because the
\* command arrives late, but never forgets it sooner.
RevokedIsRefused ==
    \A c \in SessionCalls :
        CallAt(c, "admitted") /\ sessionCall[c].out =>
            2 * Expires(sessionCall[c].token, TokenSeconds) - sessionCall[c].at < 2

-----------------------------------------------------------------------------
(* The inductive invariant behind RevokedIsRefused.  From the moment a logout   *)
(* has sent its token to the blacklist, the token is remembered or within its   *)
(* last second, and a call that finds a logged-out token missing from the       *)
(* blacklist finds it within that second.                                    *)

Outlived(token, t) == 2 * Expires(token, TokenSeconds) - t < 2

CallInv(o) ==
    /\ o.step = "blacklist" => half + 2 * o.ttl >= 2 * Expires(o.token, TokenSeconds) - 1
    /\ o.step = "clear" => Remembered(o.token) \/ Outlived(o.token, half)
    /\ o.step = "check" /\ o.out => Outlived(o.token, half)
    /\ o.step = "admitted" /\ o.out => Outlived(o.token, o.at)

SessionInv ==
    /\ \A t \in DOMAIN blacklist : blacklist[t] >= 2 * Expires(t, TokenSeconds) - 1
    /\ \A t \in loggedOut : Remembered(t) \/ Outlived(t, half)
    /\ \A c \in SessionCalls : CallInv(sessionCall[c])
=============================================================================

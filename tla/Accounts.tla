------------------------------ MODULE Accounts ------------------------------
(***************************************************************************)
(* auth.service.ts: the session and the password of one user, and the code *)
(* that resets it. Accounts share nothing but the uniqueness of the email, *)
(* so one is enough. Each member of Call answers one request at a time;    *)
(* its steps are the statements the handler awaits. A request that is      *)
(* rejected before it writes anything changes nothing and is no step.      *)
(* The limits of logins and mails are in RateLimit.                        *)
(***************************************************************************)
EXTENDS Integers, FiniteSets

CONSTANTS
  Call,          \* the requests that may be handled at once
  Does,          \* Call -> the operations it may be a request for
  Password,      \* the passwords anyone enters
  Code,          \* the codes that are drawn
  MaxAttempts,   \* 5 in resetPassword
  AccessLife,    \* expiresIn of the access token
  RefreshLife,   \* expiresIn of the refresh token
  CodeLife,      \* 15 minutes in forgotPassword
  Pause,         \* 60 seconds in forgotPassword
  MaxNow         \* bound: the clock stops here

Operation ==
  {"signup", "login", "refresh", "logout", "change", "delete", "forgot", "reset"}

NoToken == -1
NoCode == "NONE"

ASSUME AccountAssumption ==
  /\ IsFiniteSet(Call) /\ Does \in [Call -> SUBSET Operation]
  /\ Password # {} /\ NoCode \notin Code
  /\ MaxAttempts \in Nat \ {0}
  /\ AccessLife \in Nat /\ RefreshLife \in Nat /\ CodeLife \in Nat
  /\ Pause \in Nat /\ MaxNow \in Nat

VARIABLES
  user,          \* the row of the user: "none", "there", "gone"
  password,      \* its password
  accepted,      \* the refresh token whose hash is hashedRt, or NoToken
  row,           \* its PasswordReset
  now,           \* the clock, in units of the tokens' iat
  issued,        \* the token pairs that clients have, named by their iat
  pc,            \* Call -> the statement it is at
  token,         \* Call -> the tokens it signed
  code,          \* Call -> the code it drew, or compared a wrong one with
  newPassword,   \* Call -> the password it sets
  drawn,         \* the codes drawn so far
  \* What has happened, for the properties:
  wrong,         \* Code -> the wrong guesses that were counted against it
  begun,         \* Call -> whether the login its tokens descend from began
                 \* "before" or "after" the last revocation was answered
  session,       \* the same of the tokens accepted now
  overlap        \* whether a call was getting tokens at that moment

history == <<begun, session, overlap>>
vars == <<user, password, accepted, row, now, issued, pc, token, code,
          newPassword, drawn, wrong, begun, session, overlap>>

NoRow == [code |-> NoCode, expires |-> 0, attempts |-> 0, created |-> 0]

Init ==
  /\ user = "none" /\ password \in Password /\ accepted = NoToken
  /\ row = NoRow /\ now = 0 /\ issued = {}
  /\ pc = [c \in Call |-> "idle"] /\ token = [c \in Call |-> NoToken]
  /\ code = [c \in Call |-> NoCode] /\ newPassword = [c \in Call |-> password]
  /\ drawn = {} /\ wrong = [k \in Code |-> 0]
  /\ begun = [c \in Call |-> "after"] /\ session = "after" /\ overlap = FALSE

-----------------------------------------------------------------------------
Free(c, op) == pc[c] = "idle" /\ op \in Does[c]

Goto(c, label) == pc' = [pc EXCEPT ![c] = label]

Getting(c) == pc[c] \in {"sign", "store"}

\* The call gets tokens next, which descend from a login of that kind.
GetTokens(c, since) ==
  /\ Goto(c, "sign") /\ begun' = [begun EXCEPT ![c] = since]
  /\ UNCHANGED <<session, overlap>>

\* A revocation is answered.
Revoked(c) ==
  /\ Goto(c, "idle")
  /\ begun' = [d \in Call |-> "before"] /\ session' = "before"
  /\ overlap' = \E d \in Call \ {c} : Getting(d)

\* JwtAuthGuard: the access token is not looked up anywhere.
Authorized == \E t \in issued : now < t + AccessLife

-----------------------------------------------------------------------------
(* Sessions.                                                                *)

Signup(c, p) ==
  /\ Free(c, "signup") /\ user = "none"
  /\ user' = "there" /\ password' = p
  /\ GetTokens(c, "after")
  /\ UNCHANGED <<accepted, row, now, issued, token, code, newPassword, drawn, wrong>>

Login(c, p) ==
  /\ Free(c, "login") /\ user = "there" /\ p = password
  /\ GetTokens(c, "after")
  /\ UNCHANGED <<user, password, accepted, row, now, issued, token, code,
                 newPassword, drawn, wrong>>

RefreshUnchecked(c, t) ==
  /\ Free(c, "refresh") /\ now < t + RefreshLife
  /\ user = "there"
  /\ GetTokens(c, session)
  /\ UNCHANGED <<user, password, accepted, row, now, issued, token, code,
                 newPassword, drawn, wrong>>

\* refreshTokens: a token that is not the accepted one ends the session.
Refresh(c, t) ==
  /\ Free(c, "refresh") /\ now < t + RefreshLife
  /\ user = "there" /\ accepted # NoToken
  /\ IF t = accepted THEN GetTokens(c, session)
     ELSE Goto(c, "kill") /\ UNCHANGED history
  /\ UNCHANGED <<user, password, accepted, row, now, issued, token, code,
                 newPassword, drawn, wrong>>

\* generateTokens: two pairs of one user signed in one second are equal.
Sign(c) ==
  /\ pc[c] = "sign" /\ Goto(c, "store")
  /\ token' = [token EXCEPT ![c] = now]
  /\ UNCHANGED <<user, password, accepted, row, now, issued, code,
                 newPassword, drawn, wrong, history>>

\* updateRtHash, and the answer, which may be lost.
Store(c) ==
  /\ pc[c] = "store" /\ Goto(c, "idle")
  /\ \/ /\ user = "there"
        /\ accepted' = token[c] /\ session' = begun[c]
        /\ issued' \in {issued, issued \union {token[c]}}
     \/ user # "there" /\ UNCHANGED <<accepted, session, issued>>
  /\ UNCHANGED <<user, password, row, now, token, code, newPassword, drawn,
                 wrong, begun, overlap>>

\* "hash mismatch, killing family"
Kill(c) ==
  /\ pc[c] = "kill"
  /\ accepted' = NoToken /\ Revoked(c)
  /\ UNCHANGED <<user, password, row, now, issued, token, code, newPassword,
                 drawn, wrong>>

Logout(c) ==
  /\ Free(c, "logout") /\ Authorized /\ user = "there"
  /\ accepted' = NoToken /\ Revoked(c)
  /\ UNCHANGED <<user, password, row, now, issued, token, code, newPassword,
                 drawn, wrong>>

ChangePassword(c, old, new) ==
  /\ Free(c, "change") /\ Authorized /\ user = "there" /\ old = password
  /\ Goto(c, "setPassword") /\ newPassword' = [newPassword EXCEPT ![c] = new]
  /\ UNCHANGED <<user, password, accepted, row, now, issued, token, code,
                 drawn, wrong, history>>

DeleteAccount(c, p) ==
  /\ Free(c, "delete") /\ Authorized /\ user = "there" /\ p = password
  /\ Goto(c, "delete")
  /\ UNCHANGED <<user, password, accepted, row, now, issued, token, code,
                 newPassword, drawn, wrong, history>>

\* onDelete: Cascade takes the PasswordReset along.
Delete(c) ==
  /\ pc[c] = "delete" /\ Goto(c, "idle")
  /\ user' = "gone" /\ accepted' = NoToken /\ row' = NoRow
  /\ UNCHANGED <<password, now, issued, token, code, newPassword, drawn, wrong,
                 history>>

-----------------------------------------------------------------------------
(* The reset of a password. An update or delete without a row throws, which *)
(* ends the call.                                                           *)

\* forgotPassword, unless a code is younger than a minute. Codes do not repeat.
Forgot(c, k) ==
  /\ Free(c, "forgot") /\ user = "there" /\ k \notin drawn
  /\ ~(row # NoRow /\ row.created > now - Pause)
  /\ Goto(c, "upsert")
  /\ drawn' = drawn \union {k} /\ code' = [code EXCEPT ![c] = k]
  /\ UNCHANGED <<user, password, accepted, row, now, issued, token,
                 newPassword, wrong, history>>

NewRow(c) ==
  [code |-> code[c], expires |-> now + CodeLife, attempts |-> 0, created |-> now]

UpsertBlind(c) ==
  /\ pc[c] = "upsert" /\ Goto(c, "idle")
  /\ row' = NewRow(c)
  /\ UNCHANGED <<user, password, accepted, now, issued, token, code,
                 newPassword, drawn, wrong, history>>

\* The foreign key refuses a row without a user.
Upsert(c) ==
  /\ pc[c] = "upsert" /\ Goto(c, "idle")
  /\ row' = IF user = "there" THEN NewRow(c) ELSE row
  /\ UNCHANGED <<user, password, accepted, now, issued, token, code,
                 newPassword, drawn, wrong, history>>

\* resetPassword, once it has read the row: too many attempts, the right
\* code, or a wrong one.
Attempt(c, guess, new, limit) ==
  /\ Free(c, "reset") /\ user = "there"
  /\ row # NoRow /\ row.expires >= now
  /\ \/ row.attempts >= limit /\ Goto(c, "drop") /\ UNCHANGED <<code, newPassword>>
     \/ /\ row.attempts < limit /\ guess = row.code
        /\ Goto(c, "resetPassword")
        /\ newPassword' = [newPassword EXCEPT ![c] = new] /\ UNCHANGED code
     \/ /\ row.attempts < limit /\ guess # row.code
        /\ Goto(c, "miss") /\ code' = [code EXCEPT ![c] = row.code]
        /\ UNCHANGED newPassword
  /\ UNCHANGED <<user, password, accepted, row, now, issued, token, drawn,
                 wrong, history>>

ResetOffByOne(c, guess, new) == Attempt(c, guess, new, MaxAttempts + 1)

Reset(c, guess, new) == Attempt(c, guess, new, MaxAttempts)

\* Whatever code the row has by now, it is deleted ...
Drop(c) ==
  /\ pc[c] = "drop" /\ Goto(c, "idle")
  /\ row' = NoRow
  /\ UNCHANGED <<user, password, accepted, now, issued, token, code,
                 newPassword, drawn, wrong, history>>

\* ... or gets the attempt.
Miss(c) ==
  /\ pc[c] = "miss" /\ Goto(c, "idle")
  /\ row' = IF row = NoRow THEN row ELSE [row EXCEPT !.attempts = @ + 1]
  /\ wrong' = [wrong EXCEPT ![code[c]] = @ + 1]
  /\ UNCHANGED <<user, password, accepted, now, issued, token, code,
                 newPassword, drawn, history>>

\* hashAndUpdatePassword
SetPassword(c) ==
  /\ \/ user # "there" /\ Goto(c, "idle") /\ UNCHANGED password
     \/ user = "there" /\ pc[c] = "setPassword" /\ Goto(c, "revoke")
        /\ password' = newPassword[c]
     \/ user = "there" /\ pc[c] = "resetPassword" /\ Goto(c, "dropCode")
        /\ password' = newPassword[c]
  /\ pc[c] \in {"setPassword", "resetPassword"}
  /\ UNCHANGED <<user, accepted, row, now, issued, token, code, newPassword,
                 drawn, wrong, history>>

DropCode(c) ==
  /\ pc[c] = "dropCode" /\ Goto(c, IF row = NoRow THEN "idle" ELSE "revoke")
  /\ row' = NoRow
  /\ UNCHANGED <<user, password, accepted, now, issued, token, code,
                 newPassword, drawn, wrong, history>>

\* The end of changePassword and resetPassword.
Revoke(c) ==
  /\ pc[c] = "revoke"
  /\ accepted' = NoToken /\ Revoked(c)
  /\ UNCHANGED <<user, password, row, now, issued, token, code, newPassword,
                 drawn, wrong>>

-----------------------------------------------------------------------------
\* A statement fails, or the API stops: the call ends where it is.
BreaksOff(c) ==
  /\ pc[c] # "idle" /\ Goto(c, "idle")
  /\ UNCHANGED <<user, password, accepted, row, now, issued, token, code,
                 newPassword, drawn, wrong, history>>

Tick ==
  /\ now < MaxNow /\ now' = now + 1
  /\ UNCHANGED <<user, password, accepted, row, issued, pc, token, code,
                 newPassword, drawn, wrong, history>>

Begin(c) ==
  \/ \E p \in Password : Signup(c, p) \/ Login(c, p) \/ DeleteAccount(c, p)
  \/ \E t \in issued : Refresh(c, t)
  \/ \E old, new \in Password : ChangePassword(c, old, new)
  \/ \E k \in Code : Forgot(c, k)
  \/ \E guess \in Code \union {NoCode}, new \in Password : Reset(c, guess, new)
  \/ Logout(c)

Continue(c) ==
  \/ Sign(c) \/ Store(c) \/ Kill(c) \/ Delete(c) \/ Upsert(c) \/ Drop(c)
  \/ Miss(c) \/ SetPassword(c) \/ DropCode(c) \/ Revoke(c)

Next == Tick \/ \E c \in Call : Begin(c) \/ Continue(c) \/ BreaksOff(c)

Spec == Init /\ [][Next]_vars

-----------------------------------------------------------------------------
(* Properties.                                                              *)

Label ==
  {"idle", "sign", "store", "kill", "delete", "upsert", "drop", "miss",
   "setPassword", "resetPassword", "dropCode", "revoke"}

\* Every variable keeps its type, and only a user who is there has a session
\* and a code (updateRtHash, upsert after deleteAccount).
TypeOK ==
  /\ user \in {"none", "there", "gone"} /\ password \in Password
  /\ accepted \in Nat \union {NoToken}
  /\ row \in [code : Code \union {NoCode}, expires : Nat, attempts : Nat, created : Nat]
  /\ row.code = NoCode => row = NoRow
  /\ user # "there" => accepted = NoToken /\ row = NoRow
  /\ now \in Nat /\ issued \subseteq Nat /\ drawn \subseteq Code
  /\ pc \in [Call -> Label] /\ token \in [Call -> Nat \union {NoToken}]
  /\ code \in [Call -> Code \union {NoCode}] /\ newPassword \in [Call -> Password]
  /\ wrong \in [Code -> Nat]
  /\ begun \in [Call -> {"before", "after"}] /\ session \in {"before", "after"}
  /\ overlap \in BOOLEAN

\* resetPassword reads the number of attempts before it compares the code and
\* counts the attempt afterwards, perhaps on the row of another code. Still the
\* wrong guesses at a code exceed MaxAttempts by less than the number of calls that
\* can be at work on it.
Guessers == {c \in Call : "reset" \in Does[c]}

GuessesBounded ==
  \A k \in Code : wrong[k] < MaxAttempts + Cardinality(Guessers)

\* A logout, a change or reset of the password, and a reused token end every
\* session for good: once they are answered, only what a later login begins is
\* accepted. The exception is a call that was getting tokens at that moment:
\* refreshTokens and login write what they decided on before.
RevokedStaysRevoked ==
  accepted # NoToken /\ session = "before" => overlap
=============================================================================

------------------------------ MODULE RateLimit ------------------------------
(***************************************************************************)
(* auth-rate-limit.service.ts: counters in Redis that slow down repeated   *)
(* logins and password reset mails, as auth.service.ts uses them. A call   *)
(* is one POST /auth/login or /auth/forgot-password; every Redis command   *)
(* is a step of its own, and several calls run at once, one for each member *)
(* of Call, which is free for the next request when its own is answered.    *)
(***************************************************************************)
EXTENDS Integers, FiniteSets

CONSTANTS
  Call,               \* the requests that may be handled at once
  Request,            \* Call -> [kind, email, ip], the email in lower case
  LoginPerEmailIp,    \* LOGIN_MAX_FAILURES_PER_EMAIL_IP
  LoginPerIp,         \* LOGIN_MAX_FAILURES_PER_IP
  ForgotPerEmail,     \* FORGOT_MAX_PER_EMAIL
  ForgotPerIp,        \* FORGOT_MAX_PER_IP
  LoginWindow,        \* LOGIN_WINDOW_SECONDS
  ForgotWindow        \* FORGOT_WINDOW_SECONDS

Every == "ANY"
Positive == Nat \ {0}

ASSUME LimitAssumption ==
  /\ IsFiniteSet(Call)
  /\ \A c \in Call : /\ Request[c].kind \in {"login", "forgot"}
                     /\ Request[c].email # Every /\ Request[c].ip # Every
  /\ LoginPerEmailIp \in Positive /\ LoginPerIp \in Positive
  /\ ForgotPerEmail \in Positive /\ ForgotPerIp \in Positive
  /\ LoginWindow \in Positive /\ ForgotWindow \in Positive

VARIABLES
  count,    \* Redis: the counter of each key, 0 when the key does not exist
  ttl,      \* Redis: its remaining lifetime, 0 when it has none
  pc, nth   \* Call -> where it is, and with which of its two keys

vars == <<count, ttl, pc, nth>>

-----------------------------------------------------------------------------
\* loginEmailIpKey, loginIpKey; forgotEmailKey, forgotIpKey.
KeyOf(c, n) ==
  [kind  |-> Request[c].kind,
   email |-> IF n = 1 THEN Request[c].email ELSE Every,
   ip    |-> IF n = 1 /\ Request[c].kind = "forgot" THEN Every ELSE Request[c].ip]

Key == {KeyOf(c, n) : c \in Call, n \in {1, 2}}

Limit(k) ==
  IF k.kind = "login"
  THEN IF k.email = Every THEN LoginPerIp ELSE LoginPerEmailIp
  ELSE IF k.email = Every THEN ForgotPerIp ELSE ForgotPerEmail

Window(k) == IF k.kind = "login" THEN LoginWindow ELSE ForgotWindow

Init ==
  /\ count = [k \in Key |-> 0]
  /\ ttl = [k \in Key |-> 0]
  /\ pc = [c \in Call |-> "idle"]
  /\ nth = [c \in Call |-> 1]

Goto(c, label, n) ==
  /\ pc' = [pc EXCEPT ![c] = label]
  /\ nth' = [nth EXCEPT ![c] = n]

KeyAt(c) == KeyOf(c, nth[c])

Start(c) ==
  /\ pc[c] = "idle"
  /\ Goto(c, "check", 1)
  /\ UNCHANGED <<count, ttl>>

-----------------------------------------------------------------------------
(* assertLoginAllowed, assertForgotPasswordAllowed: both keys are tested    *)
(* before either is counted.                                                *)

Admit(c) ==
  IF nth[c] = 1 THEN Goto(c, "check", 2)
  ELSE Goto(c, IF Request[c].kind = "login" THEN "verify" ELSE "count", 1)

CheckOffByOne(c) ==
  /\ pc[c] = "check"
  /\ IF count[KeyAt(c)] <= Limit(KeyAt(c)) THEN Admit(c) ELSE Goto(c, "idle", 1)
  /\ UNCHANGED <<count, ttl>>

\* At the limit the call is answered 429.
Check(c) ==
  /\ pc[c] = "check"
  /\ IF count[KeyAt(c)] < Limit(KeyAt(c)) THEN Admit(c) ELSE Goto(c, "idle", 1)
  /\ UNCHANGED <<count, ttl>>

\* The email or the password is wrong: recordLoginFailure.
LoginFails(c) ==
  /\ pc[c] = "verify" /\ Goto(c, "count", 1)
  /\ UNCHANGED <<count, ttl>>

\* resetLoginFailures deletes the counter of the email, not that of the ip.
LoginSucceeds(c) ==
  /\ pc[c] = "verify" /\ Goto(c, "idle", 1)
  /\ count' = [count EXCEPT ![KeyAt(c)] = 0]
  /\ ttl' = [ttl EXCEPT ![KeyAt(c)] = 0]

-----------------------------------------------------------------------------
(* increment: INCR, and EXPIRE by the call that found no counter.           *)

Counted(c) ==
  IF nth[c] = 1 THEN Goto(c, "count", 2) ELSE Goto(c, "idle", 1)

IncrementOnly(c) ==
  /\ pc[c] = "count"
  /\ count' = [count EXCEPT ![KeyAt(c)] = @ + 1]
  /\ Counted(c)
  /\ UNCHANGED ttl

IncrementTestsTwo(c) ==
  /\ pc[c] = "count"
  /\ count' = [count EXCEPT ![KeyAt(c)] = @ + 1]
  /\ IF count[KeyAt(c)] = 1 THEN Goto(c, "expire", nth[c]) ELSE Counted(c)
  /\ UNCHANGED ttl

Increment(c) ==
  /\ pc[c] = "count"
  /\ count' = [count EXCEPT ![KeyAt(c)] = @ + 1]
  /\ IF count[KeyAt(c)] = 0 THEN Goto(c, "expire", nth[c]) ELSE Counted(c)
  /\ UNCHANGED ttl

ExpireBlind(c) ==
  /\ pc[c] = "expire"
  /\ ttl' = [ttl EXCEPT ![KeyAt(c)] = Window(KeyAt(c))]
  /\ Counted(c)
  /\ UNCHANGED count

\* EXPIRE does nothing when the counter is gone meanwhile.
Expire(c) ==
  /\ pc[c] = "expire"
  /\ ttl' = [ttl EXCEPT ![KeyAt(c)] =
               IF count[KeyAt(c)] = 0 THEN 0 ELSE Window(KeyAt(c))]
  /\ Counted(c)
  /\ UNCHANGED count

\* A Redis command fails, the database does, or the API process dies: the call
\* ends where it is.
BreaksOff(c) ==
  /\ pc[c] # "idle" /\ Goto(c, "idle", 1)
  /\ UNCHANGED <<count, ttl>>

\* One unit of time passes; Redis removes the counters whose lifetime is over.
Tick ==
  /\ \E k \in Key : ttl[k] > 0
  /\ ttl' = [k \in Key |-> IF ttl[k] > 0 THEN ttl[k] - 1 ELSE 0]
  /\ count' = [k \in Key |-> IF ttl[k] = 1 THEN 0 ELSE count[k]]
  /\ UNCHANGED <<pc, nth>>

-----------------------------------------------------------------------------
Step(c) ==
  \/ Check(c) \/ LoginFails(c) \/ LoginSucceeds(c) \/ Increment(c) \/ Expire(c)

Run == Tick \/ \E c \in Call : Start(c) \/ Step(c)

Next == Run \/ \E c \in Call : BreaksOff(c)

Spec == Init /\ [][Next]_vars

\* The system in which no call breaks off between its INCR and its EXPIRE.
UnbrokenNext == Run \/ \E c \in Call : pc[c] # "expire" /\ BreaksOff(c)

UnbrokenSpec == Init /\ [][UnbrokenNext]_vars

\* Time passes, and the API answers the requests it has begun.
Fairness == WF_vars(Tick) /\ \A c \in Call : WF_vars(Step(c))

FairSpec == Spec /\ Fairness
FairUnbrokenSpec == UnbrokenSpec /\ Fairness

-----------------------------------------------------------------------------
(* Properties.                                                              *)

\* Every variable keeps its type, and only a counter that exists has a lifetime.
TypeOK ==
  /\ count \in [Key -> Nat] /\ ttl \in [Key -> Nat]
  /\ \A k \in Key : ttl[k] <= Window(k) /\ (ttl[k] > 0 => count[k] > 0)
  /\ pc \in [Call -> {"idle", "check", "verify", "count", "expire"}]
  /\ nth \in [Call -> {1, 2}]

\* The limit is tested before the call is counted, so calls that run at once all
\* pass the test; but each of them at most once: a counter exceeds its limit by
\* less than the number of calls that use it, however they interleave, break off
\* or are reset by a login that succeeds.
Users(k) == {c \in Call : \E n \in {1, 2} : KeyOf(c, n) = k}

OvershootBounded ==
  \A k \in Key : count[k] < Limit(k) + Cardinality(Users(k))

\* A counter without a lifetime is about to get one: DEL, INCR and EXPIRE of
\* concurrent calls never leave one that stays for good. (UnbrokenSpec.)
NoOrphanCounter ==
  \A k \in Key :
    count[k] > 0 /\ ttl[k] = 0 => \E c \in Call : pc[c] = "expire" /\ KeyAt(c) = k

\* "Try again in n min." (assertUnderLimit): a counter at its limit does not
\* stay there.
LockoutEnds ==
  \A k \in Key : count[k] >= Limit(k) ~> count[k] < Limit(k)
=============================================================================

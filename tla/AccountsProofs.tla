--------------------------- MODULE AccountsProofs ---------------------------
(***************************************************************************)
(* Sessions and reset codes of Accounts, for any number of concurrent      *)
(* calls, any operations they serve, and any lifetimes and limits.         *)
(***************************************************************************)
EXTENDS Accounts, FiniteSetTheorems, TLAPS

\* A code that is about to be stored or to get an attempt is one.
TypeInv ==
  /\ TypeOK
  /\ \A c \in Call : pc[c] \in {"upsert", "miss"} => code[c] \in Code
  /\ \A c \in Call : pc[c] = "store" => token[c] \in Nat

LEMMA InitType == Init => TypeInv
<1> SUFFICES ASSUME Init PROVE TypeInv
  OBVIOUS
<1>1. row \in [code : Code \union {NoCode}, expires : Nat, attempts : Nat, created : Nat]
      /\ row = NoRow
  BY DEF Init, NoRow
<1>2. pc \in [Call -> Label] /\ \A c \in Call : pc[c] = "idle"
  BY DEF Init, Label
<1>3. token \in [Call -> Nat \union {NoToken}] /\ code \in [Call -> Code \union {NoCode}]
      /\ newPassword \in [Call -> Password] /\ wrong \in [Code -> Nat]
      /\ begun \in [Call -> {"before", "after"}]
  BY DEF Init
<1> QED BY <1>1, <1>2, <1>3 DEF Init, TypeInv, TypeOK

LEMMA BeginType ==
  ASSUME TypeInv, NEW c \in Call, Begin(c) PROVE TypeInv'
<1> USE DEF TypeInv, TypeOK, Label, Free, Goto, history
<1>1. ASSUME NEW p \in Password, Signup(c, p) PROVE TypeInv'
  BY <1>1 DEF Signup, GetTokens
<1>2. ASSUME NEW p \in Password, Login(c, p) PROVE TypeInv'
  BY <1>2 DEF Login, GetTokens
<1>3. ASSUME NEW p \in Password, DeleteAccount(c, p) PROVE TypeInv'
  BY <1>3 DEF DeleteAccount
<1>4. ASSUME NEW t \in issued, Refresh(c, t) PROVE TypeInv'
  BY <1>4 DEF Refresh, GetTokens
<1>5. ASSUME NEW old \in Password, NEW new \in Password, ChangePassword(c, old, new)
      PROVE  TypeInv'
  BY <1>5 DEF ChangePassword
<1>6. ASSUME NEW k \in Code, Forgot(c, k) PROVE TypeInv'
  BY <1>6 DEF Forgot
<1>7. ASSUME NEW guess \in Code \union {NoCode}, NEW new \in Password,
             Reset(c, guess, new)
      PROVE  TypeInv'
  BY <1>7 DEF Reset, Attempt
<1>8. ASSUME Logout(c) PROVE TypeInv'
  BY <1>8 DEF Logout, Revoked
<1> QED BY <1>1, <1>2, <1>3, <1>4, <1>5, <1>6, <1>7, <1>8 DEF Begin

LEMMA ContinueType ==
  ASSUME TypeInv, NEW c \in Call, Continue(c) PROVE TypeInv'
<1> USE DEF TypeInv, TypeOK, Label, Goto, history
<1>1. ASSUME Sign(c) PROVE TypeInv'
  BY <1>1 DEF Sign
<1>2. ASSUME Store(c) PROVE TypeInv'
  BY <1>2 DEF Store
<1>3. ASSUME Kill(c) PROVE TypeInv'
  BY <1>3 DEF Kill, Revoked
<1>4. ASSUME Delete(c) PROVE TypeInv'
  BY <1>4 DEF Delete, NoRow
<1>5. ASSUME Upsert(c) PROVE TypeInv'
  <2>1. NewRow(c) \in [code : Code, expires : Nat, attempts : Nat, created : Nat]
    BY <1>5, AccountAssumption DEF Upsert, NewRow
  <2> QED BY <1>5, <2>1, AccountAssumption DEF Upsert
<1>6. ASSUME Drop(c) PROVE TypeInv'
  BY <1>6 DEF Drop, NoRow
<1>7. ASSUME Miss(c) PROVE TypeInv'
  BY <1>7 DEF Miss, NoRow
<1>8. ASSUME SetPassword(c) PROVE TypeInv'
  BY <1>8 DEF SetPassword
<1>9. ASSUME DropCode(c) PROVE TypeInv'
  BY <1>9 DEF DropCode, NoRow
<1>10. ASSUME Revoke(c) PROVE TypeInv'
  BY <1>10 DEF Revoke, Revoked
<1> QED BY <1>1, <1>2, <1>3, <1>4, <1>5, <1>6, <1>7, <1>8, <1>9, <1>10 DEF Continue

LEMMA NextType == TypeInv /\ [Next]_vars => TypeInv'
<1> SUFFICES ASSUME TypeInv, [Next]_vars PROVE TypeInv'
  OBVIOUS
<1>1. ASSUME NEW c \in Call, BreaksOff(c) PROVE TypeInv'
  BY <1>1 DEF BreaksOff, TypeInv, TypeOK, Label, Goto, history
<1>2. CASE Tick
  BY <1>2, AccountAssumption DEF Tick, TypeInv, TypeOK, history
<1>3. CASE UNCHANGED vars
  BY <1>3 DEF vars, TypeInv, TypeOK
<1> QED BY <1>1, <1>2, <1>3, BeginType, ContinueType DEF Next

\* The state of an account is typed, whatever calls run at once (auth.service.ts).
THEOREM AccountTypeCorrect == Spec => []TypeOK
<1>1. TypeInv => TypeOK
  BY DEF TypeInv
<1> QED BY <1>1, InitType, NextType, PTL DEF Spec

-----------------------------------------------------------------------------
(* Revocations. Nothing that is about to be stored descends from a login    *)
(* before the last revocation, unless it was being made at that moment.     *)

Descent ==
  ~overlap => /\ \A c \in Call : Getting(c) => begun[c] = "after"
              /\ accepted # NoToken => session = "after"

\* A step that neither revokes nor stores, after which no more calls get tokens.
LEMMA QuietDescent ==
  ASSUME Descent, UNCHANGED history, accepted' \in {accepted, NoToken},
         \A d \in Call : Getting(d)' => Getting(d)
  PROVE  Descent'
BY DEF Descent, history

LEMMA RevokedDescent ==
  ASSUME TypeInv, NEW c \in Call, Revoked(c), accepted' = NoToken PROVE Descent'
<1>1. \A d \in Call \ {c} : Getting(d)' => Getting(d)
  BY DEF Revoked, Getting, Goto, TypeInv, TypeOK
<1>2. ~Getting(c)'
  BY DEF Revoked, Getting, Goto, TypeInv, TypeOK
<1> QED BY <1>1, <1>2 DEF Revoked, Descent

LEMMA GetTokensDescent ==
  ASSUME TypeInv, Descent, NEW c \in Call, NEW since, GetTokens(c, since),
         UNCHANGED accepted, ~overlap => since = "after"
  PROVE  Descent'
<1>1. \A d \in Call \ {c} : (Getting(d)' => Getting(d)) /\ begun'[d] = begun[d]
  BY DEF GetTokens, Getting, Goto, TypeInv, TypeOK
<1>2. begun'[c] = since
  BY DEF GetTokens, TypeInv, TypeOK
<1> QED BY <1>1, <1>2 DEF GetTokens, Descent

LEMMA BeginDescent ==
  ASSUME TypeInv, Descent, NEW c \in Call, Begin(c) PROVE Descent'
<1> USE DEF Goto, Getting, TypeInv, TypeOK
<1>1. ASSUME NEW p \in Password, Signup(c, p) \/ Login(c, p) PROVE Descent'
  BY <1>1, GetTokensDescent DEF Signup, Login
<1>2. ASSUME NEW p \in Password, DeleteAccount(c, p) PROVE Descent'
  BY <1>2, QuietDescent DEF DeleteAccount
<1>3. ASSUME NEW t \in issued, Refresh(c, t) PROVE Descent'
  <2>1. CASE t = accepted
    <3>1. ~overlap => session = "after"
      BY <1>3 DEF Refresh, Descent
    <3> QED BY <1>3, <2>1, <3>1, GetTokensDescent DEF Refresh
  <2>2. CASE t # accepted
    BY <1>3, <2>2, QuietDescent DEF Refresh
  <2> QED BY <2>1, <2>2
<1>4. ASSUME NEW old \in Password, NEW new \in Password, ChangePassword(c, old, new)
      PROVE  Descent'
  BY <1>4, QuietDescent DEF ChangePassword
<1>5. ASSUME NEW k \in Code, Forgot(c, k) PROVE Descent'
  BY <1>5, QuietDescent DEF Forgot
<1>6. ASSUME NEW guess \in Code \union {NoCode}, NEW new \in Password,
             Reset(c, guess, new)
      PROVE  Descent'
  BY <1>6, QuietDescent DEF Reset, Attempt
<1>7. ASSUME Logout(c) PROVE Descent'
  BY <1>7, RevokedDescent DEF Logout
<1> QED BY <1>1, <1>2, <1>3, <1>4, <1>5, <1>6, <1>7 DEF Begin

LEMMA ContinueDescent ==
  ASSUME TypeInv, Descent, NEW c \in Call, Continue(c) PROVE Descent'
<1> USE DEF Goto, Getting, TypeInv, TypeOK
<1>1. ASSUME Sign(c) PROVE Descent'
  BY <1>1, QuietDescent DEF Sign
<1>2. ASSUME Store(c) PROVE Descent'
  <2>1. ~overlap => begun[c] = "after"
    BY <1>2 DEF Store, Descent
  <2>2. \A d \in Call : Getting(d)' => Getting(d)
    BY <1>2 DEF Store
  <2>3. overlap' = overlap /\ begun' = begun
        /\ \/ session' = begun[c]
           \/ session' = session /\ accepted' = accepted
    BY <1>2 DEF Store
  <2> QED BY <2>1, <2>2, <2>3 DEF Descent
<1>3. ASSUME Kill(c) \/ Revoke(c) PROVE Descent'
  BY <1>3, RevokedDescent DEF Kill, Revoke
<1>4. ASSUME Delete(c) PROVE Descent'
  BY <1>4, QuietDescent DEF Delete
<1>5. ASSUME Upsert(c) \/ Drop(c) \/ Miss(c) PROVE Descent'
  BY <1>5, QuietDescent DEF Upsert, Drop, Miss
<1>6. ASSUME SetPassword(c) PROVE Descent'
  BY <1>6, QuietDescent DEF SetPassword
<1>7. ASSUME DropCode(c) PROVE Descent'
  BY <1>7, QuietDescent DEF DropCode
<1> QED BY <1>1, <1>2, <1>3, <1>4, <1>5, <1>6, <1>7 DEF Continue

LEMMA NextDescent == TypeInv /\ Descent /\ [Next]_vars => Descent'
<1> SUFFICES ASSUME TypeInv, Descent, [Next]_vars PROVE Descent'
  OBVIOUS
<1>1. ASSUME NEW c \in Call, BreaksOff(c) PROVE Descent'
  BY <1>1, QuietDescent DEF BreaksOff, Goto, Getting, TypeInv, TypeOK
<1>2. CASE Tick
  BY <1>2, QuietDescent DEF Tick, Getting
<1>3. CASE UNCHANGED vars
  BY <1>3, QuietDescent DEF vars, history, Getting
<1> QED BY <1>1, <1>2, <1>3, BeginDescent, ContinueDescent DEF Next

\* After a logout, a password change or reset, or the reuse of a token, only what a
\* later login begins is accepted, unless a call was getting tokens at that moment.
THEOREM RevokedAlwaysStaysRevoked == Spec => []RevokedStaysRevoked
<1>1. Init => Descent
  BY DEF Init, Descent, Getting
<1>2. Descent => RevokedStaysRevoked
  BY DEF Descent, RevokedStaysRevoked
<1> QED BY <1>1, <1>2, InitType, NextType, NextDescent, PTL DEF Spec

-----------------------------------------------------------------------------
(* Guesses. A code's wrong guesses, together with those on their way to be  *)
(* counted, stay below MaxAttempts plus the calls that may guess; while its *)
(* row is there, the row has counted at least as many. A code that is not   *)
(* stored yet has none.                                                     *)

Missing(k) == {c \in Call : pc[c] = "miss" /\ code[c] = k}
Storing(k) == {c \in Call : pc[c] = "upsert" /\ code[c] = k}

Untried(k) == wrong[k] = 0 /\ row.code # k /\ Missing(k) = {}

CountBounded(k) ==
  /\ wrong[k] + Cardinality(Missing(k)) < MaxAttempts + Cardinality(Guessers)
  /\ row.code = k => wrong[k] <= row.attempts

Fresh(k) ==
  /\ k \notin drawn => Untried(k) /\ Storing(k) = {}
  /\ \A c \in Storing(k) : Untried(k) /\ Storing(k) = {c}

GuessInv ==
  /\ \A c \in Call : pc[c] = "miss" => c \in Guessers
  /\ \A k \in Code : CountBounded(k) /\ Fresh(k)

LEMMA GuesserCards ==
  /\ Cardinality(Guessers) \in Nat
  /\ \A S \in SUBSET Guessers : /\ IsFiniteSet(S) /\ Cardinality(S) \in Nat
                                /\ Cardinality(S) <= Cardinality(Guessers)
<1>1. IsFiniteSet(Guessers)
  BY FS_Subset, AccountAssumption DEF Guessers
<1> QED BY <1>1, FS_Subset, FS_CardinalityType

LEMMA MissingGuess == GuessInv => \A k : Missing(k) \subseteq Guessers
BY DEF GuessInv, Missing

\* No more guesses are on their way to k.
LEMMA FewerMiss ==
  ASSUME TypeInv, GuessInv, NEW k \in Code, wrong'[k] = wrong[k],
         Missing(k)' \subseteq Missing(k)
  PROVE  wrong'[k] + Cardinality(Missing(k)') < MaxAttempts + Cardinality(Guessers)
<1>1. IsFiniteSet(Missing(k)) /\ Cardinality(Missing(k)) \in Nat
  BY GuesserCards, MissingGuess
<1>2. Cardinality(Missing(k)') <= Cardinality(Missing(k))
      /\ Cardinality(Missing(k)') \in Nat
  BY <1>1, FS_Subset, FS_CardinalityType
<1> QED BY <1>1, <1>2, GuesserCards, AccountAssumption
        DEF GuessInv, CountBounded, TypeInv, TypeOK

LEMMA InitGuess == Init => GuessInv
<1> SUFFICES ASSUME Init PROVE GuessInv
  OBVIOUS
<1>1. \A k : Missing(k) = {} /\ Storing(k) = {}
  BY DEF Init, Missing, Storing
<1>2. \A k \in Code : wrong[k] = 0 /\ row.code # k
  BY AccountAssumption DEF Init, NoRow
<1>3. ASSUME NEW k \in Code PROVE CountBounded(k)
  BY <1>1, <1>2, GuesserCards, FS_EmptySet, AccountAssumption DEF CountBounded
<1>4. ASSUME NEW k \in Code PROVE Fresh(k)
  BY <1>1, <1>2 DEF Fresh, Untried
<1> QED BY <1>3, <1>4 DEF GuessInv, Init

\* A step after which no more codes are stored or guesses counted, and the row is
\* as it was or gone.
LEMMA QuietGuess ==
  ASSUME TypeInv, GuessInv, UNCHANGED <<wrong, drawn, code>>, row' \in {row, NoRow},
         \A c \in Call : pc'[c] \in {"upsert", "miss"} => pc'[c] = pc[c]
  PROVE  GuessInv'
<1>1. \A k : Missing(k)' \subseteq Missing(k) /\ Storing(k)' \subseteq Storing(k)
  BY DEF Missing, Storing
<1>2. \A k \in Code : row'.code = k => row' = row
  BY AccountAssumption DEF NoRow
<1>3. ASSUME NEW k \in Code PROVE CountBounded(k)'
  BY <1>1, <1>2, FewerMiss DEF CountBounded, GuessInv
<1>4. ASSUME NEW k \in Code PROVE Fresh(k)'
  <2>1. Untried(k) => Untried(k)'
    BY <1>1, <1>2 DEF Untried
  <2> QED BY <1>1, <2>1 DEF Fresh, GuessInv
<1> QED BY <1>3, <1>4 DEF GuessInv, Guessers

LEMMA ForgotGuess ==
  ASSUME TypeInv, GuessInv, NEW c \in Call, NEW k \in Code, Forgot(c, k)
  PROVE  GuessInv'
<1> USE DEF TypeInv, TypeOK, Free, Goto
<1>1. UNCHANGED <<wrong, row>> /\ drawn' = drawn \union {k}
      /\ pc[c] = "idle" /\ pc'[c] = "upsert" /\ code'[c] = k
      /\ \A d \in Call \ {c} : pc'[d] = pc[d] /\ code'[d] = code[d]
  BY DEF Forgot
<1>2. \A j : Missing(j)' = Missing(j)
  BY <1>1 DEF Missing
<1>3. \A j : j # k => Storing(j)' = Storing(j)
  BY <1>1 DEF Storing
<1>4. Storing(k)' = Storing(k) \union {c}
  BY <1>1 DEF Storing
<1>5. Storing(k) = {} /\ Untried(k)
  BY DEF Forgot, GuessInv, Fresh
<1>6. ASSUME NEW j \in Code PROVE CountBounded(j)'
  BY <1>1, <1>2, FewerMiss DEF CountBounded, GuessInv
<1>7. ASSUME NEW j \in Code PROVE Untried(j) => Untried(j)'
  BY <1>1, <1>2 DEF Untried
<1>8. ASSUME NEW j \in Code PROVE Fresh(j)'
  <2>1. CASE j = k
    BY <1>1, <1>4, <1>5, <1>7, <2>1 DEF Fresh
  <2>2. CASE j # k
    BY <1>1, <1>3, <1>7, <2>2 DEF Fresh, GuessInv
  <2> QED BY <2>1, <2>2
<1>9. \A d \in Call : pc'[d] = "miss" => d \in Guessers
  BY <1>1 DEF GuessInv
<1> QED BY <1>6, <1>8, <1>9 DEF GuessInv, Guessers

LEMMA UpsertGuess ==
  ASSUME TypeInv, GuessInv, NEW c \in Call, Upsert(c), user = "there"
  PROVE  GuessInv'
<1> USE DEF TypeInv, TypeOK, Goto
<1>1. UNCHANGED <<wrong, drawn, code>> /\ row'.code = code[c] /\ row'.attempts = 0
      /\ pc[c] = "upsert" /\ pc'[c] = "idle" /\ code[c] \in Code
      /\ \A d \in Call \ {c} : pc'[d] = pc[d]
  BY DEF Upsert, NewRow
<1>2. Untried(code[c]) /\ Storing(code[c]) = {c}
  BY <1>1 DEF GuessInv, Fresh, Storing
<1>3. \A j : Missing(j)' \subseteq Missing(j) /\ Storing(j)' = Storing(j) \ {c}
  BY <1>1 DEF Missing, Storing
<1>4. ASSUME NEW j \in Code PROVE CountBounded(j)'
  BY <1>1, <1>2, <1>3, FewerMiss DEF CountBounded, GuessInv, Untried
<1>5. ASSUME NEW j \in Code PROVE Fresh(j)'
  <2>1. CASE j = code[c]
    <3>1. j \in drawn
      BY <1>2, <2>1 DEF GuessInv, Fresh
    <3> QED BY <1>1, <1>2, <1>3, <2>1, <3>1 DEF Fresh
  <2>2. CASE j # code[c]
    <3>1. Untried(j) => Untried(j)'
      BY <1>1, <1>3, <2>2 DEF Untried
    <3> QED BY <1>1, <1>3, <3>1, <2>2 DEF Fresh, GuessInv
  <2> QED BY <2>1, <2>2
<1>6. \A d \in Call : pc'[d] = "miss" => d \in Guessers
  BY <1>1 DEF GuessInv
<1> QED BY <1>4, <1>5, <1>6 DEF GuessInv, Guessers

\* The row has counted fewer than MaxAttempts: then even all callers may be wrong
\* about its code at once.
LEMMA ResetGuess ==
  ASSUME TypeInv, GuessInv, NEW c \in Call, NEW guess, NEW new, Reset(c, guess, new),
         pc'[c] = "miss"
  PROVE  GuessInv'
<1> USE DEF TypeInv, TypeOK, Free, Goto
<1>1. UNCHANGED <<wrong, drawn, row>> /\ row.attempts < MaxAttempts
      /\ row # NoRow /\ code'[c] = row.code /\ pc[c] = "idle"
      /\ \A d \in Call \ {c} : pc'[d] = pc[d] /\ code'[d] = code[d]
  BY DEF Reset, Attempt
<1>2. \A j : Storing(j)' = Storing(j)
  BY <1>1 DEF Storing
<1>3. \A j : j # row.code => Missing(j)' = Missing(j)
  BY <1>1 DEF Missing
<1>4. \A d \in Call : pc'[d] = "miss" => d \in Guessers
  BY <1>1 DEF GuessInv, Guessers, Reset, Attempt
<1>5. ASSUME NEW j \in Code PROVE CountBounded(j)'
  <2>1. CASE j = row.code
    <3>1. Missing(j)' \subseteq Guessers
      BY <1>4 DEF Missing
    <3>2. Cardinality(Missing(j)') \in Nat
          /\ Cardinality(Missing(j)') <= Cardinality(Guessers)
      BY <3>1, GuesserCards
    <3>3. wrong[j] \in Nat /\ wrong[j] <= row.attempts /\ row.attempts \in Nat
      BY <2>1 DEF GuessInv, CountBounded
    <3> QED BY <1>1, <3>2, <3>3, GuesserCards, AccountAssumption
            DEF CountBounded, Guessers
  <2>2. CASE j # row.code
    BY <1>1, <1>3, <2>2, FewerMiss DEF CountBounded, GuessInv
  <2> QED BY <2>1, <2>2
<1>6. ASSUME NEW j \in Code PROVE Fresh(j)'
  <2>1. Untried(j) => Untried(j)'
    BY <1>1, <1>3 DEF Untried
  <2> QED BY <1>1, <1>2, <2>1 DEF Fresh, GuessInv
<1> QED BY <1>4, <1>5, <1>6 DEF GuessInv, Guessers

LEMMA MissGuess ==
  ASSUME TypeInv, GuessInv, NEW c \in Call, Miss(c) PROVE GuessInv'
<1> USE DEF TypeInv, TypeOK, Goto
<1>0. PICK k \in Code : k = code[c]
  BY DEF Miss
<1>1. UNCHANGED <<drawn, code>> /\ wrong'[k] = wrong[k] + 1
      /\ \A j \in Code \ {k} : wrong'[j] = wrong[j]
  BY <1>0 DEF Miss
<1>2. pc[c] = "miss" /\ pc'[c] = "idle" /\ \A d \in Call \ {c} : pc'[d] = pc[d]
  BY DEF Miss
<1>3. row'.code = row.code
      /\ \A j \in Code : row.code = j => row'.attempts = row.attempts + 1
  BY AccountAssumption DEF Miss, NoRow
<1>4. \A j : Missing(j)' = Missing(j) \ {c} /\ Storing(j)' = Storing(j)
  BY <1>1, <1>2 DEF Missing, Storing
<1>5. c \in Missing(k)
  BY <1>0, <1>2 DEF Missing
<1>6. ASSUME NEW j \in Code PROVE CountBounded(j)'
  <2>1. CASE j = k
    <3>1. IsFiniteSet(Missing(k)) /\ Cardinality(Missing(k)) \in Nat
      BY GuesserCards, MissingGuess
    <3>2. Cardinality(Missing(k)') = Cardinality(Missing(k)) - 1
      BY <1>4, <1>5, <3>1, FS_RemoveElement
    <3>3. wrong[k] \in Nat /\ row.attempts \in Nat
      BY <1>1
    <3> QED BY <1>1, <1>3, <2>1, <3>1, <3>2, <3>3, GuesserCards, AccountAssumption
            DEF CountBounded, GuessInv, Guessers
  <2>2. CASE j # k
    <3>1. wrong[j] \in Nat /\ row.attempts \in Nat
      OBVIOUS
    <3>2. Missing(j)' \subseteq Missing(j) /\ wrong'[j] = wrong[j]
      BY <1>1, <1>4, <2>2
    <3>3. wrong'[j] + Cardinality(Missing(j)') < MaxAttempts + Cardinality(Guessers)
      BY <3>2, FewerMiss
    <3> QED BY <1>3, <3>1, <3>2, <3>3 DEF CountBounded, GuessInv, Guessers
  <2> QED BY <2>1, <2>2
<1>7. ASSUME NEW j \in Code PROVE Fresh(j)'
  <2>1. Untried(j) => Untried(j)'
    BY <1>1, <1>3, <1>4, <1>5 DEF Untried
  <2> QED BY <1>1, <1>4, <2>1 DEF Fresh, GuessInv
<1>8. \A d \in Call : pc'[d] = "miss" => d \in Guessers
  BY <1>2 DEF GuessInv
<1> QED BY <1>6, <1>7, <1>8 DEF GuessInv, Guessers

LEMMA BeginGuess ==
  ASSUME TypeInv, GuessInv, NEW c \in Call, Begin(c) PROVE GuessInv'
<1> USE DEF Free, Goto, TypeInv, TypeOK
<1>1. ASSUME NEW p \in Password, Signup(c, p) \/ Login(c, p) \/ DeleteAccount(c, p)
      PROVE  GuessInv'
  BY <1>1, QuietGuess DEF Signup, Login, DeleteAccount, GetTokens
<1>2. ASSUME NEW t \in issued, Refresh(c, t) PROVE GuessInv'
  BY <1>2, QuietGuess DEF Refresh, GetTokens
<1>3. ASSUME NEW old \in Password, NEW new \in Password, ChangePassword(c, old, new)
      PROVE  GuessInv'
  BY <1>3, QuietGuess DEF ChangePassword
<1>4. ASSUME NEW guess \in Code \union {NoCode}, NEW new \in Password,
             Reset(c, guess, new)
      PROVE  GuessInv'
  <2>1. CASE pc'[c] = "miss"
    BY <1>4, <2>1, ResetGuess
  <2>2. CASE pc'[c] # "miss"
    BY <1>4, <2>2, QuietGuess DEF Reset, Attempt
  <2> QED BY <2>1, <2>2
<1>5. ASSUME Logout(c) PROVE GuessInv'
  BY <1>5, QuietGuess DEF Logout, Revoked
<1> QED BY <1>1, <1>2, <1>3, <1>4, <1>5, ForgotGuess DEF Begin

LEMMA ContinueGuess ==
  ASSUME TypeInv, GuessInv, NEW c \in Call, Continue(c) PROVE GuessInv'
<1> USE DEF Goto, TypeInv, TypeOK
<1>1. ASSUME Sign(c) \/ Store(c) PROVE GuessInv'
  BY <1>1, QuietGuess DEF Sign, Store
<1>2. ASSUME Kill(c) \/ Revoke(c) PROVE GuessInv'
  BY <1>2, QuietGuess DEF Kill, Revoke, Revoked
<1>3. ASSUME Delete(c) \/ Drop(c) \/ DropCode(c) PROVE GuessInv'
  BY <1>3, QuietGuess DEF Delete, Drop, DropCode
<1>4. ASSUME Upsert(c) PROVE GuessInv'
  BY <1>4, UpsertGuess, QuietGuess DEF Upsert
<1>5. ASSUME SetPassword(c) PROVE GuessInv'
  BY <1>5, QuietGuess DEF SetPassword
<1> QED BY <1>1, <1>2, <1>3, <1>4, <1>5, MissGuess DEF Continue

LEMMA NextGuess == TypeInv /\ GuessInv /\ [Next]_vars => GuessInv'
<1> SUFFICES ASSUME TypeInv, GuessInv, [Next]_vars PROVE GuessInv'
  OBVIOUS
<1>1. ASSUME NEW c \in Call, BreaksOff(c) PROVE GuessInv'
  BY <1>1, QuietGuess DEF BreaksOff, Goto, TypeInv, TypeOK
<1>2. CASE Tick
  BY <1>2, QuietGuess DEF Tick
<1>3. CASE UNCHANGED vars
  BY <1>3, QuietGuess DEF vars
<1> QED BY <1>1, <1>2, <1>3, BeginGuess, ContinueGuess DEF Next

\* A code takes fewer wrong guesses than MaxAttempts and the calls that may guess
\* together, though resetPassword counts an attempt after it has tested the number.
THEOREM GuessesAlwaysBounded == Spec => []GuessesBounded
<1>1. TypeInv /\ GuessInv => GuessesBounded
  <2> SUFFICES ASSUME TypeInv, GuessInv, NEW k \in Code
               PROVE wrong[k] < MaxAttempts + Cardinality(Guessers)
    BY DEF GuessesBounded
  <2>1. Cardinality(Missing(k)) \in Nat
    BY GuesserCards, MissingGuess
  <2> QED BY <2>1, GuesserCards, AccountAssumption
          DEF GuessInv, CountBounded, TypeInv, TypeOK
<1> QED BY <1>1, InitType, NextType, InitGuess, NextGuess, PTL DEF Spec
=============================================================================

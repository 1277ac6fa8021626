------------------------------ MODULE Devices ------------------------------
(***************************************************************************)
(* notifications.service.ts: the row of one device's push token, while     *)
(* accounts log in and out on the device. The app (external) registers the *)
(* token on login and removes it on logout; its requests may be retried,   *)
(* lost, and handled in any order. Each handler is one statement.          *)
(***************************************************************************)
EXTENDS Integers, Sequences

CONSTANTS User, NoUser,
          MaxRequests     \* bound: requests the app ever sends

ASSUME DevicesAssumption == NoUser \notin User

VARIABLES
  users,         \* the accounts that exist
  row,           \* whose the token is in PushToken, or NoUser
  loggedIn,      \* the account logged in on the device, or NoUser
  sent,          \* what the app has sent, in order
  flying,        \* the requests that may still be handled
  settled        \* for the properties: see Handle

deviceVars == <<users, row, loggedIn, sent, flying, settled>>

DevicesInit ==
  /\ users = User /\ row = NoUser /\ loggedIn = NoUser
  /\ sent = <<>> /\ flying = {} /\ settled = FALSE

Send(op, u) ==
  /\ Len(sent) < MaxRequests
  /\ sent' = Append(sent, [op |-> op, user |-> u])
  /\ flying' = flying \union {Len(sent')}
  /\ settled' = FALSE

Login(u) ==
  /\ loggedIn = NoUser /\ u \in users
  /\ loggedIn' = u /\ Send("register", u)
  /\ UNCHANGED <<users, row>>

Logout ==
  /\ loggedIn # NoUser
  /\ loggedIn' = NoUser /\ Send("remove", loggedIn)
  /\ UNCHANGED <<users, row>>

-----------------------------------------------------------------------------
\* One upsert; its foreign key fails when the account is gone.
RegisterToken(u) == row' = IF u \in users THEN u ELSE row

RemoveTokenOfAnyone(u) == row' = NoUser
RemoveToken(u) == row' = IF row = u THEN NoUser ELSE row

\* Those sent before the last that would undo a registration by this account.
Harmful(u) ==
  {i \in flying : i < Len(sent) /\ (sent[i].op = "register" \/ sent[i].user = u)}

\* The registration of the account that is logged in is settled when nothing
\* that would undo it is on its way.
Handle(i) ==
  /\ i \in flying
  /\ LET u == sent[i].user IN
     /\ IF sent[i].op = "register" THEN RegisterToken(u) ELSE RemoveToken(u)
     /\ settled' = \/ settled
                   \/ i = Len(sent) /\ loggedIn = u /\ u \in users /\ Harmful(u) = {}
  /\ flying' \in {flying, flying \ {i}}
  /\ UNCHANGED <<users, loggedIn, sent>>

Lose(i) ==
  /\ i \in flying /\ flying' = flying \ {i}
  /\ UNCHANGED <<users, row, loggedIn, sent, settled>>

\* The schema cascades to the row.
DeleteOwner(u) ==
  /\ u \in users /\ users' = users \ {u}
  /\ row' = IF row = u THEN NoUser ELSE row
  /\ settled' = (settled /\ loggedIn # u)
  /\ UNCHANGED <<loggedIn, sent, flying>>

DevicesNext ==
  \/ \E u \in User : Login(u) \/ DeleteOwner(u)
  \/ Logout
  \/ \E i \in flying : Handle(i) \/ Lose(i)

DevicesSpec == DevicesInit /\ [][DevicesNext]_deviceVars

-----------------------------------------------------------------------------
\* The token's account exists. Once settled, the token stays with the account
\* logged in on the device: a removal that an earlier account sent, and that
\* comes late or twice, does not take it away.
SettledStays ==
  /\ row \in users \union {NoUser}
  /\ settled => row = loggedIn
=============================================================================

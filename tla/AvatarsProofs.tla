--------------------------- MODULE AvatarsProofs ---------------------------
(***************************************************************************)
(* Theorems about Avatars, for any calls and any number of files: types,   *)
(* that broken links are transient, and that Avatars implements AvatarView;*)
(* and about Devices, for any accounts and requests: SettledStays.         *)
(***************************************************************************)
EXTENDS Avatars, Devices, TLAPS

\* The file a call has saved is there and its own: no URL has named it yet,
\* and only files that a URL has named are deleted.
OwnIsFresh ==
  /\ \A c \in Call :
       own[c] # NoFile => own[c] \in files /\ own[c] \notin used
  /\ \A c, d \in Call : own[c] = own[d] => c = d \/ own[c] = NoFile

IInv == TypeOK /\ OwnIsFresh

LEMMA InitInv == Init => IInv
BY AvatarAssumption DEF Init, IInv, TypeOK, OwnIsFresh, NoFile

LEMMA StepInv == IInv /\ [Next]_vars => IInv'
<1> SUFFICES ASSUME IInv, [Next]_vars PROVE IInv'
  OBVIOUS
<1> USE AvatarAssumption DEF IInv, TypeOK, OwnIsFresh, NoFile
<1>1. CASE UNCHANGED vars
  BY <1>1 DEF vars, calls
<1>2. CASE DeleteAccount
  BY <1>2 DEF DeleteAccount, calls
<1>3. ASSUME NEW c \in Call, Save(c) PROVE IInv'
  <2>1. last + 1 \notin files /\ last + 1 \notin used /\ \A d \in Call : own[d] # last + 1
    OBVIOUS
  <2> QED BY <1>3, <2>1 DEF Save, Goto
<1>4. ASSUME NEW c \in Call, AskRemove(c) PROVE IInv'
  BY <1>4 DEF AskRemove, Goto
<1>5. ASSUME NEW c \in Call, Look(c) PROVE IInv'
  BY <1>5 DEF Look, Goto
<1>6. ASSUME NEW c \in Call, Unlink(c) PROVE IInv'
  BY <1>6 DEF Unlink, Goto
<1>7. ASSUME NEW c \in Call, SetUrl(c) PROVE IInv'
  <2>1. own[c] \in 0 .. last /\ \A d \in Call \ {c} : own[d] = own[c] => own[d] = NoFile
    OBVIOUS
  <2>2. TypeOK'
    <3>1. used \subseteq used' /\ used' \subseteq 1 .. last
      BY <1>7, <2>1 DEF SetUrl
    <3>2. read' \in [Call -> used' \union {NoFile}]
      BY <1>7, <3>1 DEF SetUrl, End
    <3>3. url' \in used' \union {NoFile} /\ (~exists' => url' = NoFile)
      BY <1>7 DEF SetUrl
    <3> QED BY <1>7, <3>1, <3>2, <3>3 DEF SetUrl, End, Goto
  <2>3. OwnIsFresh'
    BY <1>7, <2>1 DEF SetUrl, End, Goto
  <2> QED BY <2>2, <2>3
<1>8. ASSUME NEW c \in Call, BreaksOff(c) PROVE IInv'
  BY <1>8 DEF BreaksOff, End, Goto
<1> QED BY <1>1, <1>2, <1>3, <1>4, <1>5, <1>6, <1>7, <1>8 DEF Next, Step

\* The state of the avatar is typed, and a user who is gone has no URL.
THEOREM AvatarTypeCorrect == Spec => []TypeOK
<1>1. IInv => TypeOK
  BY DEF IInv
<1> QED BY <1>1, InitInv, StepInv, PTL DEF Spec

-----------------------------------------------------------------------------
LEMMA BrokenStep ==
  ASSUME IInv, BrokenIsTransient, [UnbrokenNext]_vars
  PROVE  BrokenIsTransient'
<1> USE DEF IInv, TypeOK, OwnIsFresh, NoFile, Broken, BrokenIsTransient
<1>1. CASE UNCHANGED vars
  BY <1>1 DEF vars, calls
<1>2. CASE DeleteAccount
  BY <1>2 DEF DeleteAccount, calls
<1>3. ASSUME NEW c \in Call, Save(c) PROVE BrokenIsTransient'
  BY <1>3 DEF Save, Goto
<1>4. ASSUME NEW c \in Call, AskRemove(c) PROVE BrokenIsTransient'
  BY <1>4 DEF AskRemove, Goto
<1>5. ASSUME NEW c \in Call, Look(c) PROVE BrokenIsTransient'
  BY <1>5 DEF Look, Goto
<1>6. ASSUME NEW c \in Call, Unlink(c) PROVE BrokenIsTransient'
  BY <1>6 DEF Unlink, Goto
<1>7. ASSUME NEW c \in Call, SetUrl(c) PROVE BrokenIsTransient'
  BY <1>7 DEF SetUrl, End, Goto
<1>8. ASSUME NEW c \in Call, BreaksOff(c), at[c] # "set" PROVE BrokenIsTransient'
  BY <1>8 DEF BreaksOff, End, Goto
<1> QED BY <1>1, <1>2, <1>3, <1>4, <1>5, <1>6, <1>7, <1>8 DEF UnbrokenNext, Next, Step

\* When no call breaks off between deleting the old file and storing the new
\* URL, a URL that names a missing file is always about to be replaced.
THEOREM BrokenAlwaysTransient == UnbrokenSpec => []BrokenIsTransient
<1>1. Init => BrokenIsTransient
  BY DEF Init, BrokenIsTransient, Broken
<1>2. [UnbrokenNext]_vars => [Next]_vars
  BY DEF UnbrokenNext
<1>3. IInv /\ BrokenIsTransient /\ [UnbrokenNext]_vars => BrokenIsTransient'
  BY BrokenStep
<1> QED BY <1>1, <1>2, <1>3, InitInv, StepInv, PTL DEF UnbrokenSpec

-----------------------------------------------------------------------------
Seen == IF url \in files THEN url ELSE NoFile
Past == used \ (IF url \in files THEN {url} ELSE {})

LEMMA StepShows ==
  ASSUME IInv, [Next]_vars
  PROVE  [View!Next]_<<Seen, Past>>
<1> USE DEF IInv, TypeOK, OwnIsFresh, NoFile, Seen, Past
<1> DEFINE Stutter == Seen' = Seen /\ Past' = Past
<1>1. ASSUME Stutter PROVE [View!Next]_<<Seen, Past>>
  BY <1>1
<1>2. ASSUME url \in files, url' \notin files', used' = used PROVE View!Hide
  BY <1>2 DEF View!Hide
<1>3. CASE UNCHANGED vars
  BY <1>1, <1>3 DEF vars
<1>4. CASE DeleteAccount
  BY <1>1, <1>2, <1>4 DEF DeleteAccount, View!Next
<1>5. ASSUME NEW c \in Call, Save(c) PROVE Stutter
  BY <1>5 DEF Save
<1>6. ASSUME NEW c \in Call, AskRemove(c) \/ Look(c) \/ BreaksOff(c) PROVE Stutter
  BY <1>6 DEF AskRemove, Look, BreaksOff
<1>7. ASSUME NEW c \in Call, Unlink(c) PROVE [View!Next]_<<Seen, Past>>
  BY <1>1, <1>2, <1>7 DEF Unlink, View!Next
<1>8. ASSUME NEW c \in Call, SetUrl(c) PROVE [View!Next]_<<Seen, Past>>
  <2>1. CASE exists /\ own[c] # NoFile
    <3>1. own[c] \in File /\ url' \in files' /\ Seen' = own[c]
      <4>1. own[c] \in 0 .. last /\ own[c] \in files
        BY <2>1
      <4>2. url' = own[c] /\ files' = files
        BY <1>8, <2>1 DEF SetUrl
      <4> QED BY <2>1, <4>1, <4>2, AvatarAssumption DEF File
    <3>2. Past' = used /\ own[c] \notin Past \union {Seen}
      BY <1>8, <2>1, <3>1 DEF SetUrl
    <3>3. used = Past \union ({Seen} \ {NoFile})
      OBVIOUS
    <3>4. View!Show(own[c])
      BY <3>1, <3>2, <3>3 DEF View!Show
    <3> QED BY <3>1, <3>4 DEF View!Next
  <2>2. CASE exists /\ own[c] = NoFile
    BY <1>1, <1>2, <1>8, <2>2 DEF SetUrl, View!Next
  <2>3. CASE ~exists
    BY <1>1, <1>8, <2>3 DEF SetUrl
  <2> QED BY <2>1, <2>2, <2>3
<1> QED BY <1>1, <1>3, <1>4, <1>5, <1>6, <1>7, <1>8 DEF Next, Step

\* Whatever uploads, removals and failures interleave, what others see is an
\* AvatarView: a replaced or removed picture never comes back.
THEOREM AvatarsImplementView == Spec => ImplementsView
<1>1. Init => View!Init
  BY DEF Init, View!Init, NoFile
<1>2. IInv /\ [Next]_vars => [View!Next]_<<Seen, Past>>
  BY StepShows
<1> QED BY <1>1, <1>2, InitInv, StepInv, PTL DEF Spec, ImplementsView, View!Spec, Seen, Past

-----------------------------------------------------------------------------
(* Devices.                                                                 *)

Message == [op : {"register", "remove"}, user : User]

DeviceTypes ==
  /\ users \subseteq User /\ row \in users \union {NoUser} /\ loggedIn \in User \union {NoUser}
  /\ sent \in Seq(Message)
  /\ flying \subseteq 1 .. Len(sent) /\ settled \in BOOLEAN

\* While an account is logged in, the last request sent is its registration.
LastRegisters ==
  loggedIn # NoUser =>
    sent # <<>> /\ sent[Len(sent)] = [op |-> "register", user |-> loggedIn]

\* Once that is settled, what is still on its way before it cannot undo it.
SettledHolds ==
  settled =>
    /\ row = loggedIn /\ loggedIn \in users
    /\ \A i \in flying : i < Len(sent) => sent[i].op = "remove" /\ sent[i].user # loggedIn

DevicesInv == DeviceTypes /\ LastRegisters /\ SettledHolds

LEMMA DevicesInvInit == DevicesInit => DevicesInv
<1> SUFFICES ASSUME DevicesInit PROVE DevicesInv
  OBVIOUS
<1>1. DeviceTypes
  <2>1. <<>> \in Seq(Message)
    OBVIOUS
  <2> QED BY <2>1 DEF DevicesInit, DeviceTypes
<1> QED BY <1>1 DEF DevicesInit, DevicesInv, LastRegisters, SettledHolds

LEMMA HandleStep == ASSUME DevicesInv, NEW i \in flying, Handle(i) PROVE DevicesInv'
<1> USE DEF DevicesInv, DeviceTypes
<1> PICK u \in User, op \in {"register", "remove"} : sent[i] = [op |-> op, user |-> u]
  <2>1. sent[i] \in Message
    OBVIOUS
  <2> QED BY <2>1 DEF Message
<1>1. /\ UNCHANGED <<users, loggedIn, sent>> /\ flying' \subseteq flying
      /\ row' = IF op = "register" THEN (IF u \in users THEN u ELSE row)
                ELSE (IF row = u THEN NoUser ELSE row)
  BY DEF Handle, RegisterToken, RemoveToken
<1>2. settled' => settled \/ (i = Len(sent) /\ loggedIn = u /\ u \in users /\ Harmful(u) = {})
  <2>1. sent[i].user = u
    OBVIOUS
  <2>2. Harmful(sent[i].user) = Harmful(u)
    BY <2>1
  <2> QED BY <2>1, <2>2 DEF Handle
<1>3. DeviceTypes'
  <2>1. row' \in users' \union {NoUser}
    BY <1>1
  <2>2. settled' \in BOOLEAN
    BY DEF Handle
  <2> QED BY <1>1, <2>1, <2>2
<1>4. LastRegisters'
  BY <1>1 DEF LastRegisters
<1>5. SettledHolds'
  <2>1. CASE settled
    <3>1. row = loggedIn /\ loggedIn \in users /\ loggedIn # NoUser
      BY <2>1, DevicesAssumption DEF SettledHolds
    <3>2. CASE i = Len(sent)
      <4>1. op = "register" /\ u = loggedIn
        BY <3>1, <3>2 DEF LastRegisters
      <4> QED BY <1>1, <2>1, <3>1, <4>1 DEF SettledHolds
    <3>3. CASE i # Len(sent)
      <4>1. i < Len(sent)
        BY <3>3
      <4>2. op = "remove" /\ u # loggedIn
        BY <2>1, <4>1 DEF SettledHolds
      <4> QED BY <1>1, <2>1, <3>1, <4>2 DEF SettledHolds
    <3> QED BY <3>2, <3>3
  <2>2. CASE settled' /\ ~settled
    <3>1. i = Len(sent) /\ loggedIn = u /\ u \in users /\ Harmful(u) = {}
      BY <1>2, <2>2
    <3>2. op = "register"
      BY <3>1, DevicesAssumption DEF LastRegisters
    <3>3. \A j \in flying : j < Len(sent) => sent[j].op = "remove" /\ sent[j].user # u
      <4>1. ASSUME NEW j \in flying, j < Len(sent) PROVE sent[j].op # "register" /\ sent[j].user # u
        BY <3>1, <4>1 DEF Harmful
      <4>2. \A j \in flying : sent[j] \in Message
        OBVIOUS
      <4> QED BY <4>1, <4>2 DEF Message
    <3> QED BY <1>1, <3>1, <3>2, <3>3 DEF SettledHolds
  <2> QED BY <2>1, <2>2 DEF SettledHolds
<1> QED BY <1>3, <1>4, <1>5

LEMMA DevicesInvStep == DevicesInv /\ [DevicesNext]_deviceVars => DevicesInv'
<1> SUFFICES ASSUME DevicesInv, [DevicesNext]_deviceVars PROVE DevicesInv'
  OBVIOUS
<1> USE DEF DevicesInv, DeviceTypes
<1>1. ASSUME NEW u \in User, NEW op \in {"register", "remove"}, Send(op, u),
             UNCHANGED <<users, row>>,
             loggedIn' = IF op = "register" THEN u ELSE NoUser
      PROVE  DevicesInv'
  <2> DEFINE request == [op |-> op, user |-> u]
  <2>a. request \in Message
    BY DEF Message
  <2> HIDE DEF request
  <2>1. /\ sent' = Append(sent, request) /\ sent' \in Seq(Message)
        /\ Len(sent') = Len(sent) + 1 /\ sent'[Len(sent')] = request
    BY <1>1, <2>a DEF Send, request
  <2>2. flying' \subseteq 1 .. Len(sent')
    <3>1. Len(sent) \in Nat /\ Len(sent') \in Nat /\ Len(sent') = Len(sent) + 1
      BY <2>1
    <3>2. \A i \in 1 .. Len(sent) : i \in 1 .. Len(sent')
      BY <3>1
    <3>3. Len(sent') \in 1 .. Len(sent')
      BY <3>1
    <3> QED BY <1>1, <3>2, <3>3 DEF Send
  <2>3. LastRegisters'
    BY <1>1, <2>1 DEF LastRegisters, request
  <2> QED BY <1>1, <2>1, <2>2, <2>3 DEF Send, SettledHolds
<1>2. ASSUME NEW u \in User, Login(u) PROVE DevicesInv'
  BY <1>1, <1>2 DEF Login
<1>3. CASE Logout
  BY <1>1, <1>3 DEF Logout
<1>4. ASSUME NEW i \in flying, Handle(i) PROVE DevicesInv'
  BY <1>4, HandleStep
<1>5. ASSUME NEW i \in flying, Lose(i) PROVE DevicesInv'
  BY <1>5 DEF Lose, LastRegisters, SettledHolds
<1>6. ASSUME NEW u \in User, DeleteOwner(u) PROVE DevicesInv'
  BY <1>6 DEF DeleteOwner, LastRegisters, SettledHolds
<1>7. CASE UNCHANGED deviceVars
  BY <1>7 DEF deviceVars, LastRegisters, SettledHolds
<1> QED BY <1>2, <1>3, <1>4, <1>5, <1>6, <1>7 DEF DevicesNext

\* Once it is settled, the token stays with the account logged in on the
\* device, whatever the app sends, in whatever order, and however often.
THEOREM SettledStaysAlways == DevicesSpec => []SettledStays
<1>1. DevicesInv => SettledStays
  BY DEF DevicesInv, DeviceTypes, SettledHolds, SettledStays
<1> QED BY <1>1, DevicesInvInit, DevicesInvStep, PTL DEF DevicesSpec
=============================================================================

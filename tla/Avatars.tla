------------------------------ MODULE Avatars ------------------------------
(***************************************************************************)
(* users.service.ts: one user's avatar, a file in uploads/avatars and its  *)
(* URL in the database, which change one after the other. File names are   *)
(* uuids, so users share nothing; a file is named by the order in which it *)
(* was saved. Each member of Call answers one request at a time.           *)
(***************************************************************************)
EXTENDS Integers, FiniteSets

CONSTANTS
  Call,          \* the requests that may be handled at once
  MaxFiles       \* bound: files ever saved

NoFile == 0
File == 1 .. MaxFiles

ASSUME AvatarAssumption == MaxFiles \in Nat

VARIABLES
  exists,        \* whether the user's row is there
  url,           \* User.avatarUrl: the file it names, or NoFile for null
  files,         \* the files on disk
  last,          \* the file saved last
  at,            \* Call -> where it stands
  own,           \* Call -> the file it has saved; NoFile when it removes
  read,          \* Call -> the URL it has read
  used           \* for the properties: the files a URL has named

calls == <<at, own, read>>
vars == <<exists, url, files, last, at, own, read, used>>

Init ==
  /\ exists = TRUE /\ url = NoFile /\ files = {} /\ last = 0
  /\ at = [c \in Call |-> "idle"]
  /\ own = [c \in Call |-> NoFile] /\ read = [c \in Call |-> NoFile]
  /\ used = {}

-----------------------------------------------------------------------------
Goto(c, label) == at' = [at EXCEPT ![c] = label]

\* The call is over.
End(c) ==
  /\ Goto(c, "idle")
  /\ own' = [own EXCEPT ![c] = NoFile] /\ read' = [read EXCEPT ![c] = NoFile]

\* A fixed name per user in the place of randomUUID.
SaveFixed(c) ==
  /\ at[c] = "idle" /\ Goto(c, "look") /\ MaxFiles > 0
  /\ files' = files \union {1} /\ own' = [own EXCEPT ![c] = 1] /\ last' = 1
  /\ UNCHANGED <<exists, url, read, used>>

\* updateAvatar: saveAvatarFile, of a picture that has been accepted.
Save(c) ==
  /\ at[c] = "idle" /\ Goto(c, "look") /\ last < MaxFiles
  /\ last' = last + 1 /\ files' = files \union {last + 1}
  /\ own' = [own EXCEPT ![c] = last + 1]
  /\ UNCHANGED <<exists, url, read, used>>

\* removeAvatar saves nothing.
AskRemove(c) ==
  /\ at[c] = "idle" /\ Goto(c, "look")
  /\ UNCHANGED <<exists, url, files, last, own, read, used>>

\* user.findUnique; a user who is gone has no avatar.
Look(c) ==
  /\ at[c] = "look" /\ Goto(c, "unlink")
  /\ read' = [read EXCEPT ![c] = url]
  /\ UNCHANGED <<exists, url, files, last, own, used>>

\* deleteLocalAvatarFile: an error is logged, and the call goes on.
Unlink(c) ==
  /\ at[c] = "unlink" /\ Goto(c, "set")
  /\ files' \in {files, files \ {read[c]}}
  /\ UNCHANGED <<exists, url, last, own, read, used>>

SetUrlBlindly(c) ==
  /\ at[c] = "set" /\ End(c)
  /\ url' = own[c] /\ used' = used \union ({own[c]} \ {NoFile})
  /\ UNCHANGED <<exists, files, last>>

\* user.update, which fails for a user who is gone.
SetUrl(c) ==
  /\ at[c] = "set" /\ End(c)
  /\ IF exists THEN url' = own[c] /\ used' = used \union ({own[c]} \ {NoFile})
               ELSE UNCHANGED <<url, used>>
  /\ UNCHANGED <<exists, files, last>>

\* deleteAccount; the file stays.
DeleteAccount ==
  /\ exists /\ exists' = FALSE /\ url' = NoFile
  /\ UNCHANGED <<files, last, calls, used>>

\* A query fails, or the API stops.
BreaksOff(c) ==
  /\ at[c] # "idle" /\ End(c)
  /\ UNCHANGED <<exists, url, files, last, used>>

-----------------------------------------------------------------------------
Step(c) == Look(c) \/ Unlink(c) \/ SetUrl(c)

Next ==
  \/ DeleteAccount
  \/ \E c \in Call : Save(c) \/ AskRemove(c) \/ Step(c) \/ BreaksOff(c)

\* A call that the API has begun goes on.
Fairness == \A c \in Call : WF_vars(Step(c))

Spec == Init /\ [][Next]_vars

Broken == url # NoFile /\ url \notin files

\* No call breaks off after it unlinked the file that the URL names.
UnbrokenNext == Next /\ ~\E c \in Call : at[c] = "set" /\ BreaksOff(c)

UnbrokenSpec == Init /\ [][UnbrokenNext]_vars /\ Fairness
-----------------------------------------------------------------------------
TypeOK ==
  /\ exists \in BOOLEAN /\ last \in 0 .. MaxFiles
  /\ files \subseteq 1 .. last /\ used \subseteq 1 .. last
  /\ url \in used \union {NoFile} /\ (~exists => url = NoFile)
  /\ at \in [Call -> {"idle", "look", "unlink", "set"}]
  /\ own \in [Call -> 0 .. last] /\ read \in [Call -> used \union {NoFile}]

\* The URL names a missing file only while a call that has unlinked it is
\* about to set another: concurrent uploads and removals, each deleting the
\* file it found and then writing its own URL, leave no broken link behind.
BrokenIsTransient ==
  Broken => \E c \in Call : at[c] = "set" /\ read[c] = url

\* A broken link does not stay.
LinkHeals == []<>~Broken

\* Whatever calls overlap, fail and break off, an avatar that was replaced or
\* removed never comes back, and every upload shows a picture of its own.
View ==
  INSTANCE AvatarView WITH
    Picture <- File, Blank <- NoFile,
    shown <- IF url \in files THEN url ELSE NoFile,
    past <- used \ (IF url \in files THEN {url} ELSE {})

ImplementsView == View!Spec
=============================================================================

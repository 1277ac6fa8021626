------------------------------ MODULE Timeouts ------------------------------
(***************************************************************************)
(* timeout.interceptor.ts in front of modules.service.ts: a request that   *)
(* takes too long is answered while its handler goes on. A user's client   *)
(* (external) saves one module at a time and waits for the answer.         *)
(***************************************************************************)
EXTENDS Library

VARIABLES
  told,          \* the calls whose client was answered that they are cancelled
  late           \* for the properties: the users whose saves were ever told so

timed == <<vars, told, late>>

TimedInit == Init /\ told = {} /\ late = {}

\* The users whose client waits for the answer to a save.
Saving(c) == At(c, "copy") \/ At(c, "insert")
Waiting == {call[c].user : c \in {c \in Call \ told : Saving(c)}}

\* The answer is the whole effect: the handler's promise is not cancelled.
TimeOut(c) ==
  /\ ~At(c, "idle") /\ c \notin told
  /\ told' = told \union {c}
  /\ late' = IF Saving(c) THEN late \union {call[c].user} ELSE late
  /\ UNCHANGED vars

\* The handlers' next statement, or a request of a client that is not waiting.
Handle ==
  /\ Next
  /\ \A c \in Call : At(c, "idle") /\ call'[c].at = "copy" => call'[c].user \notin Waiting
  /\ told' = {c \in told : call'[c] # Idle}
  /\ UNCHANGED late

TimedNext == Handle \/ \E c \in Call : TimeOut(c)

TimedSpec == TimedInit /\ [][TimedNext]_timed

-----------------------------------------------------------------------------
\* A user whose client waits for each answer, and was never told that a save
\* was cancelled, has one copy of a module, however often it saves it, and
\* whatever others edit, hide and delete meanwhile.
OneCopy == \A u \in User \ late, m \in There : Cardinality(Copies(u, m)) <= 1

\* "Request took too long and was cancelled": a request whose client was told
\* so changes nothing any more.
CancelledDoesNothing ==
  [][\A c \in told : call'[c] # call[c] => UNCHANGED <<users, module>>]_timed
=============================================================================

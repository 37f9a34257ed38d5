----------------------------- MODULE Submission -----------------------------
(***************************************************************************)
(* POST /jobs with an Idempotency-Key.  A caller, such as the form of the  *)
(* dashboard, that hears nothing asks again with the same key; the API has *)
(* its own view of the same requests, and finishes or dies in the middle   *)
(* of one whether or not the caller still listens.  Every request brings a *)
(* fresh job id, so a request and the id it would record are one thing.    *)
(***************************************************************************)
EXTENDS Naturals, FiniteSets

CONSTANTS
  Requests,        \* the requests there may be, each with its own randomUUID()
  Keys, NoKey,     \* what an Idempotency-Key may be, and a request without one
  Asks             \* what each may ask for, and under which key

\* A job type, the route of the receiver for a deliver_webhook, or a body that
\* isJobType or validatePayload refuses.
Kinds == {"sleep", "always_fail", "hook", "idempotent", "down", "slow", "flaky",
          "malformed"}

ASSUME SubmissionAssumption ==
  /\ Asks \in [Requests -> SUBSET [kind : Kinds, key : Keys \cup {NoKey}]]

VARIABLES
  asked,           \* the kind of job each request asks for, and its key
  handled,         \* how far the API is with each request
  named,           \* the job id the answer names, its own until another is found
  heard,           \* what the caller knows of each: nothing, an answer, a failure
  recorded         \* the ids in the jobs table; its rows are never deleted

submissionVars == <<asked, handled, named, heard, recorded>>

Handled == {"not yet", "received", "inserted", "conflict", "pushed", "found",
            "refused", "over"}
Heard == {"silent", "waiting", "job", "refused", "lost"}

SubmissionInit ==
  /\ asked \in [Requests -> UNION {Asks[r] : r \in Requests}]
  /\ \A r \in Requests : asked[r] \in Asks[r]
  /\ handled = [r \in Requests |-> "not yet"]
  /\ named = [r \in Requests |-> r]
  /\ heard = [r \in Requests |-> "silent"]
  /\ recorded = {}

\* At any time: another caller's, or the same caller's that has heard nothing.
Ask(r) ==
  /\ heard[r] = "silent"
  /\ heard' = [heard EXCEPT ![r] = "waiting"]
  /\ handled' = [handled EXCEPT ![r] = "received"]
  /\ UNCHANGED <<asked, named, recorded>>

\* 400 before anything is written.
Refuse(r) ==
  /\ handled[r] = "received"
  /\ asked[r].kind = "malformed"
  /\ handled' = [handled EXCEPT ![r] = "refused"]
  /\ UNCHANGED <<asked, named, heard, recorded>>

Untaken(r) == {}                                                   \* a mutant

\* The rows the unique index holds against this request; NULL conflicts with nothing.
Taken(r) == {i \in recorded : asked[i].key = asked[r].key /\ asked[r].key # NoKey}

\* INSERT ... ON CONFLICT (idempotency_key) DO NOTHING.
Insert(r) ==
  /\ handled[r] = "received"
  /\ asked[r].kind # "malformed"
  /\ \/ /\ Taken(r) = {}
        /\ recorded' = recorded \cup {r}
        /\ handled' = [handled EXCEPT ![r] = "inserted"]
     \/ /\ Taken(r) # {}
        /\ handled' = [handled EXCEPT ![r] = "conflict"]
        /\ UNCHANGED recorded
  /\ UNCHANGED <<asked, named, heard>>

NamesItself(r, i) == [named EXCEPT ![r] = r]                       \* a mutant

Naming(r, i) == [named EXCEPT ![r] = i]

\* SELECT ... WHERE idempotency_key: always finds the row that was in the way (the 409
\* is for a row deleted meanwhile, and no code deletes one).  Whether its id has been
\* pushed is not asked.
FindOriginal(r) ==
  /\ handled[r] = "conflict"
  /\ \E i \in Taken(r) : named' = Naming(r, i)
  /\ handled' = [handled EXCEPT ![r] = "found"]
  /\ UNCHANGED <<asked, heard, recorded>>

\* LPUSH; the queue itself is the composition's.
Push(r) ==
  /\ handled[r] = "inserted"
  /\ handled' = [handled EXCEPT ![r] = "pushed"]
  /\ UNCHANGED <<asked, named, heard, recorded>>

\* 202, 200 or 400, heard only by a caller that still waits.
Answer(r) ==
  /\ handled[r] \in {"pushed", "found", "refused"}
  /\ handled' = [handled EXCEPT ![r] = "over"]
  /\ heard' = IF heard[r] # "waiting" THEN heard
              ELSE [heard EXCEPT ![r] = IF handled[r] = "refused" THEN "refused" ELSE "job"]
  /\ UNCHANGED <<asked, named, recorded>>

\* The connection breaks, or the API dies at whatever it was doing: the caller
\* cannot tell which.
Disconnect(r) ==
  /\ heard[r] = "waiting"
  /\ heard' = [heard EXCEPT ![r] = "lost"]
  /\ UNCHANGED <<asked, handled, named, recorded>>

ApiDies(r) ==
  /\ handled[r] \in {"received", "inserted", "conflict", "pushed", "found"}
  /\ handled' = [handled EXCEPT ![r] = "over"]
  /\ heard' = IF heard[r] = "waiting" THEN [heard EXCEPT ![r] = "lost"] ELSE heard
  /\ UNCHANGED <<asked, named, recorded>>
=============================================================================

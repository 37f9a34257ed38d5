-------------------------------- MODULE Api ---------------------------------
(***************************************************************************)
(* The writing half of src/api/index.ts: POST /jobs and POST               *)
(* /jobs/:id/replay.  Both write Postgres first and push the id to Redis   *)
(* afterwards, so a request is either idle or between the two writes,      *)
(* which is where the API can die.  The reading endpoints change nothing.  *)
(***************************************************************************)
EXTENDS Stores

CONSTANT Requests      \* requests being served at the same time

VARIABLE api           \* api[r]: the id request r has recorded and not pushed

ApiTypeOK == api \in [Requests -> Jobs \cup {NoJob}]
ApiInit   == api = [r \in Requests |-> NoJob]

\* The INSERT of POST /jobs.  The id is fresh (randomUUID).
PushFirst(r, j) ==                                               \* a mutant
  /\ api[r] = NoJob
  /\ row[j].status = "none"
  /\ pending' = <<j>> \o pending
  /\ UNCHANGED <<postgres, processing, delayed, alive, budget, api>>

Submit(r, j) ==
  /\ api[r] = NoJob
  /\ row[j].status = "none"
  /\ row' = [row EXCEPT ![j] = InsertedRow]
  /\ api' = [api EXCEPT ![r] = j]
  /\ UNCHANGED <<effects, redis, budget>>

\* The UPDATE of POST /jobs/:id/replay.  A row that is not dead is answered
\* 404 or 409, which changes nothing.
ReplaysFinished(r) == r.status \in Terminal                     \* a mutant
Replayable(r) == r.status = "dead"

Replay(r, j) ==
  /\ api[r] = NoJob
  /\ Replayable(row[j])
  /\ Spend("replay")
  /\ row' = [row EXCEPT ![j] = ReplayedRow(@)]
  /\ api' = [api EXCEPT ![r] = j]
  /\ UNCHANGED <<effects, redis>>

\* The LPUSH both handlers end with.
Enqueue(r) ==
  /\ api[r] # NoJob
  /\ pending' = <<api[r]>> \o pending
  /\ api' = [api EXCEPT ![r] = NoJob]
  /\ UNCHANGED <<postgres, processing, delayed, alive, budget>>

\* The API dies, or the LPUSH fails, after the row was committed.
RequestDies(r) ==
  /\ api[r] # NoJob
  /\ Spend("apiCrash")
  /\ api' = [api EXCEPT ![r] = NoJob]
  /\ UNCHANGED <<postgres, redis>>

\* Time passes: row j gets older than ORPHAN_AGE_S.  A request takes
\* milliseconds and ORPHAN_AGE_S is at least 5 s, so a request that is still
\* open then is a disturbance of its own.
GrowOld(j) ==
  /\ Recorded(j)
  /\ ~row[j].old
  /\ Spend(IF \E r \in Requests : api[r] = j THEN "slow" ELSE "age")
  /\ row' = [row EXCEPT ![j].old = TRUE]
  /\ UNCHANGED <<effects, redis, api>>
=============================================================================

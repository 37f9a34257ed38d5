------------------------------- MODULE Roles --------------------------------
(***************************************************************************)
(* The three long-running processes as what a signal finds them doing:     *)
(* the worker's main loop with its semaphore and its drain                 *)
(* (src/worker/index.ts), the scheduler's loop and drain                   *)
(* (src/scheduler/index.ts), the API's open requests and its drain         *)
(* (src/api/index.ts), and the signal handler they share                   *)
(* (src/shared/shutdown.ts).  What a job or a pass does to the stores is   *)
(* the subject of QueueFlow; here a job only occupies a permit.            *)
(*                                                                         *)
(* Each process is one JavaScript thread: code between two awaits is one   *)
(* step.  Time is left out: a timeout may strike whenever what it waits    *)
(* for has not happened.                                                   *)
(***************************************************************************)
EXTENDS FiniteSets, Semaphore

CONSTANTS
  Workers, Schedulers, Servers,   \* the processes of each role
  MaxOpen                         \* bound: HTTP requests open at once

ASSUME RolesAssumption ==
  /\ Workers \cap Schedulers = {} /\ Workers \cap Servers = {}
  /\ Schedulers \cap Servers = {}
  /\ MaxOpen \in Nat

Processes == Workers \cup Schedulers \cup Servers
Signals   == {"SIGTERM", "SIGINT"}

VARIABLES
  life,       \* what has become of each process
  inbox,      \* signals sent to it and not delivered: equal ones merge
  semaphore,  \* a worker's slots
  loop,       \* where a worker's main loop is
  running,    \* how many executions of processOne() it has not awaited
  blocking,   \* the connection its BLMOVE uses
  drain,      \* where a worker's or a scheduler's drain() is
  alive,      \* the worker's heartbeat key in Redis
  pass,       \* a scheduler's loop
  open        \* requests an API process has not answered

workerVars == <<semaphore, loop, running, blocking, alive>>
roleVars   == <<life, inbox, workerVars, drain, pass, open>>

\* "off": not started; "boot": no signal handler yet; "up"; "draining"; "stuck":
\* its thread no longer turns.  The rest are endings: exit 0 after a drain
\* ("drained"; "gaveUp" with jobs running), exit 1 by a second signal
\* ("impatient") or by an error ("failed"), and killed by SIGTERM or SIGINT
\* before the handler existed ("signalled") or by SIGKILL ("killed").
Endings == {"drained", "gaveUp", "impatient", "failed", "signalled", "killed"}
Lives   == {"off", "boot", "up", "draining", "stuck"} \cup Endings

RolesTypeOK ==
  /\ life \in [Processes -> Lives]
  /\ inbox \in [Processes -> SUBSET Signals]
  /\ semaphore \in [Workers -> Semaphores({"main"})]
  /\ loop \in [Workers -> {"none", "parked", "blmove", "discard", "left"}]
  /\ running \in [Workers -> 0 .. Capacity]
  /\ blocking \in [Workers -> {"open", "closing", "closed"}]
  /\ drain \in [Workers \cup Schedulers -> {"none", "loop", "poll", "quit"}]
  /\ alive \in [Workers -> BOOLEAN]
  /\ pass \in [Schedulers -> {"none", "working", "sleeping", "left"}]
  /\ open \in [Servers -> 0 .. MaxOpen]

RolesInit ==
  /\ life = [c \in Processes |-> "off"]
  /\ inbox = [c \in Processes |-> {}]
  /\ semaphore = [w \in Workers |-> Fresh]
  /\ loop = [w \in Workers |-> "none"]
  /\ running = [w \in Workers |-> 0]
  /\ blocking = [w \in Workers |-> "open"]
  /\ drain = [c \in Workers \cup Schedulers |-> "none"]
  /\ alive = [w \in Workers |-> FALSE]
  /\ pass = [d \in Schedulers |-> "none"]
  /\ open = [a \in Servers |-> 0]

Gone(c)     == life[c] \in Endings
Turning(c)  == life[c] \in {"up", "draining"}
Stopping(c) == life[c] = "draining"       \* the flag `stopping`

\* The processes are no more: what they had in memory and what was sent to
\* them is lost, the jobs and requests they had open with it.
ReplaceIn(f, some, v) == [c \in DOMAIN f |-> IF c \in some THEN v ELSE f[c]]

End(some, ending) ==
  /\ life' = ReplaceIn(life, some, ending)
  /\ inbox' = ReplaceIn(inbox, some, {})
  /\ semaphore' = ReplaceIn(semaphore, some, Fresh)
  /\ loop' = ReplaceIn(loop, some, "none")
  /\ running' = ReplaceIn(running, some, 0)
  /\ blocking' = ReplaceIn(blocking, some, "open")
  /\ drain' = ReplaceIn(drain, some, "none")
  /\ pass' = ReplaceIn(pass, some, "none")
  /\ open' = ReplaceIn(open, some, 0)
  /\ UNCHANGED alive

-----------------------------------------------------------------------------
(* The worker's main loop.                                                 *)

NeverWaits(w, s) ==                                              \* a mutant
  /\ loop' = [loop EXCEPT ![w] = IF Stopping(w) THEN "left" ELSE "blmove"]
  /\ semaphore' = [semaphore EXCEPT ![w] = [s EXCEPT !.available = IF @ > 0 THEN @ - 1 ELSE 0]]

\* The top of the loop: leave it, or acquire a permit and issue the BLMOVE.
\* s is the semaphore as the turn before left it.
Turn(w, s) ==
  IF Stopping(w)
  THEN /\ loop' = [loop EXCEPT ![w] = "left"]
       /\ semaphore' = [semaphore EXCEPT ![w] = s]
  ELSE /\ loop' = [loop EXCEPT ![w] = IF s.available > 0 THEN "blmove" ELSE "parked"]
       /\ semaphore' = [semaphore EXCEPT ![w] = Acquire(s, "main")]

\* The first beat was answered: register the handlers and enter the loop.
StartWorking(w) ==
  /\ life[w] = "boot"
  /\ alive[w]
  /\ life' = [life EXCEPT ![w] = "up"]
  /\ Turn(w, semaphore[w])
  /\ UNCHANGED <<inbox, running, blocking, alive, drain, pass, open>>

FirstBeat(w) ==
  /\ life[w] = "boot"
  /\ ~alive[w]
  /\ alive' = [alive EXCEPT ![w] = TRUE]
  /\ UNCHANGED <<life, inbox, semaphore, loop, running, blocking, drain, pass, open>>

\* The BLMOVE answers with an id.  disconnect() does not unsay an answer that
\* is on its way, so a job may still start while the worker is stopping.
TakeJob(w) ==
  /\ Turning(w)
  /\ loop[w] = "blmove"
  /\ blocking[w] # "closed"
  /\ running' = [running EXCEPT ![w] = @ + 1]
  /\ Turn(w, semaphore[w])
  /\ UNCHANGED <<life, inbox, blocking, alive, drain, pass, open>>

\* ... or with something that is no UUID, which is removed first.
TakeJunk(w) ==
  /\ Turning(w)
  /\ loop[w] = "blmove"
  /\ blocking[w] # "closed"
  /\ loop' = [loop EXCEPT ![w] = "discard"]
  /\ UNCHANGED <<life, inbox, semaphore, running, blocking, alive, drain, pass, open>>

Discarded(w) ==
  /\ Turning(w)
  /\ loop[w] = "discard"
  /\ Turn(w, Release(semaphore[w]))
  /\ UNCHANGED <<life, inbox, running, blocking, alive, drain, pass, open>>

\* The BLMOVE is rejected because drain() has closed its connection.
BlmoveRejected(w) ==
  /\ Turning(w)
  /\ loop[w] = "blmove"
  /\ blocking[w] = "closed"
  /\ semaphore' = [semaphore EXCEPT ![w] = Release(@)]
  /\ loop' = [loop EXCEPT ![w] = "left"]
  /\ UNCHANGED <<life, inbox, running, blocking, alive, drain, pass, open>>

\* An execution ends, whatever came of it; .finally() gives its permit to the
\* loop if the loop is parked, which then issues its BLMOVE.
JobEnds(w) ==
  /\ Turning(w)
  /\ running[w] > 0
  /\ running' = [running EXCEPT ![w] = @ - 1]
  /\ semaphore' = [semaphore EXCEPT ![w] = Release(@)]
  /\ loop' = [loop EXCEPT ![w] = IF semaphore[w].waiting # <<>> THEN "blmove" ELSE @]
  /\ UNCHANGED <<life, inbox, blocking, alive, drain, pass, open>>

-----------------------------------------------------------------------------
(* The worker's drain().                                                   *)

ConnectionCloses(w) ==
  /\ Turning(w)
  /\ blocking[w] = "closing"
  /\ blocking' = [blocking EXCEPT ![w] = "closed"]
  /\ UNCHANGED <<life, inbox, semaphore, loop, running, alive, drain, pass, open>>

\* Promise.race([loopExit, 1 s]): it goes on whether the loop has left or not.
StopWaitingForLoop(w) ==
  /\ Stopping(w)
  /\ drain[w] = "loop"
  /\ drain' = [drain EXCEPT ![w] = "poll"]
  /\ UNCHANGED <<life, inbox, workerVars, pass, open>>

\* Nothing is in flight: stop the heartbeat, DEL its key.
AnyTime(w)  == drain[w] = "poll"                                 \* a mutant
Drained(w)  == drain[w] = "poll" /\ HeldPermits(semaphore[w]) = 0

DeleteHeartbeat(w) ==
  /\ Stopping(w)
  /\ Drained(w)
  /\ alive' = [alive EXCEPT ![w] = FALSE]
  /\ drain' = [drain EXCEPT ![w] = "quit"]
  /\ UNCHANGED <<life, inbox, semaphore, loop, running, blocking, pass, open>>

\* SHUTDOWN_TIMEOUT_MS is over: the heartbeat stays and expires by itself.
GiveUp(w) ==
  /\ Stopping(w)
  /\ drain[w] = "poll"
  /\ HeldPermits(semaphore[w]) > 0
  /\ drain' = [drain EXCEPT ![w] = "quit"]
  /\ UNCHANGED <<life, inbox, workerVars, pass, open>>

WorkerExits(w) ==
  /\ Stopping(w)
  /\ drain[w] = "quit"
  /\ End({w}, IF alive[w] THEN "gaveUp" ELSE "drained")

\* The heartbeat of a process that is gone runs out.
Expire(w) ==
  /\ Gone(w)
  /\ alive[w]
  /\ alive' = [alive EXCEPT ![w] = FALSE]
  /\ UNCHANGED <<life, inbox, semaphore, loop, running, blocking, drain, pass, open>>

-----------------------------------------------------------------------------
(* The scheduler.                                                          *)

StartScheduling(d) ==
  /\ life[d] = "boot"
  /\ life' = [life EXCEPT ![d] = "up"]
  /\ pass' = [pass EXCEPT ![d] = "working"]
  /\ UNCHANGED <<inbox, workerVars, drain, open>>

\* promoteDue() and the recovery pass are done.  Having promoted nothing it
\* sleeps; then it looks at `stopping` and goes round again or leaves.
PassEnds(d) ==
  LET passing == pass[d] = "working" /\ drain[d] # "quit" IN
  /\ Turning(d)
  /\ \/ passing /\ pass' = [pass EXCEPT ![d] = "sleeping"]
     \/ /\ passing \/ pass[d] = "sleeping"
        /\ pass' = [pass EXCEPT ![d] = IF Stopping(d) THEN "left" ELSE "working"]
  /\ UNCHANGED <<life, inbox, workerVars, drain, open>>

\* Promise.race([loopExit, 5 s])
SchedulerQuits(d) ==
  /\ Stopping(d)
  /\ drain[d] = "loop"
  /\ drain' = [drain EXCEPT ![d] = "quit"]
  /\ UNCHANGED <<life, inbox, workerVars, pass, open>>

SchedulerExits(d) ==
  /\ Stopping(d)
  /\ drain[d] = "quit"
  /\ End({d}, IF pass[d] = "left" THEN "drained" ELSE "gaveUp")

\* The connections were closed underneath a pass: its next call throws.
PassFails(d) ==
  /\ Stopping(d)
  /\ drain[d] = "quit"
  /\ pass[d] = "working"
  /\ End({d}, "failed")

-----------------------------------------------------------------------------
(* The API.                                                                *)

StartServing(a) ==
  /\ life[a] = "boot"
  /\ life' = [life EXCEPT ![a] = "up"]
  /\ UNCHANGED <<inbox, workerVars, drain, pass, open>>

\* server.close() accepts no new connection.
RequestArrives(a) ==
  /\ life[a] = "up"
  /\ open[a] < MaxOpen
  /\ open' = [open EXCEPT ![a] = @ + 1]
  /\ UNCHANGED <<life, inbox, workerVars, drain, pass>>

RequestEnds(a) ==
  /\ Turning(a)
  /\ open[a] > 0
  /\ open' = [open EXCEPT ![a] = @ - 1]
  /\ UNCHANGED <<life, inbox, workerVars, drain, pass>>

\* server.close() has called back, with no time limit.
ServerExits(a) ==
  /\ Stopping(a)
  /\ open[a] = 0
  /\ End({a}, "drained")

-----------------------------------------------------------------------------
(* Signals and failures.                                                   *)

\* onShutdown(): the first signal starts drain() and runs it up to its first
\* await.  A worker disconnects its BLMOVE; a scheduler sets its flag.
BeginDrain(c, s) ==
  /\ life[c] = "up"
  /\ s \in inbox[c]
  /\ inbox' = [inbox EXCEPT ![c] = @ \ {s}]
  /\ life' = [life EXCEPT ![c] = "draining"]
  /\ drain' = [x \in DOMAIN drain |-> IF x = c THEN "loop" ELSE drain[x]]
  /\ blocking' = [w \in Workers |-> IF w = c THEN "closing" ELSE blocking[w]]
  /\ UNCHANGED <<semaphore, loop, running, alive, pass, open>>

\* ... the second one exits at once.
SecondSignal(c, s) ==
  /\ life[c] = "draining"
  /\ s \in inbox[c]
  /\ End({c}, "impatient")

\* No handler is registered yet: the default action of the signal.
KilledAtBoot(c, s) ==
  /\ life[c] = "boot"
  /\ s \in inbox[c]
  /\ End({c}, "signalled")

\* The process ends by itself: main() throws, or the machine kills it.
Dies(c, ending) ==
  /\ life[c] \in {"boot", "up", "draining"}
  /\ ending \in {"failed", "killed"}
  /\ End({c}, ending)

\* Its thread blocks for good (or a request of an API never ends).
Sticks(c) ==
  /\ Turning(c)
  /\ life' = [life EXCEPT ![c] = "stuck"]
  /\ UNCHANGED <<inbox, workerVars, drain, pass, open>>

\* What the process does unasked, and what it does once it is stopping.
WorkerTurns(w) ==
  \/ FirstBeat(w) \/ StartWorking(w)
  \/ TakeJob(w) \/ TakeJunk(w) \/ Discarded(w) \/ JobEnds(w)

WorkerStops(w) ==
  \/ BlmoveRejected(w) \/ ConnectionCloses(w) \/ StopWaitingForLoop(w)
  \/ DeleteHeartbeat(w) \/ GiveUp(w) \/ WorkerExits(w)

SchedulerTurns(d) == StartScheduling(d) \/ PassEnds(d)
SchedulerStops(d) == SchedulerQuits(d) \/ SchedulerExits(d) \/ PassFails(d)

ServerTurns(a) == StartServing(a) \/ RequestArrives(a) \/ RequestEnds(a)

HandlesSignal(c) ==
  \E s \in Signals : BeginDrain(c, s) \/ SecondSignal(c, s) \/ KilledAtBoot(c, s)
=============================================================================

----------------------------- MODULE Supervisor -----------------------------
(***************************************************************************)
(* The two programs that start processes and wait for them: src/start.ts,  *)
(* which migrates and then runs one API, one worker and one scheduler in a *)
(* container, and src/dev/workers.ts, which runs N workers in a terminal.  *)
(* A parent learns that a child has ended from its 'exit' event, later     *)
(* than it ends.                                                           *)
(***************************************************************************)
EXTENDS Roles

CONSTANTS
  Team,       \* the children of each kind of parent
  Budget,     \* bound: how many of each Cause may happen
  Together    \* bound: how many different ones in one behaviour

Kinds  == {"start", "launcher"}
Causes == { "stop",      \* SIGTERM to the parent: docker stop, kill
            "terminal",  \* Ctrl+C in the launcher's terminal
            "stray",     \* SIGTERM to one child only
            "crash",     \* a child ends by itself
            "stick" }    \* a child's thread, or a request to it, hangs

ASSUME TeamAssumption ==
  /\ Team \in [Kinds -> SUBSET Processes]
  /\ Team["launcher"] \subseteq Workers
ASSUME BudgetAssumption == Budget \in [Causes -> Nat] /\ Together \in Nat

VARIABLES
  kind,      \* which of the two the parent is
  parent,    \* what it is doing
  mail,      \* signals sent to it and not delivered
  noticed,   \* children whose 'exit' event it has had
  code,      \* the code it will exit with
  budget     \* the causes that are left

parentVars == <<kind, parent, mail, noticed, code>>
vars == <<roleVars, parentVars, budget>>

Children == {c \in Team[kind] : life[c] # "off"}
Living   == {c \in Children : ~Gone(c)}

TypeOK ==
  /\ RolesTypeOK
  /\ kind \in Kinds
  /\ parent \in {"migrating", "watching", "stopping", "gone"}
  /\ mail \subseteq Signals
  /\ noticed \subseteq Processes
  /\ code \in {0, 1}
  /\ budget \in [Causes -> Nat]

\* dev/workers.ts spawns its workers in the same turn it starts in.
Init ==
  /\ RolesInit
  /\ kind \in Kinds
  /\ parent = "migrating"
  /\ mail = {} /\ noticed = {} /\ code = 0
  /\ budget = Budget

Spent(cause)  == budget[cause] < Budget[cause]
SpentIn(some) == {k \in some : Spent(k)}

\* Of these causes at most one has struck, and that one once.
AtMostOneOf(some) ==
  \A k \in some : Spent(k) =>
    budget[k] = Budget[k] - 1 /\ \A m \in some \ {k} : ~Spent(m)

Spend(cause) ==
  /\ budget[cause] > 0
  /\ Cardinality(SpentIn(Causes) \cup {cause}) <= Together
  /\ budget' = [budget EXCEPT ![cause] = @ - 1]

Send(s, to) == [c \in Processes |-> IF c \in to /\ ~Gone(c) THEN inbox[c] \cup {s} ELSE inbox[c]]

-----------------------------------------------------------------------------
\* The migration has ended with 0, or there is none: startRoles().
SpawnChildren ==
  /\ parent = "migrating"
  /\ parent' = "watching"
  /\ life' = [c \in Processes |-> IF c \in Team[kind] THEN "boot" ELSE life[c]]
  /\ UNCHANGED <<inbox, workerVars, drain, pass, open, kind, mail, noticed, code, budget>>

MigrationFails ==
  /\ kind = "start"
  /\ parent = "migrating"
  /\ parent' = "gone"
  /\ code' = 1
  /\ UNCHANGED <<roleVars, kind, mail, noticed, budget>>

\* start.ts: stop(signal).then(() => process.exit(0)).  stop() forwards the
\* signal and waits; called again it returns at once, and the exit follows.
StartHandles(s) ==
  /\ kind = "start"
  /\ parent # "gone"
  /\ s \in mail
  /\ mail' = mail \ {s}
  /\ IF parent = "watching"
     THEN parent' = "stopping" /\ inbox' = Send(s, Children)
     ELSE parent' = "gone" /\ UNCHANGED inbox
  /\ code' = 0
  /\ UNCHANGED <<life, workerVars, drain, pass, open, kind, noticed, budget>>

\* dev/workers.ts: every signal is answered with SIGTERM to every child.
LauncherHandles(s) ==
  /\ kind = "launcher"
  /\ parent \in {"watching", "stopping"}
  /\ s \in mail
  /\ mail' = mail \ {s}
  /\ parent' = "stopping"
  /\ inbox' = Send("SIGTERM", Children)
  /\ UNCHANGED <<life, workerVars, drain, pass, open, kind, noticed, code, budget>>

\* wasSignalled(): a child that died of SIGTERM or SIGINT did not crash.
NobodyCrashes(c) == FALSE                                        \* a mutant
Unexpected(c) == life[c] # "signalled"

NoticeAlways(c) ==                                               \* a mutant
  LET crashed == kind = "start" /\ Unexpected(c) IN
  /\ parent \in {"watching", "stopping"}
  /\ c \in Children \ noticed
  /\ Gone(c)
  /\ noticed' = noticed \cup {c}
  /\ IF crashed
     THEN parent' = "stopping" /\ code' = 1 /\ inbox' = Send("SIGTERM", Children)
     ELSE UNCHANGED <<parent, code, inbox>>
  /\ UNCHANGED <<life, workerVars, drain, pass, open, kind, mail, budget>>

\* The 'exit' event of a child.  In start.ts one that was not expected stops
\* the others, to exit with 1 for the platform to restart the container.
Notice(c) ==
  LET crashed == kind = "start" /\ parent = "watching" /\ Unexpected(c) IN
  /\ parent \in {"watching", "stopping"}
  /\ c \in Children \ noticed
  /\ Gone(c)
  /\ noticed' = noticed \cup {c}
  /\ IF crashed
     THEN parent' = "stopping" /\ code' = 1 /\ inbox' = Send("SIGTERM", Children)
     ELSE UNCHANGED <<parent, code, inbox>>
  /\ UNCHANGED <<life, workerVars, drain, pass, open, kind, mail, budget>>

\* Every child's exit has been seen: stop() resolves, `left` is 0, or nothing
\* keeps the event loop alive any more.
SomeLeft == noticed # {}                                         \* a mutant
AllLeft  == Children \subseteq noticed

ExitsWithZero ==                                                 \* a mutant
  /\ parent \in {"watching", "stopping"}
  /\ AllLeft
  /\ parent' = "gone"
  /\ code' = 0
  /\ UNCHANGED <<roleVars, kind, mail, noticed, budget>>

ParentExits ==
  /\ parent \in {"watching", "stopping"}
  /\ AllLeft
  /\ parent' = "gone"
  /\ UNCHANGED <<roleVars, kind, mail, noticed, code, budget>>

\* dev/workers.ts: 30 s, longer than a worker's own drain can take, so only a
\* child that hangs is still there.
Backstop ==
  /\ kind = "launcher"
  /\ parent = "stopping"
  /\ \E c \in Children : life[c] = "stuck"
  /\ End(Living, "killed")
  /\ parent' = "gone"
  /\ code' = 1
  /\ UNCHANGED <<kind, mail, noticed, budget>>

-----------------------------------------------------------------------------
(* Causes: what happens to the tree from outside.                          *)

StopParent ==
  /\ parent # "gone"
  /\ Spend("stop")
  /\ mail' = mail \cup {"SIGTERM"}
  /\ UNCHANGED <<roleVars, kind, parent, noticed, code>>

\* The terminal sends SIGINT to the parent and to its children alike.
CtrlC ==
  /\ kind = "launcher"
  /\ parent # "gone"
  /\ Spend("terminal")
  /\ mail' = mail \cup {"SIGINT"}
  /\ inbox' = Send("SIGINT", Children)
  /\ UNCHANGED <<life, workerVars, drain, pass, open, kind, parent, noticed, code>>

StopChild(c) ==
  /\ c \in Living
  /\ Spend("stray")
  /\ inbox' = Send("SIGTERM", {c})
  /\ UNCHANGED <<life, workerVars, drain, pass, open, parentVars>>

ChildDies(c) ==
  /\ c \in Living
  /\ Spend("crash")
  /\ Dies(c, "failed") \/ Dies(c, "killed")
  /\ UNCHANGED parentVars

ChildSticks(c) ==
  /\ c \in Living
  /\ Spend("stick")
  /\ Sticks(c)
  /\ UNCHANGED parentVars

-----------------------------------------------------------------------------
ChildStep(c) ==
  \/ /\ c \in Workers /\ (WorkerTurns(c) \/ WorkerStops(c) \/ Expire(c))
     /\ UNCHANGED <<parentVars, budget>>
  \/ c \in Schedulers /\ (SchedulerTurns(c) \/ SchedulerStops(c))
     /\ UNCHANGED <<parentVars, budget>>
  \/ c \in Servers /\ (ServerTurns(c) \/ ServerExits(c)) /\ UNCHANGED <<parentVars, budget>>
  \/ HandlesSignal(c) /\ UNCHANGED <<parentVars, budget>>

ParentStep ==
  \/ SpawnChildren \/ MigrationFails
  \/ \E s \in Signals : StartHandles(s) \/ LauncherHandles(s)
  \/ \E c \in Processes : Notice(c)
  \/ ParentExits \/ Backstop

Cause ==
  \/ StopParent \/ CtrlC
  \/ \E c \in Processes : StopChild(c) \/ ChildDies(c) \/ ChildSticks(c)

Next == (\E c \in Processes : ChildStep(c)) \/ ParentStep \/ Cause

Spec == Init /\ [][Next]_vars

\* Every process keeps running its event loop until it hangs or ends: timers
\* fire, closed connections report, jobs and requests end, signals and exits
\* are delivered.  Nothing makes a job or a request arrive, or a pass begin.
Alone(A) == A /\ UNCHANGED <<parentVars, budget>>
Fairness ==
  /\ \A w \in Workers :
       /\ WF_vars(Alone(FirstBeat(w))) /\ WF_vars(Alone(StartWorking(w)))
       /\ WF_vars(Alone(Discarded(w))) /\ WF_vars(Alone(JobEnds(w)))
       /\ WF_vars(Alone(BlmoveRejected(w))) /\ WF_vars(Alone(ConnectionCloses(w)))
       /\ WF_vars(Alone(StopWaitingForLoop(w)))
       /\ WF_vars(Alone(DeleteHeartbeat(w) \/ GiveUp(w)))
       /\ WF_vars(Alone(WorkerExits(w)))
  /\ \A d \in Schedulers : WF_vars(Alone(SchedulerStops(d)))
  /\ \A a \in Servers :
       WF_vars(Alone(RequestEnds(a))) /\ WF_vars(Alone(ServerExits(a)))
  /\ \A c \in Processes : WF_vars(Alone(HandlesSignal(c))) /\ WF_vars(Notice(c))
  /\ WF_vars(SpawnChildren \/ MigrationFails)
  /\ \A s \in Signals : WF_vars(StartHandles(s) \/ LauncherHandles(s))
  /\ WF_vars(ParentExits) /\ WF_vars(Backstop)

FairSpec == Spec /\ Fairness

-----------------------------------------------------------------------------
\* A permit is out for every execution and for the loop when it is between
\* acquire() and the answer to its BLMOVE, and for nothing else: what drain()
\* reads as "in flight" is in flight (semaphore.ts:28-35, worker/index.ts:404-405).
PermitsConserved ==
  \A w \in Workers :
    HeldPermits(semaphore[w]) = running[w] + (IF loop[w] \in {"blmove", "discard"} THEN 1 ELSE 0)

\* A worker is never without a heartbeat while it runs a job or may still be
\* handed one, so no reaper robs it, booting, working or draining
\* (worker/index.ts:284-285, 329-330).
UnattendedIsIdle ==
  \A w \in Workers :
    life[w] \in {"boot", "up", "draining"} /\ ~alive[w] =>
      running[w] = 0 /\ loop[w] \in {"none", "left"}

\* The parent is the last to leave, whatever single thing brings the tree
\* down: it does not exit while a child drains (start.ts:72, dev/workers.ts:65-69).
ParentLeavesLast ==
  parent = "gone" /\ AtMostOneOf(Causes \ {"stick"}) => Living = {}

\* A role lost for no signal of ours is reported to the platform: the exit
\* code that makes it restart the container, and no other, unless a stop came
\* as well (start.ts:60-67).
CrashIsReported ==
  /\ kind = "start" /\ parent = "gone"
  /\ SpentIn({"stop", "terminal"}) = {}
  /\ \E c \in Team[kind] : life[c] \in Endings \ {"signalled"}
  => code = 1

\* A process is only told to hurry by a second request to stop: one signal to
\* the parent, or one crash, lets every job in flight be drained
\* (dev/workers.ts:65-69 "Workers now drain their in-flight jobs first").
\* Ctrl+C is no such stop: the terminal's SIGINT and the launcher's SIGTERM
\* are two signals to each worker.
OneStopIsPatient ==
  AtMostOneOf(Causes \ {"stick"}) /\ ~Spent("terminal")
    => \A c \in Processes : life[c] # "impatient"

\* A tree that is being stopped, or has lost a role, is gone in the end.  Only
\* start.ts waits without a limit, so a role that hangs may keep it.
Hangs == kind = "start" /\ \E c \in Children : life[c] = "stuck"
RoleLost == kind = "start" /\ \E c \in Children : life[c] \in Endings \ {"signalled"}

TreeComesDown ==
  parent = "stopping" \/ RoleLost ~> (parent = "gone" /\ Living = {}) \/ Hangs
=============================================================================

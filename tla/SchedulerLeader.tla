--------------------------- MODULE SchedulerLeader ---------------------------
(***************************************************************************)
(* backend/src/scheduler/leader.ts, runner.ts and index.ts: replicas that  *)
(* elect the runner of the periodic jobs with a session-level advisory     *)
(* lock of Postgres.  A tick is asynchronous: setInterval starts the next  *)
(* one whether or not the last has come back, so several may be in flight  *)
(* in one replica, sharing its module variables.  Each action is one       *)
(* database call and the code up to the next await.                        *)
(***************************************************************************)
EXTENDS Integers, FiniteSets

CONSTANTS
    Replicas,
    Jobs,
    Ticks,      \* how many ticks of a replica may be in flight: a set of slots
    Clients,    \* the connections of a replica's pool
    Failures,   \* the failures that may happen, see FailureKinds
    MaxFaults   \* bound on their number

FailureKinds == {"connect", "lose", "crash", "shutdown"}
NoClient == "none"

ASSUME LeaderAssumption ==
    /\ NoClient \notin Clients
    /\ Failures \subseteq FailureKinds /\ MaxFaults \in Nat

VARIABLES
    lock,          \* Postgres: the session that holds the advisory lock, in a set
    client,        \* pool: whether each connection is idle, out or lost
    isLeader,      \* leader.ts, module variables
    leaderClient,
    tick,          \* the ticks in flight: where they wait and on which client
    inFlight,      \* runner.ts: jobs marked as running
    runs,          \* executions of each job's handler
    stopping,      \* replicas that got a signal and have not exited yet
    severed,       \* history: those that lost a connection or were told to stop
                   \* since they started
    faults

leaderVars == <<isLeader, leaderClient>>
jobVars == <<inFlight, runs>>
vars == <<lock, client, leaderVars, tick, jobVars, stopping, severed, faults>>

Idle == [pc |-> "idle", on |-> NoClient]

Init ==
    /\ lock = {}
    /\ client = [r \in Replicas |-> [c \in Clients |-> "idle"]]
    /\ isLeader = [r \in Replicas |-> FALSE]
    /\ leaderClient = [r \in Replicas |-> NoClient]
    /\ tick = [r \in Replicas |-> [t \in Ticks |-> Idle]]
    /\ inFlight = [r \in Replicas |-> {}]
    /\ runs = [r \in Replicas |-> [j \in Jobs |-> 0]]
    /\ stopping = {} /\ severed = {}
    /\ faults = 0

SetClient(r, c, state) == client' = [client EXCEPT ![r][c] = state]
SetTick(r, t, state) == tick' = [tick EXCEPT ![r][t] = state]
\* Mutant: the client whose session took the lock is not remembered.
LeadUnremembered(r, c) ==
    /\ isLeader' = [isLeader EXCEPT ![r] = TRUE]
    /\ UNCHANGED leaderClient

Lead(r, c) ==
    /\ isLeader' = [isLeader EXCEPT ![r] = TRUE]
    /\ leaderClient' = [leaderClient EXCEPT ![r] = c]
Follow(r) == isLeader' = [isLeader EXCEPT ![r] = FALSE]
Fault(kind) == kind \in Failures /\ faults < MaxFaults /\ faults' = faults + 1
-----------------------------------------------------------------------------
(* runner.ts.                                                              *)

\* Mutant: a job in flight is started again.
FireRegardless(r) ==
    \E due \in SUBSET Jobs :
        /\ inFlight' = [inFlight EXCEPT ![r] = @ \union due]
        /\ runs' = [runs EXCEPT ![r] = [j \in Jobs |-> @[j] + IF j \in due THEN 1 ELSE 0]]

\* tick and runJob: the due jobs (any, time being free) start, except those
\* still in flight.
FireDue(r) ==
    \E due \in SUBSET Jobs :
        /\ inFlight' = [inFlight EXCEPT ![r] = @ \union due]
        /\ runs' = [runs EXCEPT ![r] =
             [j \in Jobs |-> @[j] + IF j \in due \ inFlight[r] THEN 1 ELSE 0]]

JobEnds(r, j) ==
    /\ runs[r][j] > 0
    /\ runs' = [runs EXCEPT ![r][j] = @ - 1]
    /\ inFlight' = [inFlight EXCEPT ![r] = @ \ {j}]
    /\ UNCHANGED <<lock, client, leaderVars, tick, stopping, severed, faults>>

\* The interval fires; ensureLeadership begins.
StartTick(r, t) ==
    /\ r \notin stopping /\ tick[r][t] = Idle
    /\ SetTick(r, t,
         IF ~isLeader[r] \/ leaderClient[r] = NoClient
         THEN [pc |-> "connect", on |-> NoClient]
         ELSE [pc |-> IF client[r][leaderClient[r]] = "lost" THEN "broken" ELSE "verify",
               on |-> leaderClient[r]])
    /\ UNCHANGED <<lock, client, leaderVars, jobVars, stopping, severed, faults>>
-----------------------------------------------------------------------------
(* leader.ts.                                                              *)

\* SELECT 1 answers: still the leader.
Verify(r, t) ==
    /\ tick[r][t].pc = "verify"
    /\ SetTick(r, t, Idle)
    /\ FireDue(r)
    /\ UNCHANGED <<lock, client, leaderVars, stopping, severed, faults>>

\* SELECT 1 fails: whatever client is the leader's by now is released (the
\* pool drops a lost one and keeps another), and the tick goes on to acquire.
Demote(r, t) ==
    /\ tick[r][t].pc = "broken"
    /\ client' = [client EXCEPT ![r] = [c \in Clients |->
                     IF c = leaderClient[r] THEN "idle" ELSE @[c]]]
    /\ leaderClient' = [leaderClient EXCEPT ![r] = NoClient]
    /\ Follow(r)
    /\ SetTick(r, t, [pc |-> "connect", on |-> NoClient])
    /\ UNCHANGED <<lock, jobVars, stopping, severed, faults>>

Connect(r, t, c) ==
    /\ tick[r][t].pc = "connect" /\ client[r][c] = "idle"
    /\ SetClient(r, c, "out")
    /\ SetTick(r, t, [pc |-> "lock", on |-> c])
    /\ UNCHANGED <<lock, leaderVars, jobVars, stopping, severed, faults>>

ConnectFails(r, t) ==
    /\ tick[r][t].pc = "connect"
    /\ Fault("connect")
    /\ Follow(r)
    /\ SetTick(r, t, Idle)
    /\ UNCHANGED <<lock, client, leaderClient, jobVars, stopping, severed>>

\* Mutant: the lock is taken whoever holds it.
LockAnyway(r, t) ==
    LET c == tick[r][t].on
    IN /\ tick[r][t].pc = "lock" /\ client[r][c] # "lost"
       /\ lock' = {<<r, c>>}
       /\ Lead(r, c)
       /\ SetTick(r, t, Idle)
       /\ FireDue(r)
       /\ UNCHANGED <<client, stopping, severed, faults>>

\* pg_try_advisory_lock succeeds (a session may take its own lock again).
Lock(r, t) ==
    LET c == tick[r][t].on
    IN /\ tick[r][t].pc = "lock" /\ client[r][c] # "lost"
       /\ lock \subseteq {<<r, c>>}
       /\ lock' = {<<r, c>>}
       /\ Lead(r, c)
       /\ SetTick(r, t, Idle)
       /\ FireDue(r)
       /\ UNCHANGED <<client, stopping, severed, faults>>

\* It answers false, or the connection is lost: stand by.
StandBy(r, t) ==
    LET c == tick[r][t].on
    IN /\ tick[r][t].pc = "lock"
       /\ client[r][c] = "lost" \/ ~(lock \subseteq {<<r, c>>})
       /\ SetClient(r, c, "idle")
       /\ Follow(r)
       /\ SetTick(r, t, Idle)
       /\ UNCHANGED <<lock, leaderClient, jobVars, stopping, severed, faults>>
-----------------------------------------------------------------------------
(* Failures, shutdown, and Postgres.                                       *)

\* A connection breaks: Postgres ends the session and frees its lock; the
\* replica learns of it from the call in flight or the next one.
LoseConnection(r, c) ==
    /\ client[r][c] = "out"
    /\ Fault("lose")
    /\ severed' = severed \union {r}
    /\ SetClient(r, c, "lost")
    /\ lock' = lock \ {<<r, c>>}
    /\ tick' = [tick EXCEPT ![r] = [t \in Ticks |->
                  IF @[t] = [pc |-> "verify", on |-> c] THEN [@[t] EXCEPT !.pc = "broken"]
                  ELSE @[t]]]
    /\ UNCHANGED <<leaderVars, jobVars, stopping>>

\* The pool closes an idle connection after 30 s; only one whose session
\* holds the lock matters.
CloseIdle(r, c) ==
    /\ client[r][c] = "idle" /\ <<r, c>> \in lock
    /\ lock' = {}
    /\ UNCHANGED <<client, leaderVars, tick, jobVars, stopping, severed, faults>>

Restarted(r) ==
    /\ lock' = lock \ ({r} \X Clients)
    /\ client' = [client EXCEPT ![r] = [c \in Clients |-> "idle"]]
    /\ Follow(r)
    /\ leaderClient' = [leaderClient EXCEPT ![r] = NoClient]
    /\ tick' = [tick EXCEPT ![r] = [t \in Ticks |-> Idle]]
    /\ inFlight' = [inFlight EXCEPT ![r] = {}]
    /\ runs' = [runs EXCEPT ![r] = [j \in Jobs |-> 0]]
    /\ stopping' = stopping \ {r} /\ severed' = severed \ {r}

\* The process dies with its jobs and its connections, and is restarted.
Crash(r) == Fault("crash") /\ Restarted(r)

\* SIGTERM: no new ticks; releaseLeadership unlocks and releases the client.
\* Jobs and ticks in flight go on until the process exits 500 ms later.
Shutdown(r) ==
    /\ r \notin stopping
    /\ Fault("shutdown")
    /\ stopping' = stopping \union {r} /\ severed' = severed \union {r}
    /\ IF leaderClient[r] = NoClient
       THEN UNCHANGED <<lock, client, leaderVars>>
       ELSE /\ lock' = lock \ {<<r, leaderClient[r]>>}
            /\ SetClient(r, leaderClient[r], "idle")
            /\ leaderClient' = [leaderClient EXCEPT ![r] = NoClient]
            /\ Follow(r)
    /\ UNCHANGED <<tick, jobVars>>

Exit(r) == r \in stopping /\ Restarted(r) /\ UNCHANGED faults
-----------------------------------------------------------------------------
TickStep(r, t) ==
    \/ StartTick(r, t) \/ Verify(r, t) \/ Demote(r, t)
    \/ \E c \in Clients : Connect(r, t, c)
    \/ Lock(r, t) \/ StandBy(r, t)

Next ==
    \E r \in Replicas :
        \/ \E t \in Ticks : TickStep(r, t) \/ ConnectFails(r, t)
        \/ \E j \in Jobs : JobEnds(r, j)
        \/ \E c \in Clients : LoseConnection(r, c) \/ CloseIdle(r, c)
        \/ Crash(r) \/ Shutdown(r) \/ Exit(r)

(* The interval keeps firing and database calls come back.                 *)
Fairness ==
    \A r \in Replicas :
        /\ \A t \in Ticks : WF_vars(TickStep(r, t))
        /\ \A c \in Clients : WF_vars(CloseIdle(r, c))
        /\ WF_vars(Exit(r))

Spec == Init /\ [][Next]_vars /\ Fairness
-----------------------------------------------------------------------------
\* Locks, pools, ticks and job tables keep their shape; a job never ends
\* more often than it was started.
TypeOK ==
    /\ lock \in SUBSET (Replicas \X Clients)
    /\ client \in [Replicas -> [Clients -> {"idle", "out", "lost"}]]
    /\ isLeader \in [Replicas -> BOOLEAN]
    /\ leaderClient \in [Replicas -> Clients \union {NoClient}]
    /\ tick \in [Replicas -> [Ticks -> [pc : {"idle", "verify", "broken", "connect", "lock"},
                                         on : Clients \union {NoClient}]]]
    /\ inFlight \in [Replicas -> SUBSET Jobs]
    /\ runs \in [Replicas -> [Jobs -> Nat]]
    /\ stopping \in SUBSET Replicas /\ severed \in SUBSET Replicas
    /\ faults \in Nat

\* runner.ts:4, "Per-job locks prevent overlapping runs": a replica never runs
\* a job twice at once, whatever ticks overlap.
NoOverlapInReplica ==
    \A r \in Replicas, j \in Jobs : runs[r][j] <= 1

\* leader.ts:5-7, "exactly one acquires the lock and runs jobs ... no
\* split-brain, no double-running": no job runs in two replicas at once that
\* kept their connections since they started.  (One that lost its connection
\* goes on with the jobs it started, and the text does not hold for it.)
NoDoubleRunning ==
    \A r, s \in Replicas \ severed, j \in Jobs :
        runs[r][j] > 0 /\ runs[s][j] > 0 => r = s

LiveLeader(r) == isLeader[r] /\ leaderClient[r] # NoClient
                             /\ client[r][leaderClient[r]] # "lost"

\* A replica that believes it leads holds the lock, unless its connection was
\* lost behind its back: demotion, hand-over and late ticks never leave two.
LeaderHoldsLock ==
    \A r \in Replicas : LiveLeader(r) => lock = {<<r, leaderClient[r]>>}

\* leader.ts:6, "a standby picks it up on its next tick": the scheduler does not
\* stay without a leader.
SomeoneLeads == []<>(\E r \in Replicas : LiveLeader(r))

\* A replica that holds the lock with its leader client and thinks it stands by.
Wedged(r) == ~isLeader[r] /\ <<r, leaderClient[r]>> \in lock

\* The same for ticks that may overlap: after the last failure some replica leads
\* again and again, but for one case that never heals: a tick whose connection
\* fails (leader.ts:50-52), or that is refused the lock (68) or an answer (73), after
\* another tick of its replica got the lock.
LeadsUnlessWedged ==
    []<>(\E r \in Replicas : LiveLeader(r)) \/ <>[](\E r \in Replicas : Wedged(r))
=============================================================================

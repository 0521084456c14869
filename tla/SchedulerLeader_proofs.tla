----------------------- MODULE SchedulerLeader_proofs -----------------------
(***************************************************************************)
(* For every set of replicas, jobs, overlapping ticks, connections and     *)
(* failures: a replica never overlaps a job with itself, and one that      *)
(* believes it leads over a live connection holds the lock, and no job     *)
(* runs at once in two replicas that kept their connections.               *)
(***************************************************************************)
EXTENDS SchedulerLeader, TLAPS

USE LeaderAssumption

ClientStates == {"idle", "out", "lost"}
TickPCs == {"idle", "verify", "broken", "connect", "lock"}

\* The record a slot is set to is a tick.
LEMMA TickType ==
    ASSUME NEW pc \in TickPCs, NEW on \in Clients \union {NoClient}
    PROVE  /\ [pc |-> pc, on |-> on] \in [pc : TickPCs, on : Clients \union {NoClient}]
           /\ Idle \in [pc : TickPCs, on : Clients \union {NoClient}]
BY DEF Idle, TickPCs
-----------------------------------------------------------------------------
(* What ties the pool, the ticks and the lock together.                    *)

\* A tick that asks for the lock does so on a connection of the replica's own
\* that is neither in the pool nor the leader's.
Asks(r, t) ==
    tick[r][t].pc = "lock" =>
        /\ tick[r][t].on \in Clients
        /\ client[r][tick[r][t].on] # "idle"
        /\ tick[r][t].on # leaderClient[r]

\* The leader's connection is checked out, ticks ask on connections of their
\* own, and no two ticks of a replica share one.
PoolDiscipline ==
    \A r \in Replicas :
        /\ leaderClient[r] # NoClient => client[r][leaderClient[r]] # "idle"
        /\ \A t \in Ticks : Asks(r, t)
        /\ \A t, u \in Ticks :
             tick[r][t].pc = "lock" /\ tick[r][u].pc = "lock" /\ t # u
                => tick[r][t].on # tick[r][u].on

\* A job is marked as in flight exactly while it runs, and runs once.
FlagsFollowRuns ==
    \A r \in Replicas, j \in Jobs : runs[r][j] = IF j \in inFlight[r] THEN 1 ELSE 0

LockInv == TypeOK /\ PoolDiscipline /\ LeaderHoldsLock
-----------------------------------------------------------------------------
(* The types.                                                              *)

\* Starting any set of due jobs keeps the job tables typed.
LEMMA FireTyped ==
    ASSUME TypeOK, NEW r \in Replicas, FireDue(r)
    PROVE  /\ inFlight' \in [Replicas -> SUBSET Jobs]
           /\ runs' \in [Replicas -> [Jobs -> Nat]]
<1>1. PICK due \in SUBSET Jobs :
        /\ inFlight' = [inFlight EXCEPT ![r] = @ \union due]
        /\ runs' = [runs EXCEPT ![r] =
             [j \in Jobs |-> @[j] + IF j \in due \ inFlight[r] THEN 1 ELSE 0]]
  BY DEF FireDue
<1>2. [j \in Jobs |-> runs[r][j] + IF j \in due \ inFlight[r] THEN 1 ELSE 0]
        \in [Jobs -> Nat]
  BY DEF TypeOK
<1>. QED
  BY <1>1, <1>2 DEF TypeOK

\* A restarted replica is typed.
LEMMA RestartTyped ==
    ASSUME TypeOK, NEW r \in Replicas, Restarted(r), faults' \in Nat
    PROVE  TypeOK'
BY TickType DEF TypeOK, Restarted, Follow, TickPCs

\* Every step keeps the state typed.
LEMMA TypeStep == TypeOK /\ PoolDiscipline /\ [Next]_vars => TypeOK'
<1>. SUFFICES ASSUME TypeOK, PoolDiscipline, [Next]_vars PROVE TypeOK'
  OBVIOUS
<1>. USE DEF TypeOK, leaderVars, jobVars, SetTick, SetClient, Lead, Follow, Fault, TickPCs
<1>1. CASE \E r \in Replicas : \E t \in Ticks : TickStep(r, t) \/ ConnectFails(r, t)
  <2>. PICK r \in Replicas, t \in Ticks : TickStep(r, t) \/ ConnectFails(r, t)
    BY <1>1
  <2>1. CASE StartTick(r, t)
    BY <2>1, TickType DEF StartTick
  <2>2. CASE Verify(r, t)
    BY <2>2, TickType, FireTyped DEF Verify
  <2>3. CASE Demote(r, t)
    BY <2>3, TickType DEF Demote
  <2>4. ASSUME NEW c \in Clients, Connect(r, t, c) PROVE TypeOK'
    BY <2>4, TickType DEF Connect
  <2>5. CASE Lock(r, t)
    <3>1. tick[r][t].on \in Clients
      BY <2>5 DEF Lock, PoolDiscipline, Asks
    <3>. QED
      BY <2>5, <3>1, TickType, FireTyped DEF Lock
  <2>6. CASE StandBy(r, t)
    BY <2>6, TickType DEF StandBy
  <2>7. CASE ConnectFails(r, t)
    BY <2>7, TickType DEF ConnectFails
  <2>. QED
    BY <2>1, <2>2, <2>3, <2>4, <2>5, <2>6, <2>7 DEF TickStep
<1>2. CASE \E r \in Replicas : \E j \in Jobs : JobEnds(r, j)
  BY <1>2 DEF JobEnds
<1>3. ASSUME NEW r \in Replicas, NEW c \in Clients, LoseConnection(r, c) PROVE TypeOK'
  <2>1. [t \in Ticks |->
            IF tick[r][t] = [pc |-> "verify", on |-> c]
            THEN [tick[r][t] EXCEPT !.pc = "broken"] ELSE tick[r][t]]
          \in [Ticks -> [pc : TickPCs, on : Clients \union {NoClient}]]
    <3>1. ASSUME NEW t \in Ticks
          PROVE  tick[r][t] \in [pc : TickPCs, on : Clients \union {NoClient}]
      OBVIOUS
    <3>2. ASSUME NEW t \in Ticks
          PROVE  [tick[r][t] EXCEPT !.pc = "broken"]
                   \in [pc : TickPCs, on : Clients \union {NoClient}]
      BY <3>1
    <3>. QED
      BY <3>1, <3>2
  <2>2. tick' \in [Replicas -> [Ticks -> [pc : TickPCs, on : Clients \union {NoClient}]]]
    BY <1>3, <2>1 DEF LoseConnection
  <2>3. client' \in [Replicas -> [Clients -> ClientStates]]
    BY <1>3 DEF LoseConnection, ClientStates
  <2>. QED
    BY <1>3, <2>2, <2>3 DEF LoseConnection, ClientStates
<1>4. ASSUME NEW r \in Replicas, NEW c \in Clients, CloseIdle(r, c) PROVE TypeOK'
  BY <1>4 DEF CloseIdle
<1>5. ASSUME NEW r \in Replicas, Crash(r) \/ Exit(r) PROVE TypeOK'
  BY <1>5, RestartTyped DEF Crash, Exit
<1>6. ASSUME NEW r \in Replicas, Shutdown(r) PROVE TypeOK'
  <2>1. CASE leaderClient[r] = NoClient
    BY <1>6, <2>1 DEF Shutdown
  <2>2. CASE leaderClient[r] # NoClient
    <3>1. leaderClient[r] \in Clients
      BY <2>2
    <3>2. /\ lock' = lock \ {<<r, leaderClient[r]>>}
          /\ client' = [client EXCEPT ![r][leaderClient[r]] = "idle"]
          /\ leaderClient' = [leaderClient EXCEPT ![r] = NoClient]
          /\ isLeader' = [isLeader EXCEPT ![r] = FALSE]
          /\ stopping' = stopping \union {r} /\ severed' = severed \union {r}
          /\ faults' = faults + 1
          /\ UNCHANGED <<tick, inFlight, runs>>
      BY <1>6, <2>2 DEF Shutdown
    <3>3. client' \in [Replicas -> [Clients -> {"idle", "out", "lost"}]]
      BY <3>1, <3>2
    <3>. QED
      BY <3>2, <3>3
  <2>. QED
    BY <2>1, <2>2
<1>7. CASE UNCHANGED vars
  BY <1>7 DEF vars
<1>. QED
  BY <1>1, <1>2, <1>3, <1>4, <1>5, <1>6, <1>7 DEF Next

\* The first state is typed.
LEMMA TypeInit == Init => TypeOK
BY TickType DEF Init, TypeOK, TickPCs

-----------------------------------------------------------------------------
(* The lock.                                                               *)

\* In the first state nothing is checked out and nobody leads.
LEMMA LockInit == Init => PoolDiscipline /\ LeaderHoldsLock
BY DEF Init, Idle, PoolDiscipline, Asks, LeaderHoldsLock, LiveLeader

\* A restarted replica keeps no connection, tick or lock of its past, and
\* takes nobody else's.
LEMMA RestartKeepsLock ==
    ASSUME LockInv, NEW r \in Replicas, Restarted(r)
    PROVE  PoolDiscipline' /\ LeaderHoldsLock'
<1>. USE DEF Restarted, Follow, LockInv, TypeOK
<1>1. PoolDiscipline'
  BY DEF PoolDiscipline, Asks, Idle
<1>2. ASSUME NEW s \in Replicas, LiveLeader(s)' PROVE lock' = {<<s, leaderClient'[s]>>}
  <2>1. s # r
    BY <1>2 DEF LiveLeader
  <2>2. LiveLeader(s) /\ leaderClient'[s] = leaderClient[s]
    BY <1>2, <2>1 DEF LiveLeader
  <2>. QED
    BY <2>1, <2>2 DEF LeaderHoldsLock
<1>. QED
  BY <1>1, <1>2 DEF LeaderHoldsLock

\* Every step keeps connections apart and the lock with the live leader.
LEMMA LockStep == LockInv /\ [Next]_vars => PoolDiscipline' /\ LeaderHoldsLock'
<1>. SUFFICES ASSUME LockInv, [Next]_vars PROVE PoolDiscipline' /\ LeaderHoldsLock'
  OBVIOUS
<1>. USE DEF LockInv, TypeOK, SetTick, SetClient, Lead, Follow, leaderVars
<1>. USE DEF PoolDiscipline, Asks, LeaderHoldsLock, LiveLeader
<1>1. ASSUME NEW r \in Replicas, NEW t \in Ticks, StartTick(r, t)
      PROVE  PoolDiscipline' /\ LeaderHoldsLock'
  BY <1>1 DEF StartTick
<1>2. ASSUME NEW r \in Replicas, NEW t \in Ticks, Verify(r, t)
      PROVE  PoolDiscipline' /\ LeaderHoldsLock'
  BY <1>2 DEF Verify, Idle
<1>3. ASSUME NEW r \in Replicas, NEW t \in Ticks, Demote(r, t)
      PROVE  PoolDiscipline' /\ LeaderHoldsLock'
  BY <1>3 DEF Demote
<1>4. ASSUME NEW r \in Replicas, NEW t \in Ticks, NEW c \in Clients, Connect(r, t, c)
      PROVE  PoolDiscipline' /\ LeaderHoldsLock'
  BY <1>4 DEF Connect
<1>5. ASSUME NEW r \in Replicas, NEW t \in Ticks, ConnectFails(r, t)
      PROVE  PoolDiscipline' /\ LeaderHoldsLock'
  BY <1>5 DEF ConnectFails, Idle
<1>6. ASSUME NEW r \in Replicas, NEW t \in Ticks, Lock(r, t)
      PROVE  PoolDiscipline' /\ LeaderHoldsLock'
  <2>. DEFINE c == tick[r][t].on
  <2>1. /\ c \in Clients /\ client[r][c] # "idle" /\ c # leaderClient[r]
        /\ lock \subseteq {<<r, c>>} /\ lock' = {<<r, c>>}
        /\ isLeader' = [isLeader EXCEPT ![r] = TRUE]
        /\ leaderClient' = [leaderClient EXCEPT ![r] = c]
        /\ tick' = [tick EXCEPT ![r][t] = Idle] /\ client' = client
    BY <1>6 DEF Lock
  <2>2. \A u \in Ticks : u # t /\ tick[r][u].pc = "lock" => tick[r][u].on # c
    BY <1>6 DEF Lock
  <2>3. PoolDiscipline'
    BY <2>1, <2>2 DEF Idle
  <2>4. ASSUME NEW s \in Replicas, LiveLeader(s)' PROVE lock' = {<<s, leaderClient'[s]>>}
    BY <2>1, <2>4
  <2>. QED
    BY <2>3, <2>4
<1>7. ASSUME NEW r \in Replicas, NEW t \in Ticks, StandBy(r, t)
      PROVE  PoolDiscipline' /\ LeaderHoldsLock'
  BY <1>7 DEF StandBy, Idle
<1>8. ASSUME NEW r \in Replicas, NEW j \in Jobs, JobEnds(r, j)
      PROVE  PoolDiscipline' /\ LeaderHoldsLock'
  BY <1>8 DEF JobEnds
<1>9. ASSUME NEW r \in Replicas, NEW c \in Clients, LoseConnection(r, c)
      PROVE  PoolDiscipline' /\ LeaderHoldsLock'
  BY <1>9 DEF LoseConnection
<1>10. ASSUME NEW r \in Replicas, NEW c \in Clients, CloseIdle(r, c)
       PROVE  PoolDiscipline' /\ LeaderHoldsLock'
  BY <1>10 DEF CloseIdle
<1>11. ASSUME NEW r \in Replicas, Crash(r) \/ Exit(r)
       PROVE  PoolDiscipline' /\ LeaderHoldsLock'
  BY <1>11, RestartKeepsLock DEF Crash, Exit
<1>12. ASSUME NEW r \in Replicas, Shutdown(r)
       PROVE  PoolDiscipline' /\ LeaderHoldsLock'
  <2>1. CASE leaderClient[r] = NoClient
    BY <1>12, <2>1 DEF Shutdown
  <2>2. CASE leaderClient[r] # NoClient
    <3>1. /\ lock' = lock \ {<<r, leaderClient[r]>>}
          /\ client' = [client EXCEPT ![r][leaderClient[r]] = "idle"]
          /\ leaderClient' = [leaderClient EXCEPT ![r] = NoClient]
          /\ isLeader' = [isLeader EXCEPT ![r] = FALSE]
          /\ tick' = tick
      BY <1>12, <2>2 DEF Shutdown
    <3>. QED
      BY <2>2, <3>1
  <2>. QED
    BY <2>1, <2>2
<1>13. CASE UNCHANGED vars
  BY <1>13 DEF vars
<1>. QED
  BY <1>1, <1>2, <1>3, <1>4, <1>5, <1>6, <1>7, <1>8, <1>9, <1>10, <1>11, <1>12, <1>13
     DEF Next, TickStep

\* The invariant of the lock, and the theorems it carries.
LEMMA LockInvariant == Spec => []LockInv
<1>1. Init => LockInv
  BY TypeInit, LockInit DEF LockInv
<1>2. LockInv /\ [Next]_vars => LockInv'
  BY TypeStep, LockStep DEF LockInv
<1>. QED
  BY <1>1, <1>2, PTL DEF Spec

\* The scheduler's tables, pools and locks keep their shape in every run.
THEOREM TypeCorrect == Spec => []TypeOK
BY LockInvariant, PTL DEF LockInv

\* leader.ts: however ticks overlap, connections break and replicas crash or
\* shut down, one that believes it leads over a live connection holds the
\* lock, so two such replicas never coexist.
THEOREM LiveLeaderHoldsLock == Spec => []LeaderHoldsLock
BY LockInvariant, PTL DEF LockInv
-----------------------------------------------------------------------------
(* The jobs of one replica.                                                *)

\* A fire of due jobs starts only those whose flag is not set, and sets it.
LEMMA FireFlags ==
    ASSUME TypeOK, FlagsFollowRuns, NEW r \in Replicas, FireDue(r)
    PROVE  FlagsFollowRuns'
<1>1. PICK due \in SUBSET Jobs :
        /\ inFlight' = [inFlight EXCEPT ![r] = @ \union due]
        /\ runs' = [runs EXCEPT ![r] =
             [j \in Jobs |-> @[j] + IF j \in due \ inFlight[r] THEN 1 ELSE 0]]
  BY DEF FireDue
<1>2. ASSUME NEW j \in Jobs
      PROVE  runs'[r][j] = IF j \in inFlight'[r] THEN 1 ELSE 0
  BY <1>1 DEF TypeOK, FlagsFollowRuns
<1>3. ASSUME NEW s \in Replicas, s # r
      PROVE  runs'[s] = runs[s] /\ inFlight'[s] = inFlight[s]
  BY <1>1, <1>3 DEF TypeOK
<1>. QED
  BY <1>2, <1>3 DEF FlagsFollowRuns

\* Every step keeps the flags right.
LEMMA FlagsStep == TypeOK /\ FlagsFollowRuns /\ [Next]_vars => FlagsFollowRuns'
<1>. SUFFICES ASSUME TypeOK, FlagsFollowRuns, [Next]_vars PROVE FlagsFollowRuns'
  OBVIOUS
<1>1. CASE UNCHANGED jobVars
  BY <1>1 DEF jobVars, FlagsFollowRuns
<1>2. ASSUME NEW r \in Replicas, NEW t \in Ticks, Verify(r, t) \/ Lock(r, t)
      PROVE  FlagsFollowRuns'
  BY <1>2, FireFlags DEF Verify, Lock
<1>3. ASSUME NEW r \in Replicas, NEW j \in Jobs, JobEnds(r, j)
      PROVE  FlagsFollowRuns'
  BY <1>3 DEF JobEnds, FlagsFollowRuns, TypeOK
<1>4. ASSUME NEW r \in Replicas, Restarted(r) PROVE FlagsFollowRuns'
  BY <1>4 DEF Restarted, FlagsFollowRuns, TypeOK
<1>. QED
  BY <1>1, <1>2, <1>3, <1>4
     DEF Next, TickStep, StartTick, Demote, Connect, ConnectFails, StandBy,
         LoseConnection, CloseIdle, Crash, Exit, Shutdown, vars

\* runner.ts:4: a replica never runs two executions of a job at once.
THEOREM JobsNeverOverlap == Spec => []NoOverlapInReplica
<1>1. Init => FlagsFollowRuns
  BY DEF Init, FlagsFollowRuns
<1>2. FlagsFollowRuns => NoOverlapInReplica
  BY DEF FlagsFollowRuns, NoOverlapInReplica
<1>. QED
  BY <1>1, <1>2, FlagsStep, TypeCorrect, PTL DEF Spec
-----------------------------------------------------------------------------
(* The jobs of all replicas.                                               *)

\* While a replica keeps its connections, its leadership lasts: the client is
\* known and has the lock, and only a leader verifies or runs jobs.
Lasting(r) ==
    /\ r \notin stopping
    /\ leaderClient[r] # NoClient => lock = {<<r, leaderClient[r]>>}
    /\ \A c \in Clients : client[r][c] # "lost"
    /\ \A t \in Ticks : /\ tick[r][t].pc # "broken"
                        /\ tick[r][t].pc = "verify" => leaderClient[r] # NoClient
    /\ \A j \in Jobs : runs[r][j] > 0 => leaderClient[r] # NoClient

LastingLead == \A r \in Replicas \ severed : Lasting(r)

\* A fire of due jobs touches the jobs of its replica only.
LEMMA FireIsLocal ==
    ASSUME TypeOK, NEW r \in Replicas, FireDue(r)
    PROVE  \A s \in Replicas : s # r => runs'[s] = runs[s]
BY DEF FireDue, TypeOK

\* A restarted replica starts afresh, and the others keep what they have.
LEMMA RestartKeepsLead ==
    ASSUME LockInv, LastingLead, NEW r \in Replicas, Restarted(r)
    PROVE  LastingLead'
<1>. USE DEF LockInv, TypeOK, Restarted, Follow, LastingLead, Lasting
<1>1. Lasting(r)'
  BY DEF Idle
<1>2. ASSUME NEW s \in Replicas \ severed, s # r PROVE Lasting(s)'
  BY <1>2
<1>. QED
  BY <1>1, <1>2

\* Every step keeps it so: whatever a severed replica does, the lock of one
\* that is not stays where it is.
LEMMA LeadStep == LockInv /\ LastingLead /\ [Next]_vars => LastingLead'
<1>. SUFFICES ASSUME LockInv, LastingLead, [Next]_vars PROVE LastingLead'
  OBVIOUS
<1>. USE DEF LockInv, TypeOK, SetTick, SetClient, Lead, Follow, leaderVars, jobVars
<1>. USE DEF PoolDiscipline, Asks, LastingLead, Lasting
<1>1. ASSUME NEW r \in Replicas, NEW t \in Ticks, StartTick(r, t) PROVE LastingLead'
  BY <1>1 DEF StartTick
<1>2. ASSUME NEW r \in Replicas, NEW t \in Ticks, Verify(r, t) PROVE LastingLead'
  BY <1>2, FireIsLocal DEF Verify, Idle
<1>3. ASSUME NEW r \in Replicas, NEW t \in Ticks, Demote(r, t) PROVE LastingLead'
  BY <1>3 DEF Demote
<1>4. ASSUME NEW r \in Replicas, NEW t \in Ticks, NEW c \in Clients, Connect(r, t, c)
      PROVE  LastingLead'
  BY <1>4 DEF Connect
<1>5. ASSUME NEW r \in Replicas, NEW t \in Ticks, ConnectFails(r, t) PROVE LastingLead'
  BY <1>5 DEF ConnectFails, Idle
<1>6. ASSUME NEW r \in Replicas, NEW t \in Ticks, Lock(r, t) PROVE LastingLead'
  <2>1. ASSUME NEW s \in Replicas \ severed, leaderClient[s] # NoClient PROVE FALSE
    <3>1. <<s, leaderClient[s]>> \in {<<r, tick[r][t].on>>}
      BY <1>6, <2>1 DEF Lock
    <3>2. s = r /\ leaderClient[r] = tick[r][t].on
      BY <3>1
    <3>. QED
      BY <1>6, <3>2 DEF Lock
  <2>2. lock' = {<<r, tick[r][t].on>>} /\ tick[r][t].on \in Clients
    BY <1>6 DEF Lock
  <2>. QED
    BY <1>6, <2>1, <2>2, FireIsLocal DEF Lock, Idle
<1>7. ASSUME NEW r \in Replicas, NEW t \in Ticks, StandBy(r, t) PROVE LastingLead'
  BY <1>7 DEF StandBy, Idle
<1>8. ASSUME NEW r \in Replicas, NEW j \in Jobs, JobEnds(r, j) PROVE LastingLead'
  BY <1>8 DEF JobEnds
<1>9. ASSUME NEW r \in Replicas, NEW c \in Clients, LoseConnection(r, c)
      PROVE  LastingLead'
  BY <1>9 DEF LoseConnection
<1>10. ASSUME NEW r \in Replicas, NEW c \in Clients, CloseIdle(r, c) PROVE LastingLead'
  BY <1>10 DEF CloseIdle
<1>11. ASSUME NEW r \in Replicas, Crash(r) \/ Exit(r) PROVE LastingLead'
  BY <1>11, RestartKeepsLead DEF Crash, Exit
<1>12. ASSUME NEW r \in Replicas, Shutdown(r) PROVE LastingLead'
  BY <1>12 DEF Shutdown
<1>13. CASE UNCHANGED vars
  BY <1>13 DEF vars
<1>. QED
  BY <1>1, <1>2, <1>3, <1>4, <1>5, <1>6, <1>7, <1>8, <1>9, <1>10, <1>11, <1>12, <1>13
     DEF Next, TickStep

\* leader.ts:5-7: however ticks overlap and whatever fails, no job runs at
\* once in two replicas that kept their connections since they started.
THEOREM ConnectedReplicasShareNoJob == Spec => []NoDoubleRunning
<1>1. Init => LastingLead
  BY DEF Init, Idle, LastingLead, Lasting
<1>2. TypeOK /\ LastingLead => NoDoubleRunning
  <2>. SUFFICES ASSUME TypeOK, LastingLead, NEW r \in Replicas \ severed,
                       NEW s \in Replicas \ severed, NEW j \in Jobs,
                       runs[r][j] > 0, runs[s][j] > 0
                PROVE  r = s
    BY DEF NoDoubleRunning
  <2>1. lock = {<<r, leaderClient[r]>>} /\ lock = {<<s, leaderClient[s]>>}
    BY DEF LastingLead, Lasting
  <2>2. <<r, leaderClient[r]>> = <<s, leaderClient[s]>>
    BY <2>1
  <2>. QED
    BY <2>2
<1>. QED
  BY <1>1, <1>2, LeadStep, LockInvariant, TypeCorrect, PTL DEF Spec
=============================================================================

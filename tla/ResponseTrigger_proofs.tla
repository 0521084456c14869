------------------------ MODULE ResponseTrigger_proofs ------------------------
(***************************************************************************)
(* From responses to runs, for every set of replicas, every threshold and  *)
(* all bounds: the types and what bounds the counters, that a replica has  *)
(* one trigger in flight, and that no event read during it is taken off    *)
(* the counter.                                                            *)
(***************************************************************************)
EXTENDS ResponseTrigger, FiniteSetTheorems, TLAPS

USE TriggerAssumption

\* How a row becomes another: its reading apart, it keeps its type.
Rewritten ==
    /\ runs' \in Seq(RunType) /\ Len(runs') = Len(runs)
    /\ \A i \in DOMAIN runs : runs'[i].read = runs[i].read
-----------------------------------------------------------------------------
(* The rows.                                                               *)

\* A row stays one when its status, its pipeline or its mark changes.
LEMMA RowUpdates ==
    ASSUME NEW run \in RunType
    PROVE  /\ run.read \in Nat
           /\ \A x \in {"failed", "cancelled", "completed"} :
                 LET new == [run EXCEPT !.status = x]
                 IN new \in RunType /\ new.read = run.read
           /\ \A x \in {"sent", "over"} :
                 LET new == [run EXCEPT !.work = x]
                 IN new \in RunType /\ new.read = run.read
           /\ \A x \in {"sent", "over"} :
                 LET new == [run EXCEPT !.work = x, !.status = "failed"]
                 IN new \in RunType /\ new.read = run.read
           /\ \A x \in BOOLEAN, y \in {run.work, "over"} :
                 LET new == [run EXCEPT !.doomed = x, !.work = y]
                 IN new \in RunType /\ new.read = run.read
BY DEF RunType

\* Rows that are rewritten one by one stay rows.
LEMMA EachRewritten ==
    ASSUME RunsTyped, NEW new \in [DOMAIN runs -> RunType], runs' = new,
           \A i \in DOMAIN runs : new[i].read = runs[i].read
    PROVE  Rewritten
<1>1. runs \in Seq(RunType) /\ DOMAIN runs = 1..Len(runs) /\ Len(runs) \in Nat
  BY DEF RunsTyped
<1>2. runs' \in Seq(RunType) /\ Len(runs') = Len(runs)
  BY <1>1
<1>. QED
  BY <1>2 DEF Rewritten

\* So do those of which the pipelines start.
LEMMA Sent ==
    ASSUME RunsTyped, NEW by, NEW work \in {"sent", "over"}, Send(by, work)
    PROVE  Rewritten
<1>. DEFINE new == [i \in DOMAIN runs |->
              IF runs[i].by = by /\ runs[i].work = "unsent"
              THEN [runs[i] EXCEPT !.work = work] ELSE runs[i]]
<1>0. \A i \in DOMAIN runs : runs[i] \in RunType
  BY DEF RunsTyped
<1>1. new \in [DOMAIN runs -> RunType] /\ \A i \in DOMAIN runs : new[i].read = runs[i].read
  BY <1>0, RowUpdates
<1>2. runs' = new
  BY DEF Send
<1>. HIDE DEF new
<1>. QED
  BY <1>1, <1>2, EachRewritten

\* So do rows of which one changes.
LEMMA OneRewritten ==
    ASSUME RunsTyped, NEW i \in DOMAIN runs, NEW run \in RunType, run.read = runs[i].read,
           ChangeRun(i, run)
    PROVE  Rewritten
<1>1. runs \in Seq(RunType) /\ DOMAIN runs = 1..Len(runs) /\ Len(runs) \in Nat
  BY DEF RunsTyped
<1>2. runs' \in [1..Len(runs) -> RunType]
  BY <1>1 DEF ChangeRun
<1>3. runs' \in Seq(RunType) /\ Len(runs') = Len(runs)
  BY <1>1, <1>2
<1>. QED
  BY <1>1, <1>3 DEF Rewritten, ChangeRun

\* The rows that are left and a new one are rows, and no more than there may be.
LEMMA Inserted ==
    ASSUME NEW rs \in Seq(RunType), \A i \in DOMAIN rs : rs[i].read <= responses,
           responses \in Nat, NEW by \in Replicas \union Loops, InsertRun(rs, by)
    PROVE  /\ runs' \in Seq(RunType) /\ Len(runs') <= MaxRuns
           /\ \A i \in DOMAIN runs' : runs'[i].read <= responses
<1>. DEFINE kept == {i \in DOMAIN rs : Findable(rs, i)}
            c == Cardinality(kept)
<1>1. PICK at \in [1..c -> kept] : runs' = Append([n \in DOMAIN at |-> rs[at[n]]], NewRun(by))
  BY DEF InsertRun
<1>2. c \in Nat /\ c < MaxRuns
  <2>1. IsFiniteSet(kept)
    BY FS_Interval, FS_Subset
  <2>. QED
    BY <2>1, FS_CardinalityType DEF InsertRun
<1>. DEFINE old == [n \in 1..c |-> rs[at[n]]]
<1>3. \A n \in 1..c : rs[at[n]] \in RunType /\ rs[at[n]].read <= responses
  OBVIOUS
<1>4. old \in Seq(RunType) /\ Len(old) = c /\ \A n \in 1..c : old[n].read <= responses
  <2>. HIDE DEF kept, c
  <2>1. old \in [1..c -> RunType]
    BY <1>3
  <2>2. old \in Seq(RunType) /\ Len(old) = c
    BY <1>2, <2>1
  <2>. QED
    BY <1>3, <2>2
<1>5. NewRun(by) \in RunType /\ NewRun(by).read = 0
  BY DEF NewRun, RunType
<1>6. runs' = Append(old, NewRun(by))
  BY <1>1
<1>. HIDE DEF old, kept, c
<1>7. runs' \in Seq(RunType) /\ Len(runs') = c + 1
  BY <1>4, <1>5, <1>6
<1>8. \A i \in 1..(c + 1) : runs'[i].read <= responses
  BY <1>2, <1>4, <1>5, <1>6
<1>. QED
  BY <1>2, <1>7, <1>8

\* What the rows must be after a step.
RowsKept ==
    /\ runs' \in Seq(RunType) /\ Len(runs') <= MaxRuns
    /\ \A i \in DOMAIN runs' : runs'[i].read <= responses'

\* Rows that are rewritten or left alone are.
LEMMA RewrittenKept ==
    ASSUME TriggerTypeOK, responses' \in Nat, responses' >= responses,
           Rewritten \/ UNCHANGED runs
    PROVE  RowsKept
<1>. USE DEF TriggerTypeOK, RunsTyped, InStep
<1>1. DOMAIN runs' = DOMAIN runs /\ runs' \in Seq(RunType) /\ Len(runs') = Len(runs)
  BY DEF Rewritten
<1>2. ASSUME NEW i \in DOMAIN runs' PROVE runs'[i].read <= responses'
  <2>1. i \in DOMAIN runs /\ runs[i] \in RunType /\ runs'[i].read = runs[i].read
    BY <1>1, <1>2 DEF Rewritten
  <2>2. runs[i].read \in Nat /\ runs[i].read <= responses /\ responses \in Nat
    BY <2>1 DEF RunType
  <2>. QED
    BY <2>1, <2>2
<1>. QED
  BY <1>1, <1>2 DEF RowsKept

\* The steps of replicas.
LEMMA ReplicaRows ==
    ASSUME TriggerTypeOK, NEW r \in Replicas,
           LoopStep(r) \/ TaskStep(r) \/ PostFails(r) \/ Throws(r) \/ Crash(r)
    PROVE  responses' = responses /\ report' = report /\ sched' = sched /\ RowsKept
<1>. USE DEF TriggerTypeOK
<1>0. responses' = responses /\ report' = report /\ sched' = sched
  BY DEF LoopStep, Consume, DecideReport, StartTrigger, TaskStep, Lock, Check, Insert, Post,
         Release, PostFails, Throws, Crash, runVars
<1>. USE <1>0
<1>1. CASE LoopStep(r) \/ Lock(r) \/ Check(r) \/ Release(r) \/ Throws(r)
  <2>1. UNCHANGED runs
    BY <1>1 DEF LoopStep, Consume, DecideReport, StartTrigger, Lock, Check, Release, Throws,
                runVars
  <2>. QED
    BY <2>1, RewrittenKept
<1>2. CASE Insert(r)
  <2>. DEFINE rs == [i \in DOMAIN runs |->
                 IF Zombie(runs[i]) THEN [runs[i] EXCEPT !.status = "failed"] ELSE runs[i]]
  <2>0. \A i \in DOMAIN runs : runs[i] \in RunType
    BY DEF RunsTyped
  <2>1. rs \in [DOMAIN runs -> RunType]
    BY <2>0, RowUpdates
  <2>2. rs \in Seq(RunType) /\ DOMAIN rs = DOMAIN runs
    <3>1. DOMAIN runs = 1..Len(runs) /\ Len(runs) \in Nat
      BY DEF RunsTyped
    <3>. HIDE DEF rs
    <3>. QED
      BY <2>1, <3>1
  <2>3. \A i \in DOMAIN rs : rs[i].read <= responses
    <3>1. \A i \in DOMAIN runs : rs[i].read = runs[i].read
      BY <2>0, RowUpdates
    <3>. HIDE DEF rs
    <3>. QED
      BY <2>2, <3>1 DEF InStep
  <2>4. InsertRun(rs, r)
    BY <1>2 DEF Insert
  <2>. HIDE DEF rs
  <2>. QED
    BY <2>2, <2>3, <2>4, Inserted DEF RowsKept
<1>3. CASE Post(r) \/ PostFails(r)
  <2>1. PICK work \in {"sent", "over"} : Send(r, work)
    BY <1>3 DEF Post, PostFails
  <2>2. Rewritten
    BY <2>1, Sent
  <2>. QED
    BY <2>2, RewrittenKept
<1>4. CASE Crash(r)
  <2>. DEFINE new == [i \in DOMAIN runs |->
                 IF runs[i].work = "unsent" /\ runs[i].by = r
                 THEN [runs[i] EXCEPT !.work = "over"] ELSE runs[i]]
  <2>0. \A i \in DOMAIN runs : runs[i] \in RunType
    BY DEF RunsTyped
  <2>1. new \in [DOMAIN runs -> RunType] /\ \A i \in DOMAIN runs : new[i].read = runs[i].read
    BY <2>0, RowUpdates
  <2>2. runs' = new
    BY <1>4 DEF Crash
  <2>. HIDE DEF new
  <2>3. Rewritten
    BY <2>1, <2>2, EachRewritten
  <2>. QED
    BY <2>3, RewrittenKept
<1>. QED
  BY <1>1, <1>2, <1>3, <1>4 DEF TaskStep

\* The steps of pipelines.
LEMMA PipelineRows ==
    ASSUME TriggerTypeOK, NEW i \in DOMAIN runs, PipelineStep(i) \/ PipelineFails(i) \/ Ages(i)
    PROVE  /\ responses' = responses /\ sched' = sched /\ RowsKept
           /\ report' \in [parent : BOOLEAN, covered : Nat, seen : Nat]
           /\ report'.covered <= responses' /\ report'.seen <= responses'
<1>. USE DEF TriggerTypeOK
<1>0. responses' = responses /\ sched' = sched
  BY DEF PipelineStep, Beat, Gate, Publish, PublishNothing, MarkCompleted, WriteCheckpoint,
         PipelineFails, Ages
<1>1. runs[i] \in RunType /\ runs[i].read <= responses /\ responses \in Nat
  BY DEF RunsTyped, InStep
<1>2. CASE Beat(i) \/ MarkCompleted(i) \/ PipelineFails(i) \/ Ages(i)
  <2>1. report' = report
    BY <1>2 DEF Beat, MarkCompleted, PipelineFails, Ages
  <2>2. PICK run \in RunType : run.read = runs[i].read /\ ChangeRun(i, run)
    BY <1>1, <1>2 DEF Beat, MarkCompleted, PipelineFails, Ages, RunType
  <2>3. Rewritten
    BY <2>2, OneRewritten
  <2>. QED
    BY <1>0, <1>1, <2>1, <2>3, RewrittenKept DEF RunsTyped, InStep
<1>3. CASE Gate(i)
  <2>1. report' = report
    BY <1>3 DEF Gate
  <2>2. PICK run \in RunType : run.read \in {runs[i].read, responses} /\ ChangeRun(i, run)
    BY <1>1, <1>3 DEF Gate, RunType
  <2>3. runs' = [runs EXCEPT ![i] = run] /\ run.read <= responses
    BY <1>1, <2>2 DEF ChangeRun
  <2>4. runs' \in Seq(RunType) /\ Len(runs') = Len(runs) /\ DOMAIN runs' = DOMAIN runs
    BY <2>3 DEF RunsTyped
  <2>5. RowsKept
    BY <1>0, <2>3, <2>4 DEF RowsKept, RunsTyped, InStep
  <2>. QED
    BY <1>0, <2>1, <2>5 DEF RunsTyped, InStep
<1>4. CASE Publish(i) \/ PublishNothing(i) \/ WriteCheckpoint(i)
  <2>0. runs[i].read \in Nat
    BY <1>1 DEF RunType
  <2>1. /\ report' \in [parent : BOOLEAN, covered : Nat, seen : Nat]
        /\ report'.covered <= responses /\ report'.seen <= responses
    <3>. DEFINE b == Larger(report.seen, runs[i].read)
    <3>1. /\ report \in [parent : BOOLEAN, covered : Nat, seen : Nat]
          /\ report.covered <= responses /\ report.seen <= responses
      BY DEF RunsTyped, InStep
    <3>2. b \in Nat /\ b <= responses
      BY <1>1, <2>0, <3>1 DEF Larger
    <3>3. CASE report' = [report EXCEPT !.parent = TRUE, !.covered = runs[i].read]
      <4>1. report' = [parent |-> TRUE, covered |-> runs[i].read, seen |-> report.seen]
        BY <3>1, <3>3
      <4>. QED
        BY <1>1, <2>0, <3>1, <4>1
    <3>4. CASE report' = [report EXCEPT !.seen = b]
      <4>1. report' = [parent |-> report.parent, covered |-> report.covered, seen |-> b]
        BY <3>1, <3>4
      <4>. QED
        BY <3>1, <3>2, <4>1
    <3>5. CASE report' = report
      BY <3>1, <3>5
    <3>. QED
      BY <1>4, <3>3, <3>4, <3>5 DEF Publish, PublishNothing, WriteCheckpoint
  <2>2. PICK run \in RunType : run.read = runs[i].read /\ ChangeRun(i, run)
    BY <1>1, <1>4 DEF Publish, PublishNothing, WriteCheckpoint, RunType
  <2>3. Rewritten
    BY <2>2, OneRewritten
  <2>. QED
    BY <1>0, <1>1, <2>1, <2>3, RewrittenKept
<1>. QED
  BY <1>2, <1>3, <1>4 DEF PipelineStep

\* The steps of the scheduler.
SchedulerStep ==
    \/ Due \/ TickStep \/ SweepStep
    \/ \E stopped \in SUBSET Loops : SchedulerFails(stopped)

LEMMA SchedulerRows ==
    ASSUME TriggerTypeOK, SchedulerStep
    PROVE  /\ responses' = responses /\ report' = report /\ RowsKept
           /\ sched' \in [Loops -> {"idle", "kill", "insert", "post"}]
<1>. USE DEF TriggerTypeOK
<1>. DEFINE Places == [Loops -> {"idle", "kill", "insert", "post"}]
<1>0. responses' = responses /\ report' = report /\ sched' \in Places
  <2>0. sched \in Places
    BY DEF RunsTyped
  <2>1. ASSUME NEW stopped \in SUBSET Loops, SchedulerFails(stopped)
        PROVE  responses' = responses /\ report' = report /\ sched' \in Places
    BY <2>0, <2>1 DEF SchedulerFails
  <2>2. CASE Due \/ RecoverStale
    BY <2>0, <2>2 DEF Due, RecoverStale, Move
  <2>3. ASSUME NEW s \in Loops, ScheduleRun(s) \/ PostScheduled(s)
        PROVE  responses' = responses /\ report' = report /\ sched' \in Places
    BY <2>0, <2>3 DEF ScheduleRun, PostScheduled, Move
  <2>4. ASSUME NEW i \in DOMAIN runs, FindZombie(i) \/ KillZombie(i)
        PROVE  responses' = responses /\ report' = report /\ sched' \in Places
    BY <2>0, <2>4 DEF FindZombie, KillZombie, Move
  <2>. QED
    BY <2>1, <2>2, <2>3, <2>4 DEF SchedulerStep, TickStep, SweepStep, Loops
<1>. USE <1>0
<1>1. CASE Due
  BY <1>1, RewrittenKept DEF Due
<1>2. CASE RecoverStale
  <2>. DEFINE new == [i \in DOMAIN runs |->
                 IF runs[i].status = "running" /\ runs[i].age = "old"
                 THEN [runs[i] EXCEPT !.status = "cancelled"] ELSE runs[i]]
  <2>0. \A i \in DOMAIN runs : runs[i] \in RunType
    BY DEF RunsTyped
  <2>1. new \in [DOMAIN runs -> RunType] /\ \A i \in DOMAIN runs : new[i].read = runs[i].read
    BY <2>0, RowUpdates
  <2>2. runs' = new
    BY <1>2 DEF RecoverStale
  <2>. HIDE DEF new
  <2>3. Rewritten
    BY <2>1, <2>2, EachRewritten
  <2>. QED
    BY <2>3, RewrittenKept
<1>3. ASSUME NEW i \in DOMAIN runs, FindZombie(i) \/ KillZombie(i) PROVE RowsKept
  <2>1. runs[i] \in RunType
    BY DEF RunsTyped
  <2>2. PICK run \in RunType : run.read = runs[i].read /\ ChangeRun(i, run)
    BY <1>3, <2>1 DEF FindZombie, KillZombie, RunType
  <2>3. Rewritten
    BY <2>2, OneRewritten
  <2>. QED
    BY <2>3, RewrittenKept
<1>4. ASSUME NEW s \in Loops, ScheduleRun(s) PROVE RowsKept
  <2>1. InsertRun(runs, s)
    BY <1>4 DEF ScheduleRun
  <2>. QED
    BY <2>1, Inserted DEF RowsKept, RunsTyped, InStep
<1>5. ASSUME NEW s \in Loops, PostScheduled(s) PROVE RowsKept
  <2>1. Rewritten
    <3>1. CASE Send(s, "sent")
      BY <3>1, Sent
    <3>2. CASE ~Send(s, "sent")
      <4>1. PICK work \in {"sent", "over"} :
               runs' = [i \in DOMAIN runs |->
                 IF runs[i].by = s /\ runs[i].work = "unsent"
                 THEN [runs[i] EXCEPT !.work = work, !.status = "failed"] ELSE runs[i]]
        BY <1>5, <3>2 DEF PostScheduled
      <4>. DEFINE new == [i \in DOMAIN runs |->
                    IF runs[i].by = s /\ runs[i].work = "unsent"
                    THEN [runs[i] EXCEPT !.work = work, !.status = "failed"] ELSE runs[i]]
      <4>2. \A i \in DOMAIN runs : runs[i] \in RunType
        BY DEF RunsTyped
      <4>3. ASSUME NEW i \in DOMAIN runs PROVE new[i] \in RunType /\ new[i].read = runs[i].read
        <5>1. /\ [runs[i] EXCEPT !.work = work, !.status = "failed"] \in RunType
              /\ [runs[i] EXCEPT !.work = work, !.status = "failed"].read = runs[i].read
          BY <4>2, RowUpdates
        <5>. QED
          BY <4>2, <5>1
      <4>4. runs' = new
        BY <4>1
      <4>5. new \in [DOMAIN runs -> RunType]
        BY <4>3
      <4>. HIDE DEF new
      <4>. QED
        BY <4>3, <4>4, <4>5, EachRewritten
    <3>. QED
      BY <3>1, <3>2
  <2>. QED
    BY <2>1, RewrittenKept
<1>6. ASSUME NEW stopped \in SUBSET Loops, SchedulerFails(stopped) PROVE RowsKept
  <2>. DEFINE new == [i \in DOMAIN runs |->
                 [runs[i] EXCEPT !.doomed = @ /\ "sweep" \notin stopped,
                    !.work = IF @ = "unsent" /\ runs[i].by \in stopped THEN "over" ELSE @]]
  <2>0. ASSUME NEW i \in DOMAIN runs PROVE new[i] \in RunType /\ new[i].read = runs[i].read
    <3>. DEFINE x == runs[i].doomed /\ "sweep" \notin stopped
                y == IF runs[i].work = "unsent" /\ runs[i].by \in stopped THEN "over"
                     ELSE runs[i].work
    <3>1. runs[i] \in RunType
      BY DEF RunsTyped
    <3>2. x \in BOOLEAN /\ y \in {runs[i].work, "over"}
      OBVIOUS
    <3>3. new[i] = [runs[i] EXCEPT !.doomed = x, !.work = y]
      OBVIOUS
    <3>4. \A u \in BOOLEAN, v \in {runs[i].work, "over"} :
             /\ [runs[i] EXCEPT !.doomed = u, !.work = v] \in RunType
             /\ [runs[i] EXCEPT !.doomed = u, !.work = v].read = runs[i].read
      BY <3>1, RowUpdates
    <3>5. PICK u \in BOOLEAN, v \in {runs[i].work, "over"} : u = x /\ v = y
      BY <3>2, Zenon
    <3>6. new[i] = [runs[i] EXCEPT !.doomed = u, !.work = v]
      BY <3>3, <3>5, Zenon
    <3>. HIDE DEF x, y, new
    <3>. QED
      BY <3>4, <3>6
  <2>1. new \in [DOMAIN runs -> RunType] /\ \A i \in DOMAIN runs : new[i].read = runs[i].read
    BY <2>0
  <2>2. runs' = new
    BY <1>6 DEF SchedulerFails
  <2>. HIDE DEF new
  <2>3. Rewritten
    BY <2>1, <2>2, EachRewritten
  <2>. QED
    BY <2>3, RewrittenKept
<1>. QED
  BY <1>1, <1>2, <1>3, <1>4, <1>5, <1>6 DEF SchedulerStep, TickStep, SweepStep, Loops
-----------------------------------------------------------------------------
(* The replicas: a counter, a loop and at most one trigger each.           *)

\* What a replica's counter owes: the events of the trigger in flight, until its
\* POST takes them off, and those read since it started.
Counts(r) ==
    /\ mem[r].count >= mem[r].late
    /\ task[r].pc \in {"lock", "check", "insert", "post"} =>
          mem[r].count >= task[r].captured + mem[r].late

\* A loop that decides has no trigger in flight.
Decided(r) ==
    /\ task[r].pc = "idle" => task[r] = NoTask
    /\ mem[r].pending <=> task[r].pc # "idle"
    /\ loop[r].pc \in {"report", "start"} => task[r] = NoTask

CountInv == \A r \in Replicas : Counts(r) /\ Decided(r)

MemType == [count : Nat, late : Nat, ran : BOOLEAN, pending : BOOLEAN]
LoopType == [pc : {"read", "report", "start"}, tier : BOOLEAN]
TaskType == [pc : {"idle", "lock", "check", "insert", "post", "release"},
             captured : Nat, token : BOOLEAN]

\* What a replica may become.
Mine(m, l, t) ==
    /\ m \in MemType /\ l \in LoopType /\ t \in TaskType
    /\ m.count >= m.late
    /\ t.pc \in {"lock", "check", "insert", "post"} => m.count >= t.captured + m.late
    /\ t.pc = "idle" => t = NoTask
    /\ m.pending <=> t.pc # "idle"
    /\ l.pc \in {"report", "start"} => t = NoTask

\* It is that.
LEMMA MineNow ==
    ASSUME TriggerTypeOK, CountInv, NEW r \in Replicas
    PROVE  /\ Mine(mem[r], loop[r], task[r]) /\ mem[r].count <= stream.read
           /\ mem[r].count \in Nat /\ mem[r].late \in Nat /\ task[r].captured \in Nat
           /\ mem[r].ran \in BOOLEAN /\ mem[r].pending \in BOOLEAN /\ task[r].token \in BOOLEAN
           /\ stream.read \in Nat /\ stream.sent \in Nat /\ stream.read <= stream.sent
<1>1. mem[r] \in MemType /\ loop[r] \in LoopType /\ task[r] \in TaskType
  BY DEF TriggerTypeOK, ReplicasTyped, MemType, LoopType, TaskType
<1>2. Counts(r) /\ Decided(r)
  BY DEF CountInv
<1>3. Mine(mem[r], loop[r], task[r])
  BY <1>1, <1>2 DEF Mine, Counts, Decided
<1>4. /\ mem[r].count <= stream.read /\ stream.read \in Nat /\ stream.sent \in Nat
      /\ stream.read <= stream.sent
  BY DEF TriggerTypeOK, InStep
<1>. QED
  BY <1>1, <1>3, <1>4 DEF MemType, LoopType, TaskType

\* A step of r makes it m, l and t, and leaves the other replicas alone.
Becomes(r, m, l, t) ==
    /\ Mine(m, l, t) /\ m.count <= stream'.read
    /\ mem' = [mem EXCEPT ![r] = m] /\ loop' = [loop EXCEPT ![r] = l]
    /\ task' = [task EXCEPT ![r] = t]

\* What the consumers' variables must be after a step.
ReplicasKept ==
    /\ ReplicasTyped' /\ CountInv' /\ \A r \in Replicas : mem'[r].count <= stream'.read

\* When one replica is in order, they all are.
LEMMA OneBecomes ==
    ASSUME TriggerTypeOK, CountInv, NEW r \in Replicas, NEW m, NEW l, NEW t,
           Becomes(r, m, l, t), stream'.read \in Nat, stream'.read >= stream.read,
           redis' \in [lock : Replicas \union {Free}, tier : BOOLEAN]
    PROVE  ReplicasKept
<1>1. /\ mem \in [Replicas -> MemType] /\ loop \in [Replicas -> LoopType]
      /\ task \in [Replicas -> TaskType]
  BY DEF TriggerTypeOK, ReplicasTyped, MemType, LoopType, TaskType
<1>2. /\ mem' \in [Replicas -> MemType] /\ loop' \in [Replicas -> LoopType]
      /\ task' \in [Replicas -> TaskType]
      /\ mem'[r] = m /\ loop'[r] = l /\ task'[r] = t
      /\ \A q \in Replicas \ {r} : mem'[q] = mem[q] /\ loop'[q] = loop[q] /\ task'[q] = task[q]
  BY <1>1 DEF Becomes, Mine
<1>3. ReplicasTyped'
  BY <1>2 DEF ReplicasTyped, MemType, LoopType, TaskType
<1>4. ASSUME NEW q \in Replicas
      PROVE  Counts(q)' /\ Decided(q)' /\ mem'[q].count <= stream'.read
  <2>1. CASE q = r
    BY <1>2, <2>1 DEF Becomes, Mine, Counts, Decided
  <2>2. CASE q # r
    <3>1. mem'[q] = mem[q] /\ loop'[q] = loop[q] /\ task'[q] = task[q]
      BY <1>2, <2>2
    <3>2. mem[q].count <= stream.read /\ mem[q].count \in Nat /\ stream.read \in Nat
      BY MineNow
    <3>3. Counts(q) /\ Decided(q)
      BY DEF CountInv
    <3>. QED
      BY <3>1, <3>2, <3>3 DEF Counts, Decided
  <2>. QED
    BY <2>1, <2>2
<1>. QED
  BY <1>3, <1>4 DEF ReplicasKept, CountInv

\* What the steps of a replica do to the rest of what consumers use.
OthersKept ==
    /\ stream' \in [sent : Nat, read : Nat] /\ stream'.read >= stream.read
    /\ stream'.read <= stream'.sent /\ stream'.sent = stream.sent
    /\ redis' \in [lock : Replicas \union {Free}, tier : BOOLEAN]
    /\ faults' \in 0..MaxFaults

\* How a step changes a replica's counters, or its trigger in flight.
LEMMA Counted ==
    ASSUME NEW m \in MemType, NEW k \in Nat
    PROVE  /\ LET x == [m EXCEPT !.count = @ + k, !.late = @ + k]
              IN /\ x \in MemType /\ x.count = m.count + k /\ x.late = m.late + k
                 /\ x.pending <=> m.pending
           /\ LET x == [m EXCEPT !.count = k, !.ran = TRUE]
              IN x \in MemType /\ x.count = k /\ x.late = m.late /\ (x.pending <=> m.pending)
           /\ LET x == [m EXCEPT !.pending = TRUE, !.late = 0]
              IN x \in MemType /\ x.count = m.count /\ x.late = 0 /\ x.pending
           /\ LET x == [m EXCEPT !.pending = FALSE]
              IN x \in MemType /\ x.count = m.count /\ x.late = m.late /\ ~x.pending
<1>1. m.count + k \in Nat /\ m.late + k \in Nat
  BY DEF MemType
<1>. QED
  BY <1>1 DEF MemType

LEMMA Onwards ==
    ASSUME NEW t \in TaskType, NEW to \in {"check", "insert", "post", "release"}
    PROVE  /\ LET x == [t EXCEPT !.pc = to]
              IN x \in TaskType /\ x.pc = to /\ x.captured = t.captured
           /\ LET x == [t EXCEPT !.pc = to, !.token = TRUE]
              IN x \in TaskType /\ x.pc = to /\ x.captured = t.captured
BY DEF TaskType

\* Every step of a replica keeps its counter and its place.
LEMMA ReplicaStep ==
    ASSUME TriggerTypeOK, CountInv, NEW r \in Replicas,
           LoopStep(r) \/ TaskStep(r) \/ PostFails(r) \/ Throws(r) \/ Crash(r)
    PROVE  ReplicasKept /\ OthersKept
<1>. DEFINE RedisType == [lock : Replicas \union {Free}, tier : BOOLEAN]
<1>1. /\ mem[r].count <= stream.read /\ mem[r].count \in Nat /\ mem[r].late \in Nat
      /\ stream.read \in Nat /\ stream.sent \in Nat /\ stream.read <= stream.sent
      /\ mem[r] \in MemType /\ loop[r] \in LoopType /\ task[r] \in TaskType
      /\ task[r].captured \in Nat
  BY MineNow DEF Mine
<1>2. /\ redis \in RedisType /\ stream \in [sent : Nat, read : Nat] /\ faults \in 0..MaxFaults
      /\ mem = [mem EXCEPT ![r] = mem[r]] /\ loop = [loop EXCEPT ![r] = loop[r]]
      /\ task = [task EXCEPT ![r] = task[r]]
  BY DEF TriggerTypeOK, ReplicasTyped
<1>3. Fault => faults' \in 0..MaxFaults
  BY <1>2 DEF Fault
<1>4. ASSUME NEW m, NEW l, NEW t, Becomes(r, m, l, t), OthersKept PROVE ReplicasKept
  BY <1>4, OneBecomes DEF OthersKept
<1>5. ASSUME UNCHANGED stream, redis' \in RedisType, faults' \in 0..MaxFaults PROVE OthersKept
  BY <1>1, <1>2, <1>5 DEF OthersKept
<1>6. Mine(mem[r], loop[r], task[r])
  BY MineNow
\* A step of the trigger that goes on, or ends.
<1>7. ASSUME NEW t \in TaskType, t.pc \in {"check", "insert", "post", "release"},
             task[r].pc \in {"lock", "check", "insert", "post", "release"},
             t.pc # "release" => task[r].pc \in {"lock", "check", "insert", "post"},
             t.captured = task[r].captured, task' = [task EXCEPT ![r] = t],
             mem' = mem, loop' = loop, UNCHANGED stream,
             redis' \in RedisType, faults' \in 0..MaxFaults
      PROVE  ReplicasKept /\ OthersKept
  <2>1. OthersKept
    BY <1>5, <1>7
  <2>2. Mine(mem[r], loop[r], t)
    BY <1>6, <1>7 DEF Mine, NoTask
  <2>3. Becomes(r, mem[r], loop[r], t)
    BY <1>1, <1>2, <1>7, <2>2 DEF Becomes
  <2>. QED
    BY <1>4, <2>1, <2>3
<1>8. ASSUME task[r].pc # "idle", End(r), loop' = loop, UNCHANGED stream,
             redis' \in RedisType, faults' \in 0..MaxFaults
      PROVE  ReplicasKept /\ OthersKept
  <2>. DEFINE m == [mem[r] EXCEPT !.pending = FALSE]
  <2>1. OthersKept
    BY <1>5, <1>8
  <2>2. m \in MemType /\ m.count = mem[r].count /\ m.late = mem[r].late /\ ~m.pending
    BY <1>1, Counted
  <2>3. mem' = [mem EXCEPT ![r] = m] /\ task' = [task EXCEPT ![r] = NoTask]
    BY <1>8 DEF End
  <2>. HIDE DEF m
  <2>4. Mine(m, loop[r], NoTask)
    BY <1>6, <1>8, <2>2 DEF Mine, TaskType, NoTask
  <2>5. Becomes(r, m, loop[r], NoTask)
    BY <1>1, <1>2, <1>8, <2>2, <2>3, <2>4 DEF Becomes
  <2>. QED
    BY <1>4, <2>1, <2>5
<1>9. ASSUME NEW k \in 1..MaxResponses, Consume(r, k) PROVE ReplicasKept /\ OthersKept
  <2>. DEFINE m == [mem[r] EXCEPT !.count = @ + k, !.late = @ + k]
              l == [pc |-> IF mem[r].pending THEN "read" ELSE "report", tier |-> FALSE]
  <2>1. k \in Nat /\ OthersKept /\ stream'.read = stream.read + k
    BY <1>1, <1>2, <1>9 DEF Consume, OthersKept
  <2>2. /\ m \in MemType /\ m.count = mem[r].count + k /\ m.late = mem[r].late + k
        /\ m.pending <=> mem[r].pending
    <3>1. mem[r] \in MemType /\ k \in Nat
      BY <1>1, <2>1
    <3>. QED
      BY ONLY <3>1, Counted
  <2>3. mem' = [mem EXCEPT ![r] = m] /\ loop' = [loop EXCEPT ![r] = l] /\ task' = task
    BY <1>9 DEF Consume, Goto
  <2>. HIDE DEF m
  <2>4. Mine(m, l, task[r]) /\ m.count <= stream'.read
    BY <1>1, <1>6, <2>1, <2>2 DEF Mine, LoopType
  <2>. HIDE DEF l
  <2>5. Becomes(r, m, l, task[r])
    BY <1>2, <2>3, <2>4 DEF Becomes
  <2>. QED
    BY <1>4, <2>1, <2>5
<1>10. CASE DecideReport(r)
  <2>1. PICK l \in LoopType : loop' = [loop EXCEPT ![r] = l]
    BY <1>10 DEF DecideReport, Goto, LoopType
  <2>2. /\ mem' = mem /\ task' = task /\ loop[r].pc = "report"
        /\ UNCHANGED <<stream, redis, faults>>
    BY <1>10 DEF DecideReport
  <2>3. OthersKept
    BY <1>2, <1>5, <2>2
  <2>4. Mine(mem[r], l, task[r])
    BY <1>6, <2>2 DEF Mine
  <2>5. Becomes(r, mem[r], l, task[r])
    BY <1>1, <1>2, <2>1, <2>2, <2>4 DEF Becomes
  <2>. QED
    BY <1>4, <2>3, <2>5
<1>11. CASE StartTrigger(r)
  <2>. DEFINE l == [pc |-> "read", tier |-> FALSE]
              m == [mem[r] EXCEPT !.pending = TRUE, !.late = 0]
              t == [pc |-> "lock", captured |-> mem[r].count, token |-> FALSE]
  <2>1. UNCHANGED <<stream, faults>> /\ loop' = [loop EXCEPT ![r] = l]
    BY <1>11 DEF StartTrigger, Goto
  <2>2. redis' \in RedisType
    BY <1>1, <1>2, <1>11 DEF StartTrigger, LoopType
  <2>3. OthersKept
    BY <1>2, <1>5, <2>1, <2>2
  <2>4. CASE UNCHANGED <<redis, mem, task>>
    <3>1. Mine(mem[r], l, task[r])
      BY <1>6 DEF Mine, LoopType
    <3>. HIDE DEF l
    <3>2. Becomes(r, mem[r], l, task[r])
      BY <1>1, <1>2, <2>1, <2>4, <3>1 DEF Becomes
    <3>. QED
      BY <1>4, <2>3, <3>2
  <2>5. CASE mem' = [mem EXCEPT ![r].pending = TRUE, ![r].late = 0]
             /\ task' = [task EXCEPT ![r] = t]
    <3>1. mem' = [mem EXCEPT ![r] = m]
      BY <2>5
    <3>2. m \in MemType /\ m.count = mem[r].count /\ m.late = 0 /\ m.pending
      BY <1>1, Counted
    <3>. HIDE DEF m
    <3>3. Mine(m, l, t)
      BY <1>1, <3>2 DEF Mine, LoopType, TaskType, NoTask
    <3>. HIDE DEF l, t
    <3>4. Becomes(r, m, l, t)
      BY <1>1, <2>1, <2>5, <3>1, <3>2, <3>3 DEF Becomes
    <3>. QED
      BY <1>4, <2>3, <3>4
  <2>. QED
    BY <1>11, <2>4, <2>5 DEF StartTrigger
<1>12. CASE Lock(r)
  <2>1. task[r].pc = "lock" /\ loop' = loop /\ UNCHANGED stream
    BY <1>12 DEF Lock
  <2>2. redis' \in RedisType
    BY <1>2, <1>12 DEF Lock
  <2>3. CASE End(r) /\ UNCHANGED faults
    BY <1>2, <1>8, <2>1, <2>2, <2>3
  <2>4. CASE mem' = mem /\ UNCHANGED faults
             /\ task' = [task EXCEPT ![r].pc = "check", ![r].token = TRUE]
    <3>. DEFINE t == [task[r] EXCEPT !.pc = "check", !.token = TRUE]
    <3>1. t \in TaskType /\ t.pc = "check" /\ t.captured = task[r].captured
      BY <1>1, Onwards
    <3>2. task' = [task EXCEPT ![r] = t]
      BY <2>4
    <3>. HIDE DEF t
    <3>. QED
      BY <1>2, <1>7, <2>1, <2>2, <2>4, <3>1, <3>2
  <2>5. CASE mem' = mem /\ Fault /\ Step(r, "check")
    <3>. DEFINE t == [task[r] EXCEPT !.pc = "check"]
    <3>1. t \in TaskType /\ t.pc = "check" /\ t.captured = task[r].captured
      BY <1>1, Onwards
    <3>2. task' = [task EXCEPT ![r] = t]
      BY <2>5 DEF Step
    <3>. HIDE DEF t
    <3>. QED
      BY <1>3, <1>7, <2>1, <2>2, <2>5, <3>1, <3>2
  <2>. QED
    BY <1>12, <2>3, <2>4, <2>5 DEF Lock
<1>13. CASE Check(r) \/ Insert(r) \/ PostFails(r) \/ Throws(r)
  <2>1. PICK to \in {"insert", "post", "release"} : Step(r, to)
    BY <1>13 DEF Check, Insert, PostFails, Throws
  <2>2. /\ task[r].pc \in {"check", "insert", "post"} /\ mem' = mem /\ loop' = loop
        /\ UNCHANGED <<stream, redis>> /\ faults' \in 0..MaxFaults
    BY <1>2, <1>3, <1>13 DEF Check, Insert, PostFails, Throws
  <2>. DEFINE t == [task[r] EXCEPT !.pc = to]
  <2>3. t \in TaskType /\ t.pc = to /\ t.captured = task[r].captured
    <3>1. task[r] \in TaskType /\ to \in {"check", "insert", "post", "release"}
      BY <1>1
    <3>. QED
      BY ONLY <3>1, Onwards
  <2>4. task' = [task EXCEPT ![r] = t]
    BY <2>1 DEF Step
  <2>. HIDE DEF t
  <2>. QED
    BY <1>2, <1>7, <2>2, <2>3, <2>4
<1>14. CASE Post(r)
  <2>. DEFINE d == Larger(0, mem[r].count - task[r].captured)
              m == [mem[r] EXCEPT !.count = d, !.ran = TRUE]
              t == [task[r] EXCEPT !.pc = "release"]
  <2>1. /\ loop' = loop /\ UNCHANGED <<stream, redis, faults>> /\ task[r].pc = "post"
    BY <1>14 DEF Post
  <2>2. OthersKept
    BY <1>2, <1>5, <2>1
  <2>3. mem' = [mem EXCEPT ![r] = m] /\ task' = [task EXCEPT ![r] = t]
    BY <1>14 DEF Post, Step
  <2>4. mem[r].count >= task[r].captured + mem[r].late
    BY <1>6, <2>1 DEF Mine
  <2>5. d \in Nat /\ d >= mem[r].late /\ d <= stream.read
    BY <1>1, <2>4 DEF Larger
  <2>. HIDE DEF d
  <2>6. m \in MemType /\ m.count = d /\ m.late = mem[r].late /\ (m.pending <=> mem[r].pending)
    <3>1. mem[r] \in MemType /\ d \in Nat
      BY <1>1, <2>5
    <3>. QED
      BY ONLY <3>1, Counted
  <2>7. t \in TaskType /\ t.pc = "release"
    BY <1>1, Onwards
  <2>. HIDE DEF m, t
  <2>8. Mine(m, loop[r], t)
    BY <1>6, <2>1, <2>5, <2>6, <2>7 DEF Mine, NoTask
  <2>9. Becomes(r, m, loop[r], t)
    BY <1>2, <2>1, <2>3, <2>5, <2>6, <2>8 DEF Becomes
  <2>. QED
    BY <1>4, <2>2, <2>9
<1>15. CASE Release(r)
  <2>1. /\ task[r].pc = "release" /\ loop' = loop /\ UNCHANGED stream /\ End(r)
        /\ faults' \in 0..MaxFaults
    BY <1>2, <1>3, <1>15 DEF Release
  <2>2. redis' \in RedisType
    BY <1>2, <1>15 DEF Release
  <2>. QED
    BY <1>8, <2>1, <2>2
<1>16. CASE Crash(r)
  <2>. DEFINE l == [pc |-> "read", tier |-> FALSE]
  <2>1. OthersKept
    BY <1>2, <1>3, <1>5, <1>16 DEF Crash
  <2>2. Mine(NoCounts, l, NoTask) /\ NoCounts.count = 0
    BY DEF Mine, NoCounts, NoTask, LoopType, MemType, TaskType
  <2>3. Becomes(r, NoCounts, l, NoTask)
    BY <1>1, <1>16, <2>2 DEF Becomes, Crash, Goto
  <2>. QED
    BY <1>4, <2>1, <2>3
<1>. QED
  BY <1>9, <1>10, <1>11, <1>12, <1>13, <1>14, <1>15, <1>16 DEF LoopStep, TaskStep
-----------------------------------------------------------------------------
(* The whole.                                                              *)

TriggerInv == TriggerTypeOK /\ CountInv

\* Pipelines and the scheduler do nothing to what consumers use.
LEMMA OthersAside ==
    ASSUME TriggerTypeOK,
           SchedulerStep \/ \E i \in DOMAIN runs : PipelineStep(i) \/ PipelineFails(i) \/ Ages(i)
    PROVE  UNCHANGED <<stream, mem, loop, task, redis>> /\ faults' \in 0..MaxFaults
<1>0. faults' = faults \/ Fault => faults' \in 0..MaxFaults
  BY DEF TriggerTypeOK, Fault
<1>1. ASSUME SchedulerStep
      PROVE  UNCHANGED <<stream, mem, loop, task, redis>> /\ (faults' = faults \/ Fault)
  BY <1>1 DEF SchedulerStep, Due, TickStep, SweepStep, RecoverStale, ScheduleRun,
     PostScheduled, FindZombie, KillZombie, SchedulerFails, consumerVars
<1>2. ASSUME NEW i \in DOMAIN runs, PipelineStep(i) \/ PipelineFails(i) \/ Ages(i)
      PROVE  UNCHANGED <<stream, mem, loop, task, redis>> /\ (faults' = faults \/ Fault)
  BY <1>2 DEF PipelineStep, Beat, Gate, Publish, PublishNothing, MarkCompleted,
     WriteCheckpoint, PipelineFails, Ages, consumerVars
<1>. QED
  BY <1>0, <1>1, <1>2

\* What no step of a replica touches keeps the counters in order.
LEMMA CountsAside ==
    ASSUME TriggerInv, UNCHANGED <<mem, loop, task>>, stream'.read = stream.read,
           redis' \in [lock : Replicas \union {Free}, tier : BOOLEAN]
    PROVE  ReplicasKept
BY DEF TriggerInv, TriggerTypeOK, ReplicasTyped, InStep, CountInv, Counts, Decided, ReplicasKept

\* The parts of the invariant make the whole.
LEMMA Together ==
    ASSUME ReplicasKept, RowsKept, responses' \in 0..MaxResponses,
           stream' \in [sent : Nat, read : Nat], stream'.read <= stream'.sent,
           stream'.sent <= responses', faults' \in 0..MaxFaults,
           report' \in [parent : BOOLEAN, covered : Nat, seen : Nat],
           report'.covered <= responses', report'.seen <= responses',
           sched' \in [Loops -> {"idle", "kill", "insert", "post"}]
    PROVE  TriggerInv'
BY DEF TriggerInv, TriggerTypeOK, ReplicasKept, RowsKept, RunsTyped, InStep

LEMMA TriggerStarts == Init => TriggerInv
<1>. SUFFICES ASSUME Init PROVE TriggerInv
  OBVIOUS
<1>1. runs \in Seq(RunType) /\ Len(runs) = 0 /\ DOMAIN runs = {}
  BY DEF Init
<1>2. ReplicasTyped
  BY DEF Init, ReplicasTyped, NoCounts, NoTask
<1>3. CountInv /\ \A r \in Replicas : mem[r].count = 0
  BY DEF Init, CountInv, Counts, Decided, NoCounts, NoTask
<1>4. RunsTyped
  BY <1>1 DEF Init, RunsTyped
<1>5. InStep
  BY <1>1, <1>3 DEF Init, InStep
<1>. QED
  BY <1>2, <1>3, <1>4, <1>5 DEF Init, TriggerInv, TriggerTypeOK

LEMMA TriggerGoesOn == TriggerInv /\ [Next]_vars => TriggerInv'
<1>. SUFFICES ASSUME TriggerInv, [Next]_vars PROVE TriggerInv'
  OBVIOUS
<1>1. /\ TriggerTypeOK /\ CountInv /\ responses \in 0..MaxResponses /\ responses \in Nat
      /\ stream \in [sent : Nat, read : Nat] /\ stream.read \in Nat /\ stream.sent \in Nat
      /\ stream.read <= stream.sent /\ stream.sent <= responses /\ faults \in 0..MaxFaults
      /\ report \in [parent : BOOLEAN, covered : Nat, seen : Nat]
      /\ report.covered <= responses /\ report.seen <= responses
      /\ report.covered \in Nat /\ report.seen \in Nat
      /\ sched \in [Loops -> {"idle", "kill", "insert", "post"}]
      /\ redis \in [lock : Replicas \union {Free}, tier : BOOLEAN]
  BY DEF TriggerInv, TriggerTypeOK, ReplicasTyped, RunsTyped, InStep
<1>2. CASE Respond
  <2>1. /\ responses' = responses + 1 /\ responses' \in 0..MaxResponses
        /\ UNCHANGED <<mem, loop, task, redis, runs, report, sched>>
    BY <1>1, <1>2 DEF Respond, consumerVars, runVars
  <2>2. /\ stream' \in [sent : Nat, read : Nat] /\ stream'.read = stream.read
        /\ stream'.sent <= responses' /\ stream'.read <= stream'.sent /\ faults' \in 0..MaxFaults
    BY <1>1, <1>2, <2>1 DEF Respond, Fault
  <2>3. ReplicasKept
    BY <1>1, <2>1, <2>2, CountsAside
  <2>4. RowsKept
    BY <1>1, <2>1, RewrittenKept
  <2>. QED
    BY <1>1, <2>1, <2>2, <2>3, <2>4, Together
<1>3. CASE LockExpires
  <2>1. UNCHANGED <<responses, stream, mem, loop, task, runs, report, sched, faults>>
    BY <1>3 DEF LockExpires, runVars
  <2>2. redis' \in [lock : Replicas \union {Free}, tier : BOOLEAN]
    BY <1>1, <1>3 DEF LockExpires
  <2>3. ReplicasKept
    BY <2>1, <2>2, CountsAside
  <2>4. RowsKept
    BY <1>1, <2>1, RewrittenKept
  <2>. QED
    BY <1>1, <2>1, <2>3, <2>4, Together
<1>4. CASE SchedulerStep
  <2>1. UNCHANGED <<stream, mem, loop, task, redis>> /\ faults' \in 0..MaxFaults
    BY <1>1, <1>4, OthersAside
  <2>2. /\ responses' = responses /\ report' = report /\ RowsKept
        /\ sched' \in [Loops -> {"idle", "kill", "insert", "post"}]
    BY <1>1, <1>4, SchedulerRows
  <2>3. ReplicasKept
    BY <1>1, <2>1, CountsAside
  <2>. QED
    BY <1>1, <2>1, <2>2, <2>3, Together
<1>5. ASSUME NEW i \in DOMAIN runs, PipelineStep(i) \/ PipelineFails(i) \/ Ages(i)
      PROVE  TriggerInv'
  <2>1. UNCHANGED <<stream, mem, loop, task, redis>> /\ faults' \in 0..MaxFaults
    BY <1>1, <1>5, OthersAside
  <2>2. /\ responses' = responses /\ sched' = sched /\ RowsKept
        /\ report' \in [parent : BOOLEAN, covered : Nat, seen : Nat]
        /\ report'.covered <= responses' /\ report'.seen <= responses'
    BY <1>1, <1>5, PipelineRows
  <2>3. ReplicasKept
    BY <1>1, <2>1, CountsAside
  <2>. QED
    BY <1>1, <2>1, <2>2, <2>3, Together
<1>6. ASSUME NEW r \in Replicas,
             LoopStep(r) \/ TaskStep(r) \/ PostFails(r) \/ Throws(r) \/ Crash(r)
      PROVE  TriggerInv'
  <2>1. ReplicasKept /\ OthersKept
    BY <1>1, <1>6, ReplicaStep
  <2>2. responses' = responses /\ report' = report /\ sched' = sched /\ RowsKept
    BY <1>1, <1>6, ReplicaRows
  <2>. QED
    BY <1>1, <2>1, <2>2, Together DEF OthersKept
<1>7. CASE UNCHANGED vars
  <2>1. ReplicasKept
    BY <1>1, <1>7, CountsAside DEF vars
  <2>2. RowsKept
    BY <1>1, <1>7, RewrittenKept DEF vars
  <2>. QED
    BY <1>1, <1>7, <2>1, <2>2, Together DEF vars
<1>. QED
  BY <1>2, <1>3, <1>4, <1>5, <1>6, <1>7 DEF Next, SchedulerStep

LEMMA TriggerHolds == Spec => []TriggerInv
BY TriggerStarts, TriggerGoesOn, PTL DEF Spec

\* However replicas, pipelines and the scheduler interleave and fail, every
\* variable keeps its type and nobody counts, reads or reports more than there is.
THEOREM TriggerTyped == Spec => []TriggerTypeOK
<1>1. TriggerInv => TriggerTypeOK
  BY DEF TriggerInv
<1>. QED
  BY <1>1, TriggerHolds, PTL

\* An event read while a trigger was in flight is on the counter when it ends and
\* until the next one starts: what a trigger takes off is what it had captured.
THEOREM LateEventsCount == Spec => []EventsStillCount
<1>1. TriggerInv => EventsStillCount
  BY DEF TriggerInv, CountInv, Counts, EventsStillCount
<1>. QED
  BY <1>1, TriggerHolds, PTL

\* response_stream.py's pending set: a loop that decides on a trigger, or starts
\* one, has none in flight, and forgets none that is.
OneTrigger ==
    \A r \in Replicas : /\ loop[r].pc \in {"report", "start"} => task[r] = NoTask
                        /\ mem[r].pending <=> task[r] # NoTask

\* A replica never has two triggers in flight: events can only be taken off its
\* counter once.
THEOREM OneTriggerAtATime == Spec => []OneTrigger
<1>1. TriggerInv => OneTrigger
  BY DEF TriggerInv, CountInv, Decided, OneTrigger, NoTask
<1>. QED
  BY <1>1, TriggerHolds, PTL
===============================================================================

--------------------------- MODULE ResponseTrigger ---------------------------
(***************************************************************************)
(* How new responses lead to insight runs (src/crystalos): the stream      *)
(* consumer of each replica of the agents service counts response events   *)
(* in memory and starts a run at a threshold                               *)
(* (consumers/response_stream.py), the scheduler starts runs for surveys   *)
(* that are due and sweeps zombies (scheduler.py), and the                 *)
(* pipeline of a run skips, publishes or dies (graphs/insights.py).        *)
(* One survey; one action per await that touches shared state.             *)
(***************************************************************************)
EXTENDS Integers, Sequences, FiniteSets

CONSTANTS
    Replicas,      \* processes with a consumer loop
    Threshold,     \* stream_response_threshold
    TierAt,        \* responses at which the progressive tier starts a run
    SlowRuns,      \* whether a pipeline may outlive the cut-offs
    MaxResponses,  \* bound on responses
    MaxRuns,       \* bound on the rows of agent_runs that matter
    MaxFaults      \* bound on failures

ASSUME TriggerAssumption ==
    /\ {Threshold, TierAt} \subseteq Nat \ {0}
    /\ {MaxResponses, MaxRuns, MaxFaults} \subseteq Nat /\ SlowRuns \in BOOLEAN

VARIABLES
    responses, \* rows of the responses table
    stream,    \* insight_events: entries published, and how many the group has read
    mem,       \* per replica: its counters and its pending set
    loop,      \* per replica: where its consumer loop is, and the tier it found due
    task,      \* per replica: its trigger in flight
    redis,     \* the trigger lock, and whether the tier is marked
    runs,      \* agent_runs of the survey, oldest first
    report,    \* the checkpoints: whether there is one, the responses up to its watermark;
               \* and (history) the most responses a run has analysed to the end
    sched,     \* where the scheduler's two loops are
    faults

vars == <<responses, stream, mem, loop, task, redis, runs, report, sched, faults>>
\* What only the consumers use, and what only pipelines and the scheduler use.
consumerVars == <<mem, loop, task, redis>>
runVars == <<runs, report, sched>>

Free == "free"
Loops == {"tick", "sweep"}
NoTask == [pc |-> "idle", captured |-> 0, token |-> FALSE]
NoCounts == [count |-> 0, late |-> 0, ran |-> FALSE, pending |-> FALSE]

Init ==
    /\ responses = 0 /\ stream = [sent |-> 0, read |-> 0]
    /\ mem = [r \in Replicas |-> NoCounts]
    /\ loop = [r \in Replicas |-> [pc |-> "read", tier |-> FALSE]]
    /\ task = [r \in Replicas |-> NoTask]
    /\ redis = [lock |-> Free, tier |-> FALSE]
    /\ runs = <<>> /\ report = [parent |-> FALSE, covered |-> 0, seen |-> 0]
    /\ sched = [s \in Loops |-> "idle"]
    /\ faults = 0

Fault == faults < MaxFaults /\ faults' = faults + 1
Larger(m, n) == IF m > n THEN m ELSE n

\* A response is stored and, Redis permitting, its event is published.
Respond ==
    /\ responses < MaxResponses
    /\ responses' = responses + 1
    /\ \/ stream' = [stream EXCEPT !.sent = @ + 1] /\ UNCHANGED faults
       \/ Fault /\ UNCHANGED stream
    /\ UNCHANGED <<consumerVars, runVars>>
-----------------------------------------------------------------------------
(* The consumer loop of a replica.  The XACK at the end of a batch has no  *)
(* effect on it: entries that were read are never read again.              *)

Goto(r, pc) == loop' = [loop EXCEPT ![r] = [pc |-> pc, tier |-> FALSE]]

\* XREADGROUP and, without an await, the counting of phase 1.
Consume(r, k) ==
    /\ loop[r].pc = "read" /\ stream.read + k <= stream.sent
    /\ stream' = [stream EXCEPT !.read = @ + k]
    /\ mem' = [mem EXCEPT ![r].count = @ + k, ![r].late = @ + k]
    /\ Goto(r, IF mem[r].pending THEN "read" ELSE "report")
    /\ UNCHANGED <<responses, task, redis, runVars, faults>>

\* Phase 2b: the threshold, or the time since the last run, or a tier not yet
\* marked.  Any time may have passed.
DecideReport(r) ==
    /\ loop[r].pc = "report"
    /\ LET tier == responses >= TierAt /\ ~redis.tier
           due == mem[r].count >= Threshold \/ tier
       IN \/ loop' = [loop EXCEPT ![r] = [pc |-> IF due THEN "start" ELSE "read", tier |-> tier]]
          \/ mem[r].ran /\ mem[r].count > 0 /\ ~due /\ Goto(r, "start")
    /\ UNCHANGED <<responses, stream, mem, task, redis, runVars, faults>>

\* The survey may be paused; else the tier is marked and a task created.
StartTrigger(r) ==
    /\ loop[r].pc = "start" /\ task[r] = NoTask
    /\ \/ UNCHANGED <<redis, mem, task>>
       \/ /\ redis' = [redis EXCEPT !.tier = @ \/ loop[r].tier]
          /\ mem' = [mem EXCEPT ![r].pending = TRUE, ![r].late = 0]
          /\ task' = [task EXCEPT ![r] =
               [pc |-> "lock", captured |-> mem[r].count, token |-> FALSE]]
    /\ Goto(r, "read")
    /\ UNCHANGED <<responses, stream, runVars, faults>>
-----------------------------------------------------------------------------
(* _trigger_with_retry: it never retries, since _trigger_insights throws   *)
(* nothing.                                                                *)

Step(r, pc) == task' = [task EXCEPT ![r].pc = pc]
End(r) == /\ task' = [task EXCEPT ![r] = NoTask]
          /\ mem' = [mem EXCEPT ![r].pending = FALSE]

\* SET NX EX 120; without Redis it goes on without a token.
Lock(r) ==
    /\ task[r].pc = "lock"
    /\ \/ /\ redis.lock = Free
          /\ redis' = [redis EXCEPT !.lock = r]
          /\ task' = [task EXCEPT ![r].pc = "check", ![r].token = TRUE]
          /\ UNCHANGED <<mem, faults>>
       \/ redis.lock # Free /\ End(r) /\ UNCHANGED <<redis, faults>>
       \/ Fault /\ Step(r, "check") /\ UNCHANGED <<mem, redis>>
    /\ UNCHANGED <<responses, stream, loop, runVars>>

NewRun(by) == [status |-> "running", age |-> "new", work |-> "unsent",
               by |-> by, read |-> 0, doomed |-> FALSE]
Live(run) == run.status = "running" /\ run.age = "fresh"
Zombie(run) == run.status = "running" /\ run.age # "fresh"

\* The read count of the run created last of those completed.
LastCompleted(rs) == {i \in DOMAIN rs : rs[i].status = "completed" /\
                        \A j \in DOMAIN rs : rs[j].status = "completed" => j <= i}
\* Rows no query can find any more are left out of the model.
Findable(rs, i) ==
    \/ rs[i].status = "running" \/ rs[i].work # "over" \/ rs[i].doomed
    \/ rs[i].status = "completed" /\ rs[i].age # "old"
    \/ i \in LastCompleted(rs)

\* The others keep their order, and the new one is the youngest.
InsertRun(rs, by) ==
    LET kept == {i \in DOMAIN rs : Findable(rs, i)}
    IN /\ Cardinality(kept) < MaxRuns
       /\ \E at \in [1..Cardinality(kept) -> kept] :
            /\ \A m, n \in DOMAIN at : m < n => at[m] < at[n]
            /\ runs' = Append([n \in DOMAIN at |-> rs[at[n]]], NewRun(by))
ChangeRun(i, run) == runs' = [runs EXCEPT ![i] = run]

\* A live run of the survey ends the trigger.
Check(r) ==
    /\ task[r].pc = "check"
    /\ Step(r, IF \E i \in DOMAIN runs : Live(runs[i]) THEN "release" ELSE "insert")
    /\ UNCHANGED <<responses, stream, mem, loop, redis, runVars, faults>>

\* Zombies are failed, a run is inserted, the transaction commits.
Insert(r) ==
    /\ task[r].pc = "insert"
    /\ InsertRun([i \in DOMAIN runs |->
         IF Zombie(runs[i]) THEN [runs[i] EXCEPT !.status = "failed"] ELSE runs[i]], r)
    /\ Step(r, "post")
    /\ UNCHANGED <<responses, stream, mem, loop, redis, report, sched, faults>>

\* The POST of the run that "by" inserted: the service starts its pipeline.
Send(by, work) ==
    runs' = [i \in DOMAIN runs |->
      IF runs[i].by = by /\ runs[i].work = "unsent" THEN [runs[i] EXCEPT !.work = work]
      ELSE runs[i]]

\* Mutant: all events are taken off the counter.
PostAndReset(r) ==
    /\ task[r].pc = "post"
    /\ Send(r, "sent")
    /\ mem' = [mem EXCEPT ![r].count = 0, ![r].ran = TRUE]
    /\ Step(r, "release")
    /\ UNCHANGED <<responses, stream, loop, redis, report, sched, faults>>

\* POST /insights/generate, whatever the status of the answer; the events that
\* made the trigger are taken off the counter.
Post(r) ==
    /\ task[r].pc = "post"
    /\ Send(r, "sent")
    /\ mem' = [mem EXCEPT ![r].count = Larger(0, @ - task[r].captured), ![r].ran = TRUE]
    /\ Step(r, "release")
    /\ UNCHANGED <<responses, stream, loop, redis, report, sched, faults>>

\* The POST or its answer is lost, or the service refuses it with a status
\* nobody looks at.
PostFails(r) ==
    /\ task[r].pc = "post"
    /\ Fault
    /\ Send(r, "over") \/ Send(r, "sent")
    /\ Step(r, "release")
    /\ UNCHANGED <<responses, stream, mem, loop, redis, report, sched>>

\* A statement throws and is logged.
Throws(r) ==
    /\ task[r].pc \in {"check", "insert"}
    /\ Fault
    /\ Step(r, "release")
    /\ UNCHANGED <<responses, stream, mem, loop, redis, runVars>>

\* The lock is deleted by compare-and-delete; without Redis it is left to its TTL.
Release(r) ==
    /\ task[r].pc = "release"
    /\ \/ redis' = [redis EXCEPT !.lock = IF task[r].token /\ @ = r THEN Free ELSE @]
          /\ UNCHANGED faults
       \/ task[r].token /\ Fault /\ UNCHANGED redis
    /\ End(r)
    /\ UNCHANGED <<responses, stream, loop, runVars>>

\* 120 s are over: the holder is gone or slow.
LockExpires ==
    /\ redis.lock # Free
    /\ SlowRuns \/ task[redis.lock] = NoTask
    /\ redis' = [redis EXCEPT !.lock = Free]
    /\ UNCHANGED <<responses, stream, mem, loop, task, runVars, faults>>

\* The process dies with its counters, its tasks and the events it had read.
Crash(r) ==
    /\ Fault
    /\ mem' = [mem EXCEPT ![r] = NoCounts]
    /\ Goto(r, "read")
    /\ task' = [task EXCEPT ![r] = NoTask]
    /\ runs' = [i \in DOMAIN runs |->
         IF runs[i].work = "unsent" /\ runs[i].by = r
         THEN [runs[i] EXCEPT !.work = "over"] ELSE runs[i]]
    /\ UNCHANGED <<responses, stream, redis, report, sched>>
-----------------------------------------------------------------------------
(* run_insight_generation.  The advisory lock of node_ingest ends with the *)
(* statement that takes it and keeps nobody out.                           *)

\* node_resolve_context: the first heartbeat.
Beat(i) ==
    /\ runs[i].work = "sent"
    /\ ChangeRun(i, [runs[i] EXCEPT !.work = "gate", !.age = IF @ = "new" THEN "fresh" ELSE @])
    /\ UNCHANGED <<responses, stream, consumerVars, report, sched, faults>>

\* Mutant: a skipped run records the responses it found.
GateCounting(i) ==
    /\ runs[i].work = "gate"
    /\ \/ ChangeRun(i, [runs[i] EXCEPT !.status = "completed", !.work = "over",
                                       !.read = responses]) /\ UNCHANGED faults
       \/ /\ ~(report.covered > 0 /\ responses - report.covered < Threshold)
          /\ \/ ChangeRun(i, [runs[i] EXCEPT !.work = "on", !.read = responses])
                /\ UNCHANGED faults
             \/ ChangeRun(i, [runs[i] EXCEPT !.work = "on"]) /\ Fault
    /\ UNCHANGED <<responses, stream, consumerVars, report, sched>>

\* node_resolve_context: below the threshold, or when the organisation has switched
\* automated insights off, the run is skipped, and completed without a response count.
\* node_ingest, which finds no survey or no access, goes on without responses.
Gate(i) ==
    /\ runs[i].work = "gate"
    /\ \/ ChangeRun(i, [runs[i] EXCEPT !.status = "completed", !.work = "over"])
          /\ UNCHANGED faults
       \/ /\ ~(report.covered > 0 /\ responses - report.covered < Threshold)
          /\ \/ ChangeRun(i, [runs[i] EXCEPT !.work = "on", !.read = responses])
                /\ UNCHANGED faults
             \/ ChangeRun(i, [runs[i] EXCEPT !.work = "on"]) /\ Fault
    /\ UNCHANGED <<responses, stream, consumerVars, report, sched>>

\* node_publish, phase 1: the insights.
Publish(i) ==
    /\ runs[i].work = "on"
    /\ report' = [report EXCEPT !.seen = Larger(@, runs[i].read)]
    /\ ChangeRun(i, [runs[i] EXCEPT !.work = "status"])
    /\ UNCHANGED <<responses, stream, consumerVars, sched, faults>>

\* With a checkpoint to compare with and no meaningful change since, the run is completed
\* and publishes nothing; an error in that is logged.
PublishNothing(i) ==
    /\ runs[i].work = "on" /\ report.parent
    /\ report' = [report EXCEPT !.seen = Larger(@, runs[i].read)]
    /\ \/ ChangeRun(i, [runs[i] EXCEPT !.status = "completed", !.work = "over"])
          /\ UNCHANGED faults
       \/ ChangeRun(i, [runs[i] EXCEPT !.work = "over"]) /\ Fault
    /\ UNCHANGED <<responses, stream, consumerVars, sched>>

\* Phase 2: the status, whatever it has become meanwhile; an error is logged.
MarkCompleted(i) ==
    /\ runs[i].work = "status"
    /\ \/ ChangeRun(i, [runs[i] EXCEPT !.status = "completed", !.work = "checkpoint"])
          /\ UNCHANGED faults
       \/ ChangeRun(i, [runs[i] EXCEPT !.work = "checkpoint"]) /\ Fault
    /\ UNCHANGED <<responses, stream, consumerVars, report, sched>>

\* Then the checkpoint with the watermark of what was read; an error is logged.
WriteCheckpoint(i) ==
    /\ runs[i].work = "checkpoint"
    /\ \/ report' = [report EXCEPT !.parent = TRUE, !.covered = runs[i].read]
          /\ UNCHANGED faults
       \/ Fault /\ UNCHANGED report
    /\ ChangeRun(i, [runs[i] EXCEPT !.work = "over"])
    /\ UNCHANGED <<responses, stream, consumerVars, sched>>

\* A node throws, or the process dies and leaves the row running.
PipelineFails(i) ==
    /\ runs[i].work \in {"sent", "gate", "on", "status", "checkpoint"}
    /\ Fault
    /\ \/ ChangeRun(i, [runs[i] EXCEPT !.work = "over", !.status = "failed"])
       \/ ChangeRun(i, [runs[i] EXCEPT !.work = "over"])
    /\ UNCHANGED <<responses, stream, consumerVars, report, sched>>

\* Five minutes without a heartbeat; ten minutes and two hours since the INSERT.
Ages(i) ==
    /\ runs[i].work = "over" \/ SlowRuns
    /\ runs[i].age # "old" /\ ChangeRun(i, [runs[i] EXCEPT !.age =
         IF @ = "fresh" /\ runs[i].status = "running" THEN "stale" ELSE "old"])
    /\ UNCHANGED <<responses, stream, consumerVars, report, sched, faults>>
-----------------------------------------------------------------------------
(* The scheduler: one process, in which the tick and the sweep of zombies  *)
(* are loops of their own.                                                 *)

At(s, pc) == sched[s] = pc
Move(s, pc) == sched' = [sched EXCEPT ![s] = pc]

\* _recover_stale_runs, at the start of a tick.
RecoverStale ==
    /\ At("tick", "idle")
    /\ \E i \in DOMAIN runs : runs[i].status = "running" /\ runs[i].age = "old"
    /\ runs' = [i \in DOMAIN runs |->
         IF runs[i].status = "running" /\ runs[i].age = "old"
         THEN [runs[i] EXCEPT !.status = "cancelled"] ELSE runs[i]]
    /\ UNCHANGED <<responses, stream, consumerVars, report, sched, faults>>

\* sweep_zombie_runs: the SELECT, then for each run the UPDATE and, whether it
\* still was running or not, a new run.
FindZombie(i) ==
    /\ At("sweep", "idle") /\ Zombie(runs[i]) /\ runs[i].age # "new"
    /\ ChangeRun(i, [runs[i] EXCEPT !.doomed = TRUE])
    /\ Move("sweep", "kill")
    /\ UNCHANGED <<responses, stream, consumerVars, report, faults>>

KillZombie(i) ==
    /\ At("sweep", "kill") /\ runs[i].doomed
    /\ ChangeRun(i, [runs[i] EXCEPT !.doomed = FALSE,
                                    !.status = IF @ = "running" THEN "failed" ELSE @])
    /\ Move("sweep", "insert")
    /\ UNCHANGED <<responses, stream, consumerVars, report, faults>>

\* _get_surveys_due, in a survey's own terms: it has responses, and no run that is
\* running or was completed a short while ago.
IsDue ==
    /\ responses > 0
    /\ \A i \in DOMAIN runs : /\ runs[i].status # "running"
                              /\ runs[i].status = "completed" => runs[i].age = "old"

Comparable == \A i \in LastCompleted(runs) : runs[i].read > 0 => responses > runs[i].read

\* Of the surveys that are due a tick takes the twenty with the most responses, and of
\* those only active and paused ones: this one it may leave out for ever.  The count of
\* the last completed run is compared with, unless it cannot be read.
Due ==
    /\ At("tick", "idle") /\ IsDue
    /\ (Comparable /\ UNCHANGED faults) \/ Fault
    /\ Move("tick", "insert")
    /\ UNCHANGED <<responses, stream, consumerVars, runs, report>>

\* _trigger_generation, of either loop.
ScheduleRun(s) ==
    /\ At(s, "insert")
    /\ InsertRun(runs, s)
    /\ Move(s, "post")
    /\ UNCHANGED <<responses, stream, consumerVars, report, faults>>

\* A failing POST fails the run, even when the service had started it.
PostScheduled(s) ==
    /\ At(s, "post")
    /\ \/ Send(s, "sent") /\ UNCHANGED faults
       \/ /\ Fault
          /\ \E work \in {"sent", "over"} :
               runs' = [i \in DOMAIN runs |->
                 IF runs[i].by = s /\ runs[i].work = "unsent"
                 THEN [runs[i] EXCEPT !.work = work, !.status = "failed"] ELSE runs[i]]
    /\ Move(s, "idle")
    /\ UNCHANGED <<responses, stream, consumerVars, report>>

\* The process dies, or a statement throws and ends the tick or the sweep.
SchedulerFails(stopped) ==
    /\ \E s \in stopped : ~At(s, "idle")
    /\ Fault
    /\ sched' = [s \in Loops |-> IF s \in stopped THEN "idle" ELSE sched[s]]
    /\ runs' = [i \in DOMAIN runs |->
         [runs[i] EXCEPT !.doomed = @ /\ "sweep" \notin stopped,
            !.work = IF @ = "unsent" /\ runs[i].by \in stopped THEN "over" ELSE @]]
    /\ UNCHANGED <<responses, stream, consumerVars, report>>
-----------------------------------------------------------------------------
LoopStep(r) ==
    \/ \E k \in 1..MaxResponses : Consume(r, k)
    \/ DecideReport(r) \/ StartTrigger(r)

TaskStep(r) == Lock(r) \/ Check(r) \/ Insert(r) \/ Post(r) \/ Release(r)

PipelineStep(i) ==
    \/ Beat(i) \/ Gate(i) \/ Publish(i) \/ PublishNothing(i)
    \/ MarkCompleted(i) \/ WriteCheckpoint(i)

TickStep == RecoverStale \/ ScheduleRun("tick") \/ PostScheduled("tick")

SweepStep ==
    \/ ScheduleRun("sweep") \/ PostScheduled("sweep")
    \/ \E i \in DOMAIN runs : FindZombie(i) \/ KillZombie(i)

Next ==
    \/ Respond \/ LockExpires \/ Due \/ TickStep \/ SweepStep
    \/ \E stopped \in SUBSET Loops : SchedulerFails(stopped)
    \/ \E r \in Replicas : LoopStep(r) \/ TaskStep(r) \/ PostFails(r) \/ Throws(r) \/ Crash(r)
    \/ \E i \in DOMAIN runs : PipelineStep(i) \/ PipelineFails(i) \/ Ages(i)

InRuns(i) == i \in DOMAIN runs

(* Loops, tasks and the scheduler's timers go on, and time passes; that a  *)
(* tick takes a survey that is due is not promised.                        *)
Fairness ==
    /\ \A r \in Replicas : WF_vars(LoopStep(r)) /\ WF_vars(TaskStep(r))
    /\ \A i \in 1..MaxRuns : /\ WF_vars(InRuns(i) /\ PipelineStep(i))
                             /\ WF_vars(InRuns(i) /\ Ages(i))
    /\ WF_vars(LockExpires) /\ WF_vars(TickStep) /\ WF_vars(SweepStep)

Spec == Init /\ [][Next]_vars /\ Fairness
-----------------------------------------------------------------------------
RunType ==
    [status : {"running", "completed", "failed", "cancelled"},
     age : {"new", "fresh", "stale", "old"},
     work : {"unsent", "sent", "gate", "on", "status", "checkpoint", "over"},
     by : Replicas \union Loops, read : Nat, doomed : BOOLEAN]

ReplicasTyped ==
    /\ mem \in [Replicas -> [count : Nat, late : Nat, ran : BOOLEAN, pending : BOOLEAN]]
    /\ loop \in [Replicas -> [pc : {"read", "report", "start"}, tier : BOOLEAN]]
    /\ task \in [Replicas -> [pc : {"idle", "lock", "check", "insert", "post", "release"},
                              captured : Nat, token : BOOLEAN]]
    /\ redis \in [lock : Replicas \union {Free}, tier : BOOLEAN]

RunsTyped ==
    /\ runs \in Seq(RunType) /\ Len(runs) <= MaxRuns
    /\ report \in [parent : BOOLEAN, covered : Nat, seen : Nat]
    /\ sched \in [Loops -> {"idle", "kill", "insert", "post"}]

\* Nobody counts, reads or reports more than there is.
InStep ==
    /\ stream.read <= stream.sent /\ stream.sent <= responses
    /\ \A r \in Replicas : mem[r].count <= stream.read
    /\ \A i \in DOMAIN runs : runs[i].read <= responses
    /\ report.covered <= responses /\ report.seen <= responses

\* Counters, tasks and rows keep their shape and their bounds.
TriggerTypeOK ==
    /\ responses \in 0..MaxResponses /\ stream \in [sent : Nat, read : Nat]
    /\ faults \in 0..MaxFaults
    /\ ReplicasTyped /\ RunsTyped /\ InStep

\* response_stream.py, "events that arrived while this task was awaiting DB/HTTP
\* are preserved for the next threshold": an event read after a trigger started is
\* still counted when it ends, and until the next one starts.
EventsStillCount == \A r \in Replicas : mem[r].count >= mem[r].late

\* No response is left behind: however events, triggers and POSTs are lost and runs are
\* skipped, die or fail to write their status, a survey with responses that no run has
\* analysed to the end is due again (_recover_stale_runs, sweep_zombie_runs and
\* _get_surveys_due; whether the tick then takes it depends on the other surveys).
Unseen == responses > report.seen
DueAgain == Unseen ~> (Unseen => IsDue /\ Comparable)

\* insights.py, "Idempotency lock: prevent concurrent pipeline runs for the same
\* survey": two pipelines never work on it at once.
OnePipeline ==
    \A i, j \in DOMAIN runs : runs[i].work = "on" /\ runs[j].work = "on" => i = j
=============================================================================

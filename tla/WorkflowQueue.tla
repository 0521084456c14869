---------------------------- MODULE WorkflowQueue ----------------------------
(***************************************************************************)
(* backend/src/lib/workflowQueue.ts: the trigger stream and its consumer   *)
(* group (at-least-once: pending entries are reclaimed), the per-workflow  *)
(* loop of runWorkflowsForEvent with its idempotency keys, the retry sweep *)
(* and the reaper of stuck executions.                                     *)
(***************************************************************************)
EXTENDS WorkflowRuns

CONSTANTS
    NaturalEvents,  \* events with a responseId, entityId or id
    Field,          \* [NaturalEvents -> Events]: the first event with that id (a
                    \* survey's milestones all carry the survey's id)
    Sweepers,       \* processes running sweepDueRetries and reapStuckExecutions
    MaxEntries,     \* bound on the length of the stream
    Repeats,        \* whether producers may publish one event twice
    SlowRuns        \* whether a live run may outlast EXECUTING_TIMEOUT_MIN

ASSUME QueueAssumption ==
    /\ NaturalEvents \subseteq Events /\ MaxEntries \in Nat
    /\ Field \in [NaturalEvents -> Events]
    /\ Repeats \in BOOLEAN /\ SlowRuns \in BOOLEAN

VARIABLES
    stream,  \* workflow:triggers with the group's delivery state; an entry
             \* remembers (history) the row whose sweep published it, or 0,
             \* and whether an evaluation error was swallowed
    job,     \* per consumer: the entry it handles and the workflows to go
    sweep,   \* per sweeper: rows still to republish, row whose mark to clear
    reap     \* per sweeper: the stuck rows it read, with their attempts

queueVars == <<stream, job, sweep, reap>>
vars == <<runVars, queueVars>>

NoJob == [entry |-> 0, todo |-> {}]
NoSweep == [pc |-> "idle", todo |-> {}, clear |-> 0]

Entries == DOMAIN stream
NewEntry(e, r) == [ev |-> e, state |-> "new", of |-> r, lost |-> FALSE]

\* Mutant: the key is made from the stream entry.
KeyPerEntry(w, e, i) == [w |-> w, e |-> e, entry |-> i]

\* idempotencyKey: the id the event carries, else the entry's.
IdempotencyKey(w, e, i) ==
    IF e \in NaturalEvents THEN [w |-> w, e |-> Field[e], entry |-> 0]
                           ELSE [w |-> w, e |-> e, entry |-> i]

Init ==
    /\ RunsInit
    /\ stream = <<>>
    /\ job = [c \in Consumers |-> NoJob]
    /\ sweep = [s \in Sweepers |-> NoSweep]
    /\ reap = [s \in Sweepers |-> {}]
-----------------------------------------------------------------------------
(* Publishing, delivery and the consumer's loop.                           *)

Enqueue(e, r) ==
    /\ Len(stream) < MaxEntries
    /\ stream' = Append(stream, NewEntry(e, r))

\* publishWorkflowTrigger for a domain event.
Publish(e) ==
    /\ Repeats \/ \A i \in Entries : stream[i].ev # e
    /\ Enqueue(e, 0)
    /\ UNCHANGED <<runVars, job, sweep, reap>>

Take(c, i) ==
    /\ job[c] = NoJob /\ IsIdle(c)
    /\ job' = [job EXCEPT ![c] = [entry |-> i, todo |-> Workflows]]

\* XREADGROUP '>': the oldest entry the group has not delivered yet.  (A
\* batch of 20 is handled one entry after the other; the entries behind the
\* first one are pending meanwhile, which Reclaim allows at any time.)
Deliver(c, i) ==
    /\ stream[i].state = "new"
    /\ \A j \in 1..(i - 1) : stream[j].state # "new"
    /\ Take(c, i)
    /\ stream' = [stream EXCEPT ![i].state = "pending"]
    /\ UNCHANGED <<runVars, sweep, reap>>

\* Mutant: entries that are pending are not found.
ReclaimNothing(c, i) == stream[i].state = "new" /\ Deliver(c, i)

\* XAUTOCLAIM: a pending entry idle for 30 s, its holder dead or only slow.
Reclaim(c, i) ==
    /\ stream[i].state = "pending"
    /\ Take(c, i)
    /\ UNCHANGED <<runVars, stream, sweep, reap>>

\* runWorkflowsForEvent: each active workflow of the trigger in turn.
RunNext(c, w) ==
    /\ IsIdle(c) /\ w \in job[c].todo
    /\ LET i == job[c].entry
           e == stream[i].ev
       IN Launch(c, w, e, IdempotencyKey(w, e, i))
    /\ job' = [job EXCEPT ![c].todo = @ \ {w}]
    /\ UNCHANGED <<faults, stream, sweep, reap>>

\* Statements that throw before an execution row exists are swallowed: the
\* lookup of the workflows (all of them are lost) or one workflow's statements,
\* of which the INSERT throws every time if Postgres refuses its key.
EvaluationThrows(c) ==
    /\ IsIdle(c) /\ job[c].todo # {}
    /\ LET i == job[c].entry
       IN /\ stream' = [stream EXCEPT ![i].lost = TRUE]
          /\ \/ \E w \in job[c].todo :
                /\ IF Refused(IdempotencyKey(w, stream[i].ev, i))
                   THEN UNCHANGED faults ELSE Fault
                /\ job' = [job EXCEPT ![c].todo = @ \ {w}]
             \/ /\ job[c].todo = Workflows
                /\ Fault
                /\ job' = [job EXCEPT ![c].todo = {}]
    /\ UNCHANGED <<rows, runner, sweep, reap>>

\* Mutant: the entry is acknowledged before the workflows have run.
AckEarly(c) ==
    /\ IsIdle(c) /\ job[c].entry # 0
    /\ stream' = [stream EXCEPT ![job[c].entry].state = "acked"]
    /\ job' = [job EXCEPT ![c] = NoJob]
    /\ UNCHANGED <<runVars, sweep, reap>>

\* XACK, in the finally clause.
Ack(c) ==
    /\ IsIdle(c) /\ job[c].entry # 0 /\ job[c].todo = {}
    /\ stream' = [stream EXCEPT ![job[c].entry].state = "acked"]
    /\ job' = [job EXCEPT ![c] = NoJob]
    /\ UNCHANGED <<runVars, sweep, reap>>

\* The consumer's process dies; the entry stays pending, the row executing.
Crash(c) ==
    /\ job[c] # NoJob
    /\ Fault
    /\ Goto(c, Idle)
    /\ job' = [job EXCEPT ![c] = NoJob]
    /\ UNCHANGED <<rows, stream, sweep, reap>>
-----------------------------------------------------------------------------
(* sweepDueRetries.                                                        *)

Retryable == {r \in DOMAIN rows : rows[r].status = "failed" /\ rows[r].retry
                                    /\ ~rows[r].dead}

\* Mutant: off by one, the last attempt is never swept.
SelectAllButLast(s, due) ==
    /\ sweep[s] = NoSweep
    /\ due # {} /\ due \subseteq {r \in Retryable : rows[r].attempt < MaxAttempts - 1}
    /\ sweep' = [sweep EXCEPT ![s] = [NoSweep EXCEPT !.pc = "publish", !.todo = due]]
    /\ UNCHANGED <<runVars, stream, job, reap>>

\* UPDATE ... SET dead_letter (a safety net: a stamp that reaches MaxAttempts
\* leaves nothing for it), then the SELECT of the rows that are due: any of
\* those with a next_retry_at, time being free.
SelectDue(s, due) ==
    /\ sweep[s] = NoSweep
    /\ rows' = [r \in DOMAIN rows |->
         [rows[r] EXCEPT !.dead = @ \/ (r \in Retryable /\ rows[r].attempt >= MaxAttempts)]]
    /\ due # {} /\ due \subseteq {r \in Retryable : rows[r].attempt < MaxAttempts}
    /\ sweep' = [sweep EXCEPT ![s] = [NoSweep EXCEPT !.pc = "publish", !.todo = due]]
    /\ UNCHANGED <<runner, faults, stream, job, reap>>

Settled(sw) == IF sw.todo = {} THEN NoSweep ELSE [sw EXCEPT !.pc = "publish", !.clear = 0]

Republish(s, r) ==
    /\ sweep[s].pc = "publish" /\ r \in sweep[s].todo
    /\ Enqueue(rows[r].ev, r)
    /\ sweep' = [sweep EXCEPT ![s].pc = "clear", ![s].clear = r, ![s].todo = @ \ {r}]
    /\ UNCHANGED <<runVars, job, reap>>

\* Redis is not ready (or the bound is reached): the row stays due.
PublishUnavailable(s, r) ==
    /\ sweep[s].pc = "publish" /\ r \in sweep[s].todo
    /\ Len(stream) = MaxEntries
    /\ sweep' = [sweep EXCEPT ![s] = Settled([sweep[s] EXCEPT !.todo = @ \ {r}])]
    /\ UNCHANGED <<runVars, stream, job, reap>>

ClearRetry(s) ==
    /\ sweep[s].pc = "clear"
    /\ rows' = [rows EXCEPT ![sweep[s].clear].retry = FALSE]
    /\ sweep' = [sweep EXCEPT ![s] = Settled(@)]
    /\ UNCHANGED <<runner, faults, stream, job, reap>>

\* The process dies, or the UPDATE throws, between publishing and clearing.
SweepFails(s) ==
    /\ sweep[s].pc = "clear"
    /\ Fault
    /\ \/ sweep' = [sweep EXCEPT ![s] = NoSweep]
       \/ sweep' = [sweep EXCEPT ![s] = Settled(@)]
    /\ UNCHANGED <<rows, runner, stream, job, reap>>
-----------------------------------------------------------------------------
(* reapStuckExecutions.                                                    *)

\* A row's triggered_at passes the cut-off, which waiting counts towards as
\* well.  Unless runs may be slow, no live process runs a row for so long.
Age(r) ==
    /\ rows[r].status \in {"executing", "waiting"} /\ ~rows[r].old
    /\ SlowRuns \/ \A p \in Runners : Row(p) # r
    /\ rows' = [rows EXCEPT ![r].old = TRUE]
    /\ UNCHANGED <<runner, faults, queueVars>>

\* Mutant: only rows that failed before are looked at.
SelectFailedBefore(s) ==
    /\ reap[s] = {}
    /\ reap' = [reap EXCEPT ![s] =
         {[row |-> r, attempt |-> rows[r].attempt] :
            r \in {q \in DOMAIN rows : rows[q].status = "executing" /\ rows[q].attempt > 0}}]
    /\ reap'[s] # {}
    /\ UNCHANGED <<runVars, stream, job, sweep>>

\* (Bound: a row is reaped at most MaxAttempts times.)
SelectStuck(s) ==
    /\ reap[s] = {}
    /\ reap' = [reap EXCEPT ![s] =
         {[row |-> r, attempt |-> rows[r].attempt] :
            r \in {q \in DOMAIN rows : /\ rows[q].status = "executing" /\ rows[q].old
                                       /\ rows[q].attempt < MaxAttempts}}]
    /\ reap'[s] # {}
    /\ UNCHANGED <<runVars, stream, job, sweep>>

\* Mutant: the reaper frees the idempotency key, as a failed run does.
ReapFreeingKey(s, x) ==
    /\ x \in reap[s]
    /\ rows' = [rows EXCEPT ![x.row] =
         IF @.status = "executing"
         THEN [Stamped(@, x.attempt + 1) EXCEPT !.reaped = TRUE, !.key = NoKey] ELSE @]
    /\ reap' = [reap EXCEPT ![s] = @ \ {x}]
    /\ UNCHANGED <<runner, faults, stream, job, sweep>>

Reap(s, x) ==
    /\ x \in reap[s]
    /\ rows' = [rows EXCEPT ![x.row] =
         IF @.status = "executing"
         THEN [Stamped(@, x.attempt + 1) EXCEPT !.reaped = TRUE] ELSE @]
    /\ reap' = [reap EXCEPT ![s] = @ \ {x}]
    /\ UNCHANGED <<runner, faults, stream, job, sweep>>
-----------------------------------------------------------------------------
ConsumerStep(c) ==
    \/ \E i \in Entries : Deliver(c, i) \/ Reclaim(c, i)
    \/ \E w \in Workflows : RunNext(c, w)
    \/ Ack(c)

SweepStep(s) ==
    \/ ClearRetry(s)
    \/ \E due \in SUBSET DOMAIN rows : SelectDue(s, due)
    \/ \E r \in DOMAIN rows : Republish(s, r) \/ PublishUnavailable(s, r)

ReapStep(s) == SelectStuck(s) \/ \E x \in reap[s] : Reap(s, x)

Next ==
    \/ RunsNext /\ UNCHANGED queueVars
    \/ \E e \in Events : Publish(e)
    \/ \E c \in Consumers : ConsumerStep(c) \/ EvaluationThrows(c) \/ Crash(c)
    \/ \E s \in Sweepers : SweepStep(s) \/ SweepFails(s) \/ ReapStep(s)
    \/ \E r \in DOMAIN rows : Age(r)

(* The loops poll for ever, the interval of the sweeps keeps ticking, runs *)
(* end, time passes; and since a backoff is finite and the sweep repeats,  *)
(* it again and again finds every retryable row due.                       *)
Fairness ==
    /\ \A p \in Runners : WF_vars(RunStep(p) /\ UNCHANGED queueVars)
    /\ \A c \in Consumers : WF_vars(ConsumerStep(c))
    /\ \A s \in Sweepers :
        /\ WF_vars(SweepStep(s)) /\ WF_vars(ReapStep(s))
        /\ SF_vars(SelectDue(s, Retryable))
    /\ WF_vars(\E r \in DOMAIN rows : Age(r))

Spec == Init /\ [][Next]_vars /\ Fairness
-----------------------------------------------------------------------------
SameTrigger(a, b) == a.wf = b.wf /\ a.ev = b.ev

EntryType == [ev : Events, state : {"new", "pending", "acked"},
              of : Nat, lost : BOOLEAN]

StreamTyped ==
    /\ stream \in Seq(EntryType)
    /\ \A i \in Entries : stream[i].of \in DOMAIN rows \union {0}

JobsTyped ==
    /\ job \in [Consumers -> [entry : Entries \union {0}, todo : SUBSET Workflows]]
    /\ \A c \in Consumers : job[c].entry = 0 => job[c].todo = {}

SweepsTyped ==
    /\ sweep \in [Sweepers -> [pc : {"idle", "publish", "clear"},
                               todo : SUBSET DOMAIN rows, clear : DOMAIN rows \union {0}]]
    /\ \A s \in Sweepers : sweep[s].pc = "clear" => sweep[s].clear # 0

ReapsTyped ==
    reap \in [Sweepers -> SUBSET [row : DOMAIN rows, attempt : 0..(MaxAttempts - 1)]]

\* The stream, the loops and the sweeps keep their shape and refer to entries
\* and rows that exist.
QueueTypeOK == RunsTypeOK /\ StreamTyped /\ JobsTyped /\ SweepsTyped /\ ReapsTyped

\* workflowQueue.ts:31-33, "a redelivery that races a completed/in-flight
\* execution is a guaranteed no-op rather than a duplicate side effect": for
\* an event with an id of its own, no two processes run the same workflow's
\* nodes at once, through whatever rows, crashes, reclaims and reaps, unless a
\* late decision runs one of the rows again.
OneRunPerTrigger ==
    \A p, q \in Runners : \A r, s \in DOMAIN rows :
        Executing(p, r) /\ Executing(q, s) /\ SameTrigger(rows[r], rows[s])
            /\ rows[r].ev \in NaturalEvents /\ ~rows[r].late /\ ~rows[s].late => p = q

\* workflowQueue.ts:18-21, a retry-sweep republish "should also collapse into
\* the same key rather than double-run the workflow": a workflow completes at
\* most once for one published event, late decisions apart.
CompletesOncePerEvent ==
    \A r, s \in DOMAIN rows :
        rows[r].status = "completed" /\ rows[s].status = "completed"
            /\ SameTrigger(rows[r], rows[s]) /\ ~rows[r].late /\ ~rows[s].late => r = s

Evaluated(i) ==
    \A w \in Workflows : \E r \in DOMAIN rows :
        rows[r].wf = w /\ rows[r].ev = stream[i].ev

\* Every workflow has an execution (or a record of its suppression) for an
\* acknowledged event, however often consumers crashed, unless an evaluation
\* of it threw: that the code swallows and acknowledges.
AckedMeansEvaluated ==
    \A i \in Entries : stream[i].state = "acked" /\ ~stream[i].lost => Evaluated(i)

\* docs/automation-hub/PHASE_1_ACCEPTANCE.md:149-150, "handles concurrent trigger
\* evaluations without lost executions", while nothing fails.
NoLostExecutions ==
    \A i \in Entries : stream[i].state = "acked" /\ faults = 0 => Evaluated(i)

RetryDone(i) ==
    \E r \in DOMAIN rows : r > stream[i].of /\ SameTrigger(rows[r], rows[stream[i].of])

Handled(i) == stream[i].state = "acked" /\ ~stream[i].lost /\ stream[i].of # 0

\* workflowEngine.ts:573-582, the republish of a failed execution must not
\* collide with the row it retries: once it is acknowledged without an exception
\* there is a newer execution of the trigger.
SweptFailureReruns ==
    \A i \in Entries : Handled(i) /\ ~rows[stream[i].of].reaped => RetryDone(i)

\* workflowQueue.ts:326-329, a reaped row "enters the ordinary retry/DLQ path
\* on the very next sweep tick": its republish also leads to a newer execution.
ReapedRowReruns ==
    \A i \in Entries : Handled(i) /\ rows[stream[i].of].reaped => RetryDone(i)

\* workflowQueue.ts:40-41 and ADR_EXECUTION_ARCHITECTURE.md:126-127, "the 5th
\* failure (attempt count reaches MAX_ATTEMPTS) dead-letters instead of
\* scheduling another retry": an event is republished at most MaxAttempts - 1
\* times for a workflow.
RetriesAreBounded ==
    \A w \in Workflows, e \in Events :
        Cardinality({i \in Entries : /\ stream[i].of # 0 /\ stream[i].ev = e
                                     /\ rows[stream[i].of].wf = w}) < MaxAttempts

\* No row stays in 'executing': a lost finalization is made up by the reaper.
ExecutionsEnd ==
    \A r \in 1..(MaxEntries * Cardinality(Workflows)) :
        LET Busy == r \in DOMAIN rows /\ rows[r].status = "executing"
        IN Busy ~> ~Busy

\* A failure that is due a retry is republished, unless the stream is full.
RetriesAreSwept ==
    \A r \in 1..(MaxEntries * Cardinality(Workflows)) :
        LET Due == r \in DOMAIN rows /\ r \in Retryable
        IN Due ~> ~Due \/ Len(stream) = MaxEntries

\* What the queue owes the stream: the consumer group of ConsumerGroup, with
\* one entry per batch.
Group == INSTANCE ConsumerGroup WITH
    entries <- [i \in Entries |-> stream[i].state],
    hold <- [c \in Consumers |->
        [at |-> job[c].entry, last |-> job[c].entry,
         done |-> job[c].entry # 0 /\ job[c].todo = {} /\ IsIdle(c)]]

\* docs/automation-hub/PHASE_1_ACCEPTANCE.md:149-150 over a whole behaviour:
\* entries are handed out in order, acknowledged only after the last workflow's
\* run is over, and reclaimed until every entry is acknowledged.
ServesTheStream == Group!GroupSpec
=============================================================================

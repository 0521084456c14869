---------------------------- MODULE WorkflowRuns ----------------------------
(***************************************************************************)
(* backend/src/lib/workflowEngine.ts: the rows of workflow_executions and  *)
(* the processes that run one of them at a time: queue consumers, HTTP     *)
(* handlers (test, retry, approve, reject) and the delay-resume job.  What *)
(* a node list does is abstracted to how it ends.  Each action is one      *)
(* statement on Postgres or one stretch of node execution.                 *)
(***************************************************************************)
EXTENDS Integers, Sequences, FiniteSets

CONSTANTS
    Workflows, Events,
    Consumers, Handlers, Timers,  \* the processes that run executions
    Outcomes,      \* how a stretch of nodes may end
    MaxAttempts,   \* MAX_ATTEMPTS
    KeyInferred,   \* whether ON CONFLICT (idempotency_key) finds its unique index:
                   \* it does not find the partial one of the migration
    MaxRows,       \* bound on executions started by hand
    MaxFaults      \* bound on crashes and failing statements

ASSUME WorkflowAssumption ==
    /\ Outcomes \subseteq {"completed", "skipped", "failed", "approval", "delay"}
    /\ MaxAttempts \in Nat \ {0} /\ KeyInferred \in BOOLEAN
    /\ MaxRows \in Nat /\ MaxFaults \in Nat

VARIABLES
    rows,     \* workflow_executions (with the latest workflow_approvals row); a row
              \* remembers (history: late) that a decision went on although it
              \* found no approval to settle
    runner,   \* what each process is doing
    faults    \* crashes and statement failures so far

runVars == <<rows, runner, faults>>

Runners == Consumers \union Handlers \union Timers
Pauses == {"approval", "delay"}
NoKey == <<>>

At(pc, r, res) == [pc |-> pc, row |-> r, res |-> res, attempt |-> 0]
Idle == At("idle", 0, "none")

Goto(p, state) == runner' = [runner EXCEPT ![p] = state]
IsIdle(p) == runner[p] = Idle
Row(p) == runner[p].row
Executing(p, r) == runner[p].pc = "running" /\ Row(p) = r

\* The row an INSERT leaves; status 'executing' and every counter at zero.
NewRow(w, e, k) ==
    [wf |-> w, ev |-> e, key |-> k, status |-> "executing", wait |-> "none",
     approval |-> "none", attempt |-> 0, retry |-> FALSE, dead |-> FALSE,
     old |-> FALSE, reaped |-> FALSE, late |-> FALSE]

KeyTaken(k) == k # NoKey /\ \E r \in DOMAIN rows : rows[r].key = k
Refused(k) == k # NoKey /\ ~KeyInferred   \* Postgres finds no index for ON CONFLICT
EndRow(r, s) == rows' = [rows EXCEPT ![r].status = s]
Fault == faults < MaxFaults /\ faults' = faults + 1

RunsInit ==
    /\ rows = <<>>
    /\ runner = [p \in Runners |-> Idle]
    /\ faults = 0
-----------------------------------------------------------------------------
(* runWorkflow.                                                            *)

\* INSERT ... ON CONFLICT (idempotency_key) DO NOTHING: the process runs the
\* row it inserted and leaves a conflicting one alone.  (What a refused
\* statement does is said where its exception is caught.)
Insert(p, w, e, k) ==
    /\ ~Refused(k)
    /\ IF KeyTaken(k)
       THEN UNCHANGED <<rows, runner>>
       ELSE /\ rows' = Append(rows, NewRow(w, e, k))
            /\ Goto(p, At("running", Len(rows) + 1, "none"))

\* The plan-tier and cooldown gates record a keyless terminal row instead.
Suppress(w, e) ==
    /\ rows' = Append(rows, [NewRow(w, e, NoKey) EXCEPT !.status = "suppressed"])
    /\ UNCHANGED runner

Launch(p, w, e, k) == Insert(p, w, e, k) \/ Suppress(w, e)

\* The nodes run until the end, a stop, a failure or exception, or a pause; a
\* rejected execution has its result without running any.  (The outcome is
\* local to the process until the statement that follows.  Bound: a row that
\* failed MaxAttempts times does not fail once more.)
Ends(p, res) ==
    \/ /\ runner[p].pc = "running" /\ res \in Outcomes
       /\ res = "failed" => rows[Row(p)].attempt < MaxAttempts
    \/ runner[p].pc = "ended" /\ res = runner[p].res

\* finalizeExecution, not failed: one UPDATE, whatever the row's status is.
Finalize(p) ==
    /\ \E res \in {"completed", "skipped"} : Ends(p, res) /\ EndRow(Row(p), res)
    /\ Goto(p, Idle)
    /\ UNCHANGED faults

\* finalizeExecution, failed: attempt_count is read, then written back one
\* higher with the next retry or the dead-letter mark.
ReadAttempt(p) ==
    /\ Ends(p, "failed")
    /\ Goto(p, [pc |-> "stamping", row |-> Row(p), res |-> "none",
                attempt |-> rows[Row(p)].attempt + 1])
    /\ UNCHANGED <<rows, faults>>

Stamped(row, attempt) ==
    LET failed == [row EXCEPT !.status = "failed", !.attempt = attempt]
    IN IF attempt < MaxAttempts
       THEN [failed EXCEPT !.retry = TRUE, !.dead = FALSE]
       ELSE [failed EXCEPT !.retry = FALSE, !.dead = TRUE]

\* A failure to be retried gives its idempotency key up.
FailedRow(row, attempt) ==
    [Stamped(row, attempt) EXCEPT !.key = IF attempt < MaxAttempts THEN NoKey ELSE @]

\* Mutant: the failed row keeps its idempotency key.
StampKeepingKey(p) ==
    /\ runner[p].pc = "stamping"
    /\ rows' = [rows EXCEPT ![Row(p)] = Stamped(@, runner[p].attempt)]
    /\ Goto(p, Idle)
    /\ UNCHANGED faults

StampFailure(p) ==
    /\ runner[p].pc = "stamping"
    /\ rows' = [rows EXCEPT ![Row(p)] = FailedRow(@, runner[p].attempt)]
    /\ Goto(p, Idle)
    /\ UNCHANGED faults

\* Mutant: a delay pause inserts an approval too.
PauseForApproval(p) ==
    /\ \E res \in Pauses :
        /\ Ends(p, res)
        /\ rows' = [rows EXCEPT ![Row(p)] = [@ EXCEPT !.status = "waiting", !.wait = res]]
    /\ Goto(p, At("gate", Row(p), "none"))
    /\ UNCHANGED faults

\* persistPause: the row waits; only an approval pause inserts an approval.
PersistPause(p) ==
    /\ \E res \in Pauses :
        /\ Ends(p, res)
        /\ rows' = [rows EXCEPT ![Row(p)] = [@ EXCEPT !.status = "waiting", !.wait = res]]
        /\ Goto(p, IF res = "approval" THEN At("gate", Row(p), "none") ELSE Idle)
    /\ UNCHANGED faults

InsertApproval(p) ==
    /\ runner[p].pc = "gate"
    /\ rows' = [rows EXCEPT ![Row(p)].approval = "pending"]
    /\ Goto(p, Idle)
    /\ UNCHANGED faults
-----------------------------------------------------------------------------
(* The ways in: the test and retry routes, an approval decision, the timer. *)

\* POST /:id/test of any event.  POST /executions/:execId/retry launches the
\* workflow and the event of a failed row in the same way, and leaves that row
\* alone: it is one of these.
RunByHand(h) ==
    /\ IsIdle(h) /\ Len(rows) < MaxRows
    /\ \E w \in Workflows, e \in Events : Launch(h, w, e, NoKey)
    /\ UNCHANGED faults

\* A person decides.  resumeWorkflow reads the execution (404 unless it waits
\* for approval) and nothing else: its approval may be decided already, or not
\* be inserted yet.
Click(h) ==
    /\ IsIdle(h)
    /\ \E r \in DOMAIN rows, d \in {"approved", "rejected"} :
        /\ rows[r].status = "waiting" /\ rows[r].wait = "approval"
        /\ Goto(h, At("deciding", r, d))
    /\ UNCHANGED <<rows, faults>>

\* UPDATE ... WHERE status = 'pending'; how many rows it changed is not asked.
Settle(row, d) ==
    IF row.approval = "pending" THEN [row EXCEPT !.approval = d]
                                ELSE [row EXCEPT !.late = TRUE]

\* Mutant: every decision counts as an approval.
DecideOpen(h) ==
    /\ runner[h].pc = "deciding"
    /\ rows' = [rows EXCEPT ![Row(h)] = Settle(@, runner[h].res)]
    /\ Goto(h, At("running", Row(h), "none"))
    /\ UNCHANGED faults

\* The decision is recorded on the approvals still pending and goes on: a
\* rejection finalizes as skipped, an approval runs the rest (the tier check
\* on resume may end it at once, as skipped).
Decide(h) ==
    /\ runner[h].pc = "deciding"
    /\ rows' = [rows EXCEPT ![Row(h)] = Settle(@, runner[h].res)]
    /\ Goto(h, IF runner[h].res = "approved" THEN At("running", Row(h), "none")
               ELSE At("ended", Row(h), "skipped"))
    /\ UNCHANGED faults

\* Mutants: the row is read but not claimed; the filter is the approvals' one.
ResumeUnclaimed(t, r) ==
    /\ IsIdle(t)
    /\ rows[r].status = "waiting" /\ rows[r].wait = "delay"
    /\ Goto(t, At("running", r, "none"))
    /\ UNCHANGED <<rows, faults>>

ClaimApproval(t, r) ==
    /\ IsIdle(t)
    /\ rows[r].status = "waiting" /\ rows[r].wait = "approval"
    /\ EndRow(r, "executing")
    /\ Goto(t, At("running", r, "none"))
    /\ UNCHANGED faults

\* resumeDelayedExecution claims a due row by turning it to 'executing'.
ClaimDelayed(t, r) ==
    /\ IsIdle(t)
    /\ rows[r].status = "waiting" /\ rows[r].wait = "delay"
    /\ EndRow(r, "executing")
    /\ Goto(t, At("running", r, "none"))
    /\ UNCHANGED faults
-----------------------------------------------------------------------------
\* The process dies, or the statement it is about to make throws: the caller
\* swallows the exception and the row stays as it is.
Abandon(p) ==
    /\ ~IsIdle(p)
    /\ Fault
    /\ Goto(p, Idle)
    /\ UNCHANGED rows

RunStep(p) ==
    Finalize(p) \/ ReadAttempt(p) \/ StampFailure(p)
    \/ PersistPause(p) \/ InsertApproval(p)

HandlerStep(h) == RunByHand(h) \/ Click(h) \/ Decide(h)

RunsNext ==
    \/ \E p \in Runners : RunStep(p) \/ Abandon(p)
    \/ \E h \in Handlers : HandlerStep(h)
    \/ \E t \in Timers, r \in DOMAIN rows : ClaimDelayed(t, r)

(* A request or job that started goes on to its end.  The delay job serves *)
(* the longest overdue row first, up to 200 a tick, so a row it could      *)
(* claim again and again is claimed in the end.                            *)
RunsFairness ==
    /\ \A p \in Runners : WF_runVars(RunStep(p))
    /\ \A r \in 1..MaxRows :
        SF_runVars(\E t \in Timers : r \in DOMAIN rows /\ ClaimDelayed(t, r))

RunsSpec == RunsInit /\ [][RunsNext]_runVars /\ RunsFairness
-----------------------------------------------------------------------------
Keys == [w : Workflows, e : Events, entry : Nat] \union {NoKey}

RowType ==
    [wf : Workflows, ev : Events, key : Keys,
     status : {"executing", "waiting", "completed", "skipped", "failed", "suppressed"},
     wait : Pauses \union {"none"},
     approval : {"none", "pending", "approved", "rejected"},
     attempt : 0..MaxAttempts, retry : BOOLEAN, dead : BOOLEAN,
     old : BOOLEAN, reaped : BOOLEAN, late : BOOLEAN]

RunnerType ==
    [pc : {"idle", "running", "ended", "stamping", "gate", "deciding"},
     row : Nat, res : {"none", "approved", "rejected", "skipped"},
     attempt : 0..MaxAttempts]

\* The execution table and the processes keep their shape, and a process
\* that is not idle works on a row that exists.
RunsTypeOK ==
    /\ rows \in Seq(RowType)
    /\ runner \in [Runners -> RunnerType]
    /\ \A p \in Runners : ~IsIdle(p) => Row(p) \in DOMAIN rows
    /\ faults \in 0..MaxFaults

(* The approve and reject endpoint serializes nothing, so each of the next *)
(* properties speaks of the executions on which every decision so far      *)
(* settled a pending approval, with any number of people deciding.         *)

\* workflowEngine.ts:1045-1049, "at most one caller ever gets a non-empty
\* RETURNING set ... no matter how many callers race": unless a decision came
\* late, the nodes of one execution are never run by two processes at once.
OneRunnerPerExecution ==
    \A p, q \in Runners : \A r \in DOMAIN rows :
        Executing(p, r) /\ Executing(q, r) /\ ~rows[r].late => p = q

\* Unless a decision came late, no process runs nodes of an execution whose
\* latest approval was rejected: a rejection that was read before another
\* decision, or raced one, is either the one recorded or a late one.
RejectionStops ==
    \A p \in Runners : \A r \in DOMAIN rows :
        Executing(p, r) /\ ~rows[r].late => rows[r].approval # "rejected"

\* docs/TEST_PLAN.md:725, "Click Reject -> approval rejected, workflow stops", of
\* every execution, late decisions or not.
ClickRejectStops ==
    \A p \in Runners : \A r \in DOMAIN rows :
        Executing(p, r) => rows[r].approval # "rejected"

\* workflowEngine.ts:627-633: an execution paused on a delay is never shown as
\* a pending approval, unless a decision came late.
DelayIsNotAnApproval ==
    \A r \in DOMAIN rows :
        rows[r].status = "waiting" /\ rows[r].wait = "delay" /\ ~rows[r].late
            => rows[r].approval # "pending"

\* A completed or skipped execution is over: no timer, reaper, finalizer or
\* second decision moves it to another status.  (A decision that settles no
\* approval is marked in the step that makes it, before it can do so.)
EndedStaysEnded ==
    [][\A r \in DOMAIN rows :
         rows[r].status \in {"completed", "skipped"} /\ ~rows[r].late
            => rows'[r].status = rows[r].status]_runVars

\* An execution that waits on a delay is eventually resumed by some replica of
\* the delay job, whatever crashes.
DelayEnds ==
    \A r \in 1..MaxRows :
        LET Delayed == r \in DOMAIN rows /\ rows[r].status = "waiting"
                                         /\ rows[r].wait = "delay"
        IN Delayed ~> ~Delayed
=============================================================================

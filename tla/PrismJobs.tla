------------------------------ MODULE PrismJobs ------------------------------
(***************************************************************************)
(* backend/src/lib/prism: one import job, the worker instances that run    *)
(* its stages (worker.ts), and the requests of routes/prism.ts and         *)
(* engine.ts that create it, confirm, approve, pause, resume, cancel or    *)
(* disconnect. Every write of prism_jobs is one action; what a handler     *)
(* read before it is kept in the handler's own record. Nothing fences a    *)
(* write: the row remembers (history) who holds what another has since     *)
(* overtaken.                                                              *)
(***************************************************************************)
EXTENDS Integers, FiniteSets

CONSTANTS
    Resources,   \* the files of the import, each with one record
    Workers,     \* worker instances
    Users,       \* analysts, one request at a time each
    Clicks,      \* the controls they use: "pause", "resume", "cancel", "disconnect"
    Corrupt,     \* files that may turn out not to parse
    Purge,       \* PRISM_RAW_RETENTION: an upload is deleted once its records are in
    Listed,      \* the resources were chosen when the job was created
    MaxClicks, MaxFaults   \* bounds on requests and on crashes and errors

ASSUME PrismAssumption ==
    /\ Resources # {} /\ IsFiniteSet(Resources) /\ Corrupt \subseteq Resources
    /\ Workers \cap Users = {}
    /\ Clicks \subseteq {"pause", "resume", "cancel", "disconnect"}
    /\ Purge \in BOOLEAN /\ Listed \in BOOLEAN
    /\ MaxClicks \in Nat /\ MaxFaults \in Nat

VARIABLES
    job,      \* prism_jobs: stage and status; and (history) the furthest stage it came
              \* to, and who holds what was read before somebody else moved the row
    cursor,   \* prism_jobs.cursor
    counts,   \* prism_jobs.counts
    store,    \* the other tables: raw log, uploads (bad: those that do not parse), mapping,
              \* surveys, responses, connection, report; and (history) whether LOAD wrote
              \* without consent
    worker,   \* per instance: where it is and what it read of the job
    user,     \* per analyst: the request in progress and what it read of the job
    clicks, faults

vars == <<job, cursor, counts, store, worker, user, clicks, faults>>

\* STAGE_ORDER.
Connect == 1
Discover == 2
Extract == 3
Profile == 4
Map == 5
Transform == 6
DryRun == 7
Load == 8
Reconcile == 9
Enrich == 10
Publish == 11
Interactive == {Map, DryRun}

Runnable == {"queued", "running"}
Parked == {"awaiting_input", "paused"}
Terminal == {"complete", "failed"}

NoFile == "none"
Empty == [resources |-> {}, done |-> {}, rows |-> {}, by |-> "none",
          survey |-> FALSE, approval |-> FALSE]
Asleep == [pc |-> "idle", claimed |-> Connect, stage |-> Connect, cur |-> Empty,
           file |-> NoFile, new |-> 0]
NoRequest == [op |-> "none", pc |-> "idle", parked |-> FALSE, survey |-> FALSE,
              to |-> [stage |-> 0, status |-> "queued"]]
Creating == [op |-> "create", pc |-> "write", parked |-> FALSE, survey |-> FALSE,
             to |-> [stage |-> Connect, status |-> "running"]]

\* enqueueJob, by any of the analysts: the row is in and can be claimed, and
\* runStage('connect') is still to write it.
Init ==
    /\ job = [stage |-> Connect, status |-> "queued", furthest |-> Connect, late |-> {}]
    /\ cursor = [Empty EXCEPT !.resources = IF Listed THEN Resources ELSE {}]
    /\ counts = [extracted |-> 0, skipped |-> 0]
    /\ \E bad \in SUBSET Corrupt :
          store = [raw |-> {}, files |-> Resources, bad |-> bad, mapping |-> "none",
                   surveys |-> 0, loaded |-> {}, conn |-> TRUE, balanced |-> FALSE,
                   unasked |-> FALSE]
    /\ worker = [w \in Workers |-> Asleep]
    /\ \E creator \in Users :
          user = [u \in Users |-> IF u = creator THEN Creating ELSE NoRequest]
    /\ clicks = 0 /\ faults = 0

\* Who holds a stage or a status it read of the row.
Holders == {w \in Workers : worker[w] # Asleep}
           \cup {u \in Users : user[u].pc \in {"advance", "write", "gauge"}}

\* An actor writes stage and status; when that moves the row, every other holder is late.
JobIs(actor, stage, status) ==
    job' = [stage |-> stage, status |-> status,
            furthest |-> IF stage > job.furthest THEN stage ELSE job.furthest,
            late |-> IF stage = job.stage /\ status = job.status
                     THEN job.late \ {actor} ELSE (job.late \cup Holders) \ {actor}]
Fresh(actor) == job' = [job EXCEPT !.late = @ \ {actor}]   \* it reads the row
Waits(stage) == job.stage = stage /\ job.status = "awaiting_input"
Sleep(w) == worker' = [worker EXCEPT ![w] = Asleep]
GoOn(w, pc) == worker' = [worker EXCEPT ![w].pc = pc]
Done(u) == user' = [user EXCEPT ![u] = NoRequest]
Step(u, pc) == user' = [user EXCEPT ![u].pc = pc]

\* engine.advance: what the stage it read is followed by (stage 0: left as it is).
After(stage) ==
    IF stage = Publish THEN [stage |-> 0, status |-> "complete"]
    ELSE [stage |-> stage + 1,
          status |-> IF stage + 1 \in Interactive THEN "awaiting_input" ELSE "running"]
Resolve(actor, to) ==
    JobIs(actor, IF to.stage = 0 THEN job.stage ELSE to.stage, to.status)
-----------------------------------------------------------------------------
(* worker.ts: claim, read, the work of a stage, then the write of the row. *)

\* Mutant: a backed-off job is not picked up again.
ClaimRunning(w) ==
    /\ worker[w] = Asleep /\ job.status = "running"
    /\ worker' = [worker EXCEPT ![w] = [@ EXCEPT !.pc = "read", !.claimed = job.stage]]
    /\ UNCHANGED <<job, cursor, counts, store, user, clicks, faults>>

\* Mutant: a cancelled job is claimed as well.
ClaimFailed(w) ==
    /\ worker[w] = Asleep /\ job.status \in Runnable \cup {"failed"}
    /\ JobIs(w, job.stage, "running")
    /\ worker' = [worker EXCEPT ![w] = [@ EXCEPT !.pc = "read", !.claimed = job.stage]]
    /\ UNCHANGED <<cursor, counts, store, user, clicks, faults>>

Claim(w) ==
    /\ worker[w] = Asleep /\ job.status \in Runnable
    /\ JobIs(w, job.stage, "running")
    /\ worker' = [worker EXCEPT ![w] = [@ EXCEPT !.pc = "read", !.claimed = job.stage]]
    /\ UNCHANGED <<cursor, counts, store, user, clicks, faults>>

\* What the work of a stage takes from the cursor of the row it was given.
Needed(stage) ==
    CASE stage \in {Discover, Extract} ->
             [Empty EXCEPT !.resources = cursor.resources, !.done = cursor.done]
      [] stage = Load ->
             [Empty EXCEPT !.rows = cursor.rows, !.by = cursor.by, !.survey = cursor.survey]
      [] OTHER -> Empty

\* processJob reads the row again and goes on only if it still runs.
Read(w) ==
    /\ worker[w].pc = "read"
    /\ IF job.status = "running"
       THEN worker' = [worker EXCEPT ![w] =
                [@ EXCEPT !.pc = "stage", !.stage = job.stage, !.cur = Needed(job.stage)]]
       ELSE Sleep(w)
    /\ UNCHANGED <<job, cursor, counts, store, user, clicks, faults>>

At(w, stage) == worker[w].pc = "stage" /\ worker[w].stage = stage
Connected(w, stage) == At(w, stage) /\ store.conn
Todo(w) == worker[w].cur.resources \ worker[w].cur.done
First(files) == CHOOSE r \in files : TRUE   \* the files have one order

\* CONNECT, PROFILE and ENRICH change nothing the later stages decide on.
Pass(w) ==
    /\ \E stage \in {Connect, Profile, Enrich} : Connected(w, stage)
    /\ GoOn(w, "advance")
    /\ UNCHANGED <<job, cursor, counts, store, user, clicks, faults>>

\* DISCOVER enumerates when nothing was chosen, and then waits for a choice.
Enumerate(w) ==
    /\ Connected(w, Discover)
    /\ IF worker[w].cur.resources = {}
       THEN /\ cursor' = [cursor EXCEPT !.resources = Resources]
            /\ GoOn(w, "park")
       ELSE cursor' = cursor /\ GoOn(w, "advance")
    /\ UNCHANGED <<job, counts, store, user, clicks, faults>>

\* EXTRACT: per file not done when the job was read, records, cursor, counts, upload.
Open(w) ==
    /\ Connected(w, Extract)
    /\ GoOn(w, IF Todo(w) = {} THEN "advance" ELSE "extract")
    /\ UNCHANGED <<job, cursor, counts, store, user, clicks, faults>>

\* Mutant: a file that does not parse is passed over.
AppendParsed(w) ==
    LET r == First(Todo(w)) IN
    /\ worker[w].pc = "extract" /\ r \in store.files
    /\ store' = [store EXCEPT !.raw = @ \cup ({r} \ store.bad)]
    /\ worker' = [worker EXCEPT ![w] = [@ EXCEPT !.pc = "mark", !.file = r,
                      !.new = IF r \in store.raw \cup store.bad THEN 0 ELSE 1]]
    /\ UNCHANGED <<job, cursor, counts, user, clicks, faults>>

Append(w) ==
    LET r == First(Todo(w)) IN
    /\ worker[w].pc = "extract" /\ r \in store.files \ store.bad
    /\ store' = [store EXCEPT !.raw = @ \cup {r}]
    /\ worker' = [worker EXCEPT ![w] = [@ EXCEPT !.pc = "mark", !.file = r,
                      !.new = IF r \in store.raw THEN 0 ELSE 1]]
    /\ UNCHANGED <<job, cursor, counts, user, clicks, faults>>

Mark(w) ==
    LET done == worker[w].cur.done \cup {worker[w].file} IN
    /\ worker[w].pc = "mark"
    /\ cursor' = [cursor EXCEPT !.done = done]
    /\ worker' = [worker EXCEPT ![w] = [@ EXCEPT !.pc = "count", !.cur.done = done]]
    /\ UNCHANGED <<job, counts, store, user, clicks, faults>>

\* bumpCounts: counts || delta replaces the counter.
Count(w) ==
    /\ worker[w].pc = "count"
    /\ counts' = [counts EXCEPT !.extracted = worker[w].new]
    /\ GoOn(w, "purge")
    /\ UNCHANGED <<job, cursor, store, user, clicks, faults>>

PurgeUpload(w) ==
    /\ worker[w].pc = "purge"
    /\ store' = IF Purge THEN [store EXCEPT !.files = @ \ {worker[w].file}] ELSE store
    /\ GoOn(w, IF Todo(w) = {} THEN "advance" ELSE "extract")
    /\ UNCHANGED <<job, cursor, counts, user, clicks, faults>>

\* MAP saves its proposal as the latest mapping.
Propose(w) ==
    /\ Connected(w, Map)
    /\ store' = [store EXCEPT !.mapping = "proposed"]
    /\ GoOn(w, "park")
    /\ UNCHANGED <<job, cursor, counts, user, clicks, faults>>

Stage(w) ==
    /\ Connected(w, Transform) /\ store.mapping # "none"
    /\ cursor' = [cursor EXCEPT !.rows = store.raw, !.by = store.mapping]
    /\ GoOn(w, "advance")
    /\ UNCHANGED <<job, counts, store, user, clicks, faults>>

\* Mutant: the dry run goes on to LOAD by itself.
ReportOnly(w) ==
    /\ At(w, DryRun) /\ GoOn(w, "advance")
    /\ UNCHANGED <<job, cursor, counts, store, user, clicks, faults>>

Report(w) ==
    /\ At(w, DryRun) /\ GoOn(w, "park")
    /\ UNCHANGED <<job, cursor, counts, store, user, clicks, faults>>

\* LOAD upserts the rows it read; a row already there is counted as skipped.
Write(w) ==
    LET rows == worker[w].cur.rows IN
    /\ Connected(w, Load) /\ (worker[w].cur.survey \/ rows = {})
    /\ store' = [store EXCEPT !.loaded = @ \cup rows,
                   !.unasked = @ \/ ~cursor.approval \/ worker[w].cur.by # "confirmed"]
    /\ counts' = [counts EXCEPT !.skipped = Cardinality(rows \cap store.loaded)]
    /\ GoOn(w, "advance")
    /\ UNCHANGED <<job, cursor, user, clicks, faults>>

\* RECONCILE: source == loaded + quarantined + skipped, from the raw log and counts.
Balance(w) ==
    /\ Connected(w, Reconcile)
    /\ store' = [store EXCEPT !.balanced =
                   (counts.extracted = Cardinality(store.raw) + counts.skipped)]
    /\ GoOn(w, "advance")
    /\ UNCHANGED <<job, cursor, counts, user, clicks, faults>>

\* PUBLISH calls engine.advance, which reads the row once more.
Finish(w) ==
    /\ Connected(w, Publish)
    /\ Resolve(w, After(job.stage)) /\ Sleep(w)
    /\ UNCHANGED <<cursor, counts, store, user, clicks, faults>>

\* advanceToNextRunning and parkAwaitingInput write whatever the row has become.
Advance(w) ==
    /\ worker[w].pc = "advance"
    /\ JobIs(w, worker[w].stage + 1, "running") /\ Sleep(w)
    /\ UNCHANGED <<cursor, counts, store, user, clicks, faults>>

Park(w) ==
    /\ worker[w].pc = "park"
    /\ JobIs(w, worker[w].stage, "awaiting_input") /\ Sleep(w)
    /\ UNCHANGED <<cursor, counts, store, user, clicks, faults>>

\* Work that throws: no connection, no survey, a file that is gone or does not parse.
Impossible(w) ==
    \/ worker[w].pc = "stage" /\ worker[w].stage # DryRun /\ ~store.conn
    \/ At(w, Transform) /\ store.mapping = "none"
    \/ At(w, Load) /\ ~worker[w].cur.survey /\ worker[w].cur.rows # {}
    \/ worker[w].pc = "extract" /\ First(Todo(w)) \notin store.files \ store.bad

\* guardedProcessJob: whatever the error, failJob(stage of the claim, retryable).
Refuse(w) ==
    /\ Impossible(w)
    /\ JobIs(w, worker[w].claimed, "queued") /\ Sleep(w)
    /\ UNCHANGED <<cursor, counts, store, user, clicks, faults>>

Throw(w) ==
    /\ faults < MaxFaults /\ faults' = faults + 1 /\ worker[w].pc \notin {"idle", "read"}
    /\ JobIs(w, worker[w].claimed, "queued") /\ Sleep(w)
    /\ UNCHANGED <<cursor, counts, store, user, clicks>>

Crash(w) ==
    /\ faults < MaxFaults /\ faults' = faults + 1 /\ worker[w] # Asleep
    /\ Sleep(w)
    /\ UNCHANGED <<job, cursor, counts, store, user, clicks>>
-----------------------------------------------------------------------------
(* The requests of the job page.                                           *)

\* The routes take a request whatever the stage and the status of the job.
Click(u, op) ==
    /\ user[u] = NoRequest /\ (op = "disconnect" => store.conn)
    /\ clicks < MaxClicks /\ clicks' = clicks + 1
    /\ user' = [user EXCEPT ![u] = [@ EXCEPT !.op = op,
                    !.pc = IF op \in Clicks THEN "route" ELSE "read"]]
    /\ UNCHANGED <<job, cursor, counts, store, worker, faults>>

\* confirmMapping and approveAndLoad read the job.
GetJob(u) ==
    /\ user[u].pc = "read"
    /\ user' = [user EXCEPT ![u] = [@ EXCEPT !.pc = "save", !.survey = cursor.survey,
                    !.parked = Waits(DryRun)]]
    /\ Fresh(u)
    /\ UNCHANGED <<cursor, counts, store, worker, clicks, faults>>

SaveMapping(u) ==
    /\ user[u].pc = "save" /\ user[u].op = "confirm"
    /\ store' = [store EXCEPT !.mapping = "confirmed"]
    /\ Step(u, "survey")
    /\ UNCHANGED <<job, cursor, counts, worker, clicks, faults>>

\* A survey is written and its id stamped on the row: every other request that has read
\* the row is late with what it read of it.
NewSurvey(u) ==
    /\ store' = [store EXCEPT !.surveys = @ + 1]
    /\ cursor' = [cursor EXCEPT !.survey = TRUE]
    /\ job' = [job EXCEPT !.late = (@ \cup {v \in Users : user[v].pc \in {"save", "survey"}})
                                    \ {u}]

\* Mutant: a second confirmation makes a second survey. The model's bound is two.
MakeSurvey(u) ==
    /\ user[u].pc = "survey" /\ store.conn /\ store.surveys < 2
    /\ NewSurvey(u)
    /\ Step(u, "recheck")
    /\ UNCHANGED <<counts, worker, clicks, faults>>

\* ensureImportSurvey: the survey the cursor named when the job was read, or a new one.
Materialize(u) ==
    /\ user[u].pc = "survey"
    /\ IF store.conn /\ ~user[u].survey THEN NewSurvey(u)
       ELSE UNCHANGED <<job, store, cursor>>
    /\ Step(u, "recheck")
    /\ UNCHANGED <<counts, worker, clicks, faults>>

Recheck(u) ==
    /\ user[u].pc = "recheck"
    /\ IF Waits(Map) THEN Step(u, "resume") ELSE Done(u)
    /\ UNCHANGED <<job, cursor, counts, store, worker, clicks, faults>>

SaveApproval(u) ==
    /\ user[u].pc = "save" /\ user[u].op = "approve"
    /\ cursor' = [cursor EXCEPT !.approval = TRUE]
    /\ IF user[u].parked THEN Step(u, "resume") ELSE Done(u)
    /\ UNCHANGED <<job, counts, store, worker, clicks, faults>>

\* engine.resume checks the status; advance then reads the stage; runStage writes.
Resume(u) ==
    /\ user[u].pc = "resume"
    /\ IF job.status \in Parked THEN Step(u, "advance") ELSE Done(u)
    /\ Fresh(u)
    /\ UNCHANGED <<cursor, counts, store, worker, clicks, faults>>

ReadStage(u) ==
    /\ user[u].pc = "advance"
    /\ user' = [user EXCEPT ![u] = [@ EXCEPT !.pc = "write", !.to = After(job.stage)]]
    /\ UNCHANGED <<job, cursor, counts, store, worker, clicks, faults>>

RunStage(u) ==
    /\ user[u].pc = "write"
    /\ Resolve(u, user[u].to)
    /\ IF user[u].to.stage = Extract /\ counts.extracted > 0 THEN Step(u, "gauge") ELSE Done(u)
    /\ UNCHANGED <<cursor, counts, store, worker, clicks, faults>>

\* Backpressure: the records extracted are too many to be loaded, or not.
Gauge(u) ==
    /\ user[u].pc = "gauge"
    /\ JobIs(u, Extract, "paused") \/ UNCHANGED job
    /\ Done(u)
    /\ UNCHANGED <<cursor, counts, store, worker, clicks, faults>>

\* The process that serves a request dies.
Abandon(u) ==
    /\ faults < MaxFaults /\ faults' = faults + 1 /\ user[u] # NoRequest
    /\ Done(u)
    /\ UNCHANGED <<job, cursor, counts, store, worker, clicks>>

\* The routes write the status, then ask the engine, which writes it again.
StatusOf(op) ==
    CASE op = "pause" -> "paused" [] op = "resume" -> "running" [] OTHER -> "failed"

Route(u) ==
    /\ user[u].pc = "route"
    /\ IF user[u].op = "disconnect"
       THEN store' = [store EXCEPT !.conn = FALSE] /\ job' = job
       ELSE JobIs(u, job.stage, StatusOf(user[u].op)) /\ store' = store
    /\ Step(u, IF user[u].op = "resume" THEN "resume" ELSE "control")
    /\ UNCHANGED <<cursor, counts, worker, clicks, faults>>

\* controlJob, or the cancellation of what a removed connection has not finished.
Control(u) ==
    /\ user[u].pc = "control"
    /\ IF user[u].op = "disconnect" /\ job.status \in Terminal
       THEN job' = job ELSE JobIs(u, job.stage, StatusOf(user[u].op))
    /\ Done(u)
    /\ UNCHANGED <<cursor, counts, store, worker, clicks, faults>>
-----------------------------------------------------------------------------
WorkerStep(w) ==
    \/ Claim(w) \/ Read(w) \/ Pass(w) \/ Enumerate(w) \/ Open(w)
    \/ Append(w) \/ Mark(w) \/ Count(w) \/ PurgeUpload(w)
    \/ Propose(w) \/ Stage(w) \/ Report(w) \/ Write(w) \/ Balance(w) \/ Finish(w)
    \/ Advance(w) \/ Park(w) \/ Refuse(w)

Request(u) ==
    \/ GetJob(u) \/ SaveMapping(u) \/ Materialize(u) \/ Recheck(u) \/ SaveApproval(u)
    \/ Resume(u) \/ ReadStage(u) \/ RunStage(u) \/ Gauge(u) \/ Route(u) \/ Control(u)

Next ==
    \/ \E w \in Workers : WorkerStep(w) \/ Throw(w) \/ Crash(w)
    \/ \E u \in Users : Request(u) \/ Abandon(u)
    \/ \E u \in Users, op \in Clicks \cup {"confirm", "approve"} : Click(u, op)

\* Ticks recur, and a request that has begun is carried through; analysts owe nothing.
Fairness ==
    /\ \A w \in Workers : WF_vars(WorkerStep(w))
    /\ \A u \in Users : WF_vars(Request(u))

Spec == Init /\ [][Next]_vars /\ Fairness
-----------------------------------------------------------------------------
StageNo == Connect..Publish
Statuses == Runnable \cup Parked \cup Terminal
Mappings == {"none", "proposed", "confirmed"}
Extracting == {"extract", "mark", "count", "purge"}
Requests == {"confirm", "approve"}
Carrying == {"advance", "write", "gauge"}

CursorType == [resources : SUBSET Resources, done : SUBSET Resources, rows : SUBSET Resources,
               by : Mappings, survey : BOOLEAN, approval : BOOLEAN]
StoreType == [raw : SUBSET Resources, files : SUBSET Resources, bad : SUBSET Resources,
              mapping : Mappings,
              surveys : Nat, loaded : SUBSET Resources, conn : BOOLEAN,
              balanced : BOOLEAN, unasked : BOOLEAN]
WorkerType == [pc : {"idle", "read", "stage", "advance", "park"} \cup Extracting,
               claimed : StageNo, stage : StageNo, cur : CursorType,
               file : Resources \cup {NoFile}, new : 0..1]
UserType == [op : Requests \cup Clicks \cup {"none", "create"},
             pc : {"idle", "read", "save", "survey", "recheck", "resume", "route", "control"}
                    \cup Carrying,
             parked : BOOLEAN, survey : BOOLEAN,
             to : [stage : 0..Publish, status : Statuses]]

\* A worker extracts files in EXTRACT only, and the last stage ends in engine.advance.
WorkerFits(x) ==
    /\ x.pc \in Extracting => x.stage = Extract
    /\ x.pc \in {"mark", "count", "purge"} => x.file \in Resources
    /\ x.pc = "advance" => x.stage \notin {Map, DryRun, Publish}
    /\ x.pc = "park" => x.stage \in {Discover, Map, DryRun}

\* Controls and confirmations go through routes of their own.
UserFits(x) ==
    /\ x.pc \in {"route", "control"} => x.op \in Clicks
    /\ x.pc = "control" => x.op # "resume"
    /\ x.pc \in {"read", "save", "survey", "recheck"} => x.op \in Requests

JobTyped == job \in [stage : StageNo, status : Statuses, furthest : StageNo,
                     late : SUBSET (Workers \cup Users)]
TablesTyped ==
    /\ cursor \in CursorType /\ store \in StoreType
    /\ counts \in [extracted : 0..1, skipped : 0..Cardinality(Resources)]
WorkersTyped == worker \in [Workers -> WorkerType] /\ \A w \in Workers : WorkerFits(worker[w])
UsersTyped == user \in [Users -> UserType] /\ \A u \in Users : UserFits(user[u])

\* The job, the other tables, workers and requests keep their shape; no stage is past
\* the spine.
PrismTypeOK ==
    /\ JobTyped /\ TablesTyped /\ WorkersTyped /\ UsersTyped
    /\ clicks \in Nat /\ faults \in Nat

\* The step is one of an actor that holds what another has overtaken.
LateStep ==
    \/ \E w \in Workers \cap job.late : worker'[w] # worker[w]
    \/ \E u \in Users \cap job.late : user'[u] # user[u]
Row == <<job.stage, job.status>>

\* An upload is deleted only when its records are in the raw log, and only a file whose
\* records are there counts as extracted: two workers on one job, a crash between any two
\* statements and a file that does not parse lose no record (stageExtract).
RecordsAreKept == /\ Resources \subseteq store.files \cup store.raw
                  /\ cursor.done \subseteq store.raw

\* The job first comes past MAP, and first past DRY_RUN, by a request of an analyst,
\* however workers, retries and requests race: no worker's write, late or not, takes it
\* there (parkAwaitingInput, advanceToNextRunning). That the request gives consent is not
\* promised: a resume will do.
GatesNeedPeople ==
    [][\A gate \in Interactive :
          job.furthest <= gate /\ job'.stage > gate => user' # user]_vars

\* Except by the write of an actor that read the row before another one moved it (a worker
\* overtaken in its stage, a second approval, the creator's own runStage('connect')), the
\* spine is walked one stage at a time and never backwards, and a job that waits, is paused
\* or has ended is set going by a request (advanceToNextRunning, failJob, runStage;
\* worker.ts, STOP CONDITIONS).
StageGoesForward ==
    [][\/ LateStep
       \/ /\ job'.stage \in {job.stage, job.stage + 1}
          /\ job.status \notin Runnable /\ Row' # Row => user' # user]_vars

\* A second survey is made only by a confirmation that read the job before the first
\* survey's id was on it: no resume, retry after a crash or later confirmation makes one
\* (ensureImportSurvey).
OneSurvey == [][store'.surveys > store.surveys => store.surveys = 0 \/ LateStep]_vars

\* A job never silently stalls (failJob): one that is queued or running has its row
\* written again and again, by an advance, a retry or a backoff, until it waits for a
\* person or ends, whatever crashes and whatever file does not parse.
NeverStalls == []<><<Row' # Row>>_vars \/ []<>(job.status \notin Runnable)
-----------------------------------------------------------------------------
(* What the documents say without the exceptions.                          *)

\* Nothing is written to the canonical tables before an analyst has confirmed the
\* mapping it went through and approved the dry run.
ConsentBeforeLoad == ~store.unasked

\* A complete import has every record of every file in the canonical tables.
CompleteIsLoaded == job.status = "complete" => store.loaded = Resources

\* The import has one survey (ensureImportSurvey, idempotent per job).
SurveyOnce == store.surveys <= 1

\* The report that certifies a complete import balances (reconcile.ts).
CompleteIsBalanced == job.status = "complete" => store.balanced

\* A worker never touches a job that waits, is paused or has ended.
StaysStopped == [][job.status \notin Runnable /\ worker' # worker => Row' = Row]_vars

\* Two workers on one job duplicate work and nothing else: the job comes to a state that
\* a person sees.
ReachesAPerson == (job.status \in Runnable) ~> (job.status \notin Runnable)
=============================================================================

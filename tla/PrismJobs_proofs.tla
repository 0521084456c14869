--------------------------- MODULE PrismJobs_proofs ---------------------------
(***************************************************************************)
(* The import job for every set of files, every number of workers,         *)
(* analysts, errors, crashes and requests: its types; that no record is    *)
(* lost; that people alone bring it past the stages that ask; and that     *)
(* only what was overtaken walks the spine out of turn or makes a second   *)
(* survey.                                                                 *)
(***************************************************************************)
EXTENDS PrismJobs, FiniteSetTheorems, TLAPS

USE PrismAssumption

-----------------------------------------------------------------------------
(* What a step of a worker or a request does to its record.                *)

\* A worker's record is replaced, and the others keep theirs.
LEMMA WorkerSet ==
    ASSUME WorkersTyped, NEW w \in Workers, NEW x \in WorkerType, WorkerFits(x),
           worker' = [worker EXCEPT ![w] = x]
    PROVE  /\ WorkersTyped' /\ worker'[w] = x
           /\ \A v \in Workers \ {w} : worker'[v] = worker[v]
<1>1. worker' \in [Workers -> WorkerType] /\ worker'[w] = x
  BY DEF WorkersTyped
<1>2. \A v \in Workers \ {w} : worker'[v] = worker[v]
  BY DEF WorkersTyped
<1>. QED
  BY <1>1, <1>2 DEF WorkersTyped

\* A worker goes to sleep.
LEMMA Slept ==
    ASSUME WorkersTyped, NEW w \in Workers, Sleep(w)
    PROVE  /\ WorkersTyped' /\ worker'[w] = Asleep
           /\ \A v \in Workers \ {w} : worker'[v] = worker[v]
<1>1. Asleep \in WorkerType
  BY DEF Asleep, Empty, WorkerType, CursorType, Mappings, StageNo, Connect, Publish
<1>2. WorkerFits(Asleep)
  BY DEF Asleep, WorkerFits, Extracting
<1>. QED
  BY <1>1, <1>2, WorkerSet DEF Sleep

\* A worker goes on with what it read.
LEMMA WentOn ==
    ASSUME WorkersTyped, NEW w \in Workers,
           NEW pc \in {"idle", "read", "stage", "advance", "park"} \cup Extracting,
           GoOn(w, pc),
           pc \in Extracting => worker[w].stage = Extract,
           pc \in {"mark", "count", "purge"} => worker[w].file \in Resources,
           pc = "advance" => worker[w].stage \notin {Map, DryRun, Publish},
           pc = "park" => worker[w].stage \in {Discover, Map, DryRun}
    PROVE  /\ WorkersTyped' /\ worker'[w] = [worker[w] EXCEPT !.pc = pc]
           /\ \A v \in Workers \ {w} : worker'[v] = worker[v]
<1>. DEFINE x == [worker[w] EXCEPT !.pc = pc]
<1>1. x \in WorkerType /\ x.pc = pc /\ x.stage = worker[w].stage /\ x.file = worker[w].file
  BY DEF WorkersTyped, WorkerType
<1>2. WorkerFits(x)
  BY <1>1 DEF WorkerFits
<1>3. worker' = [worker EXCEPT ![w] = x]
  BY DEF GoOn
<1>. QED
  BY <1>1, <1>2, <1>3, WorkerSet

\* A worker is done with its stage.
LEMMA StageDone ==
    ASSUME WorkersTyped, NEW w \in Workers, GoOn(w, "advance"),
           worker[w].stage \notin {Map, DryRun, Publish}
    PROVE  /\ WorkersTyped' /\ worker'[w] = [worker[w] EXCEPT !.pc = "advance"]
           /\ \A v \in Workers \ {w} : worker'[v] = worker[v]
BY WentOn DEF Extracting

\* A worker has found that its stage waits for an analyst.
LEMMA StageParked ==
    ASSUME WorkersTyped, NEW w \in Workers, GoOn(w, "park"),
           worker[w].stage \in {Discover, Map, DryRun}
    PROVE  /\ WorkersTyped' /\ worker'[w] = [worker[w] EXCEPT !.pc = "park"]
           /\ \A v \in Workers \ {w} : worker'[v] = worker[v]
BY WentOn DEF Extracting

\* A request's record is replaced, and the others keep theirs.
LEMMA UserSet ==
    ASSUME UsersTyped, NEW u \in Users, NEW x \in UserType, UserFits(x),
           user' = [user EXCEPT ![u] = x]
    PROVE  /\ UsersTyped' /\ user'[u] = x
           /\ \A v \in Users \ {u} : user'[v] = user[v]
<1>1. user' \in [Users -> UserType] /\ user'[u] = x
  BY DEF UsersTyped
<1>2. \A v \in Users \ {u} : user'[v] = user[v]
  BY DEF UsersTyped
<1>. QED
  BY <1>1, <1>2 DEF UsersTyped

\* A request is over.
LEMMA Ended ==
    ASSUME UsersTyped, NEW u \in Users, Done(u)
    PROVE  /\ UsersTyped' /\ user'[u] = NoRequest
           /\ \A v \in Users \ {u} : user'[v] = user[v]
<1>1. NoRequest \in UserType
  BY DEF NoRequest, UserType, Requests, Statuses, Runnable, Publish
<1>2. UserFits(NoRequest)
  BY DEF NoRequest, UserFits
<1>. QED
  BY <1>1, <1>2, UserSet DEF Done

\* A request goes on with what it read.
LEMMA Stepped ==
    ASSUME UsersTyped, NEW u \in Users,
           NEW pc \in {"survey", "recheck", "resume", "advance", "gauge", "control"}, Step(u, pc),
           pc = "control" => user[u].op \in Clicks \ {"resume"},
           pc \in {"survey", "recheck"} => user[u].op \in Requests
    PROVE  /\ UsersTyped' /\ user'[u] = [user[u] EXCEPT !.pc = pc]
           /\ \A v \in Users \ {u} : user'[v] = user[v]
<1>. DEFINE x == [user[u] EXCEPT !.pc = pc]
<1>1. x \in UserType /\ x.pc = pc /\ x.op = user[u].op
  BY DEF UsersTyped, UserType, Carrying
<1>2. UserFits(x)
  BY <1>1 DEF UserFits
<1>3. user' = [user EXCEPT ![u] = x]
  BY DEF Step
<1>. QED
  BY <1>1, <1>2, <1>3, UserSet

\* A request begins.
LEMMA Requested ==
    ASSUME UsersTyped, NEW u \in Users, NEW op \in Clicks \cup {"confirm", "approve"},
           Click(u, op)
    PROVE  UsersTyped' /\ user'[u].pc \in {"route", "read"}
<1>. DEFINE pc == IF op \in Clicks THEN "route" ELSE "read"
            x == [user[u] EXCEPT !.op = op, !.pc = pc]
<1>1. x \in UserType /\ x.pc = pc /\ x.op = op
  BY DEF UsersTyped, UserType, Requests
<1>2. UserFits(x)
  BY <1>1 DEF UserFits, Requests
<1>3. user' = [user EXCEPT ![u] = x]
  BY DEF Click
<1>. HIDE DEF x
<1>. QED
  BY <1>1, <1>2, <1>3, UserSet
-----------------------------------------------------------------------------
(* The types.                                                              *)

\* What a write of the row leaves: those who held the row are late, if it moved.
LEMMA RowWritten ==
    ASSUME JobTyped, NEW a \in Workers \cup Users, NEW stage \in StageNo,
           NEW status \in Statuses, JobIs(a, stage, status)
    PROVE  /\ JobTyped' /\ job'.stage = stage /\ job'.status = status
           /\ job'.furthest \in {stage, job.furthest}
           /\ job'.furthest >= stage /\ job'.furthest >= job.furthest
           /\ \/ Row' = Row /\ job'.late = job.late \ {a}
              \/ job'.late = (job.late \cup Holders) \ {a}
<1>1. Holders \subseteq Workers \cup Users
  BY DEF Holders
<1>. QED
  BY <1>1 DEF JobTyped, JobIs, Row, StageNo, Connect, Publish

\* No step takes the job off the spine.
LEMMA JobKept == ASSUME PrismTypeOK, [Next]_vars PROVE JobTyped'
<1>. USE DEF PrismTypeOK, StageNo, Statuses, Runnable, Parked, Terminal, Connect, Publish
<1>. DEFINE Actors == Workers \cup Users
<1>0. ASSUME NEW a \in Actors, Fresh(a) PROVE JobTyped'
  BY <1>0 DEF Fresh, JobTyped
<1>1. ASSUME NEW w \in Workers, Claim(w) PROVE JobTyped'
  BY <1>1, RowWritten DEF Claim, JobTyped
<1>2. ASSUME NEW w \in Workers, Finish(w) PROVE JobTyped'
  <2>1. After(job.stage).stage \in 0..Publish /\ After(job.stage).status \in Statuses
    BY DEF After, JobTyped, Interactive, Map, DryRun
  <2>. QED
    BY <1>2, <2>1, RowWritten DEF Finish, Resolve, JobTyped
<1>3. ASSUME NEW w \in Workers, Advance(w) PROVE JobTyped'
  <2>1. worker[w].stage + 1 \in StageNo
    BY <1>3 DEF Advance, WorkersTyped, WorkerType, WorkerFits
  <2>. QED
    BY <1>3, <2>1, RowWritten DEF Advance
<1>4. ASSUME NEW w \in Workers, Park(w) PROVE JobTyped'
  BY <1>4, RowWritten DEF Park, WorkersTyped, WorkerType
<1>5. ASSUME NEW w \in Workers, Refuse(w) PROVE JobTyped'
  BY <1>5, RowWritten DEF Refuse, WorkersTyped, WorkerType
<1>6. ASSUME NEW w \in Workers, Throw(w) PROVE JobTyped'
  BY <1>6, RowWritten DEF Throw, WorkersTyped, WorkerType
<1>7. ASSUME NEW u \in Users, RunStage(u) PROVE JobTyped'
  <2>1. user[u].to.stage \in 0..Publish /\ user[u].to.status \in Statuses
    BY DEF UsersTyped, UserType
  <2>. QED
    BY <1>7, <2>1, RowWritten DEF RunStage, Resolve, JobTyped
<1>8. ASSUME NEW u \in Users, Route(u) PROVE JobTyped'
  <2>1. StatusOf(user[u].op) \in Statuses
    BY DEF StatusOf
  <2>. QED
    BY <1>8, <2>1, RowWritten DEF Route, JobTyped
<1>9. ASSUME NEW u \in Users, Control(u) PROVE JobTyped'
  <2>1. StatusOf(user[u].op) \in Statuses
    BY DEF StatusOf
  <2>. QED
    BY <1>9, <2>1, RowWritten DEF Control, JobTyped
<1>11. ASSUME NEW u \in Users, Gauge(u) PROVE JobTyped'
  <2>1. Extract \in StageNo
    BY DEF Extract
  <2>. QED
    BY <1>11, <2>1, RowWritten DEF Gauge, JobTyped
<1>12. ASSUME NEW u \in Users, Materialize(u) PROVE JobTyped'
  BY <1>12 DEF Materialize, NewSurvey, JobTyped
<1>13. ASSUME NEW u \in Users, GetJob(u) \/ Resume(u) PROVE JobTyped'
  BY <1>0, <1>13 DEF GetJob, Resume
<1>10. CASE UNCHANGED job
  BY <1>10 DEF JobTyped
<1>. QED
  BY <1>1, <1>2, <1>3, <1>4, <1>5, <1>6, <1>7, <1>8, <1>9, <1>10, <1>11, <1>12, <1>13
     DEF Next, WorkerStep, Request, vars, Read, Pass, Enumerate, Open, Append, Mark, Count,
     PurgeUpload, Propose, Stage, Report, Write, Balance, Crash, SaveMapping, Recheck,
     SaveApproval, ReadStage, Abandon, Click

\* The cursor, the counters and the other tables keep their types.
LEMMA TablesKept == ASSUME PrismTypeOK, [Next]_vars PROVE TablesTyped'
<1>. USE DEF PrismTypeOK, TablesTyped
<1>1. ASSUME NEW w \in Workers, Enumerate(w) PROVE TablesTyped'
  BY <1>1 DEF Enumerate, CursorType
<1>2. ASSUME NEW w \in Workers, Append(w) PROVE TablesTyped'
  BY <1>2 DEF Append, StoreType
<1>3. ASSUME NEW w \in Workers, Mark(w) PROVE TablesTyped'
  <2>1. worker[w].cur.done \cup {worker[w].file} \subseteq Resources
    BY <1>3 DEF Mark, WorkersTyped, WorkerType, WorkerFits, CursorType
  <2>. QED
    BY <1>3, <2>1 DEF Mark, CursorType
<1>4. ASSUME NEW w \in Workers, Count(w) PROVE TablesTyped'
  BY <1>4 DEF Count, WorkersTyped, WorkerType
<1>5. ASSUME NEW w \in Workers, PurgeUpload(w) PROVE TablesTyped'
  BY <1>5 DEF PurgeUpload, StoreType
<1>6. ASSUME NEW w \in Workers, Propose(w) PROVE TablesTyped'
  BY <1>6 DEF Propose, StoreType, Mappings
<1>7. ASSUME NEW w \in Workers, Stage(w) PROVE TablesTyped'
  BY <1>7 DEF Stage, CursorType, Mappings, StoreType
<1>8. ASSUME NEW w \in Workers, Write(w) PROVE TablesTyped'
  <2>1. store.loaded \subseteq Resources /\ worker[w].cur.rows \subseteq Resources
    BY DEF StoreType, WorkersTyped, WorkerType, CursorType
  <2>2. Cardinality(worker[w].cur.rows \cap store.loaded) \in 0..Cardinality(Resources)
    BY <2>1, FS_Subset, FS_CardinalityType
  <2>3. store' \in StoreType /\ cursor' \in CursorType
    BY <1>8, <2>1 DEF Write, StoreType
  <2>4. counts' \in [extracted : 0..1, skipped : 0..Cardinality(Resources)]
    BY <1>8, <2>2 DEF Write
  <2>. QED
    BY <2>3, <2>4
<1>9. ASSUME NEW w \in Workers, Balance(w) PROVE TablesTyped'
  BY <1>9 DEF Balance, StoreType
<1>10. ASSUME NEW u \in Users, SaveMapping(u) PROVE TablesTyped'
  BY <1>10 DEF SaveMapping, StoreType, Mappings
<1>11. ASSUME NEW u \in Users, Materialize(u) PROVE TablesTyped'
  <2>1. CASE ~(store.conn /\ ~user[u].survey)
    BY <1>11, <2>1 DEF Materialize
  <2>2. CASE store.conn /\ ~user[u].survey
    <3>1. cursor' \in CursorType
      BY <1>11, <2>2 DEF Materialize, NewSurvey, CursorType
    <3>2. store.surveys + 1 \in Nat
      BY DEF StoreType
    <3>3. store' \in StoreType
      BY <1>11, <2>2, <3>2 DEF Materialize, NewSurvey, StoreType
    <3>. QED
      BY <1>11, <3>1, <3>3 DEF Materialize, NewSurvey
  <2>. QED
    BY <2>1, <2>2
<1>12. ASSUME NEW u \in Users, SaveApproval(u) PROVE TablesTyped'
  BY <1>12 DEF SaveApproval, CursorType
<1>13. ASSUME NEW u \in Users, Route(u) PROVE TablesTyped'
  BY <1>13 DEF Route, StoreType
<1>14. CASE UNCHANGED <<counts, cursor, store>>
  BY <1>14
<1>. QED
  BY <1>1, <1>2, <1>3, <1>4, <1>5, <1>6, <1>7, <1>8, <1>9, <1>10, <1>11, <1>12, <1>13,
     <1>14 DEF Next, WorkerStep, Request, vars, Claim, Read, Pass, Open, Report, Finish,
     Advance, Park, Refuse, Throw, Crash, GetJob, Recheck, Resume, ReadStage, RunStage,
     Gauge, Control, Abandon, Click

\* The workers keep theirs, and what fits their place.
LEMMA WorkersKept == ASSUME PrismTypeOK, [Next]_vars PROVE WorkersTyped'
<1>1. ASSUME NEW w \in Workers, Claim(w) PROVE WorkersTyped'
  <2>. DEFINE x == [worker[w] EXCEPT !.pc = "read", !.claimed = job.stage]
  <2>1. x \in WorkerType /\ x.pc = "read"
    BY DEF PrismTypeOK, JobTyped, WorkersTyped, WorkerType
  <2>. QED
    BY <1>1, <2>1, WorkerSet DEF Claim, PrismTypeOK, WorkerFits, Extracting
<1>2. ASSUME NEW w \in Workers, Read(w) PROVE WorkersTyped'
  <2>1. CASE job.status # "running"
    BY <1>2, <2>1, Slept DEF Read, PrismTypeOK
  <2>2. CASE job.status = "running"
    <3>. DEFINE cur == Needed(job.stage)
               x == [worker[w] EXCEPT !.pc = "stage", !.stage = job.stage, !.cur = cur]
    <3>1. cur \in CursorType
      BY DEF Needed, Empty, PrismTypeOK, TablesTyped, CursorType, Mappings
    <3>. HIDE DEF cur
    <3>2. x \in WorkerType /\ x.pc = "stage"
      BY <3>1 DEF PrismTypeOK, JobTyped, WorkersTyped, WorkerType
    <3>. QED
      BY <1>2, <2>2, <3>2, WorkerSet DEF Read, PrismTypeOK, WorkerFits, Extracting, cur
  <2>. QED
    BY <2>1, <2>2
<1>3. ASSUME NEW w \in Workers, Pass(w) PROVE WorkersTyped'
  <2>1. worker[w].stage \notin {Map, DryRun, Publish} /\ GoOn(w, "advance")
    BY <1>3 DEF Pass, Connected, At, Map, DryRun, Publish, Connect, Profile, Enrich
  <2>. QED
    BY <2>1, StageDone DEF PrismTypeOK
<1>4. ASSUME NEW w \in Workers, Enumerate(w) PROVE WorkersTyped'
  <2>1. worker[w].stage = Discover /\ (GoOn(w, "park") \/ GoOn(w, "advance"))
    BY <1>4 DEF Enumerate, Connected, At
  <2>2. /\ worker[w].stage \in {Discover, Map, DryRun}
        /\ worker[w].stage \notin {Map, DryRun, Publish}
    BY <2>1 DEF Discover, Map, DryRun, Publish
  <2>. QED
    BY <2>1, <2>2, StageDone, StageParked DEF PrismTypeOK
<1>5. ASSUME NEW w \in Workers, Open(w) PROVE WorkersTyped'
  <2>1. worker[w].stage = Extract /\ (GoOn(w, "extract") \/ GoOn(w, "advance"))
    BY <1>5 DEF Open, Connected, At
  <2>2. CASE GoOn(w, "extract")
    BY <2>1, <2>2, WentOn DEF PrismTypeOK, Extracting
  <2>3. worker[w].stage \notin {Map, DryRun, Publish}
    BY <2>1 DEF Extract, Map, DryRun, Publish
  <2>. QED
    BY <2>1, <2>2, <2>3, StageDone DEF PrismTypeOK
<1>6. ASSUME NEW w \in Workers, Append(w) PROVE WorkersTyped'
  <2>. DEFINE r == First(Todo(w))
             new == IF r \in store.raw THEN 0 ELSE 1
             x == [worker[w] EXCEPT !.pc = "mark", !.file = r, !.new = new]
  <2>1. r \in Resources /\ new \in 0..1
    BY <1>6 DEF Append, PrismTypeOK, TablesTyped, StoreType
  <2>2. x \in WorkerType /\ x.pc = "mark" /\ x.stage = worker[w].stage /\ x.file = r
    BY <2>1 DEF PrismTypeOK, WorkersTyped, WorkerType, Extracting
  <2>3. WorkerFits(x)
    BY <1>6, <2>1, <2>2 DEF Append, PrismTypeOK, WorkersTyped, WorkerFits, Extracting
  <2>. QED
    BY <1>6, <2>2, <2>3, WorkerSet DEF Append, PrismTypeOK
<1>7. ASSUME NEW w \in Workers, Mark(w) PROVE WorkersTyped'
  <2>. DEFINE done == worker[w].cur.done \cup {worker[w].file}
             x == [worker[w] EXCEPT !.pc = "count", !.cur.done = done]
  <2>1. done \subseteq Resources
    BY <1>7 DEF Mark, PrismTypeOK, WorkersTyped, WorkerType, WorkerFits, CursorType
  <2>2. [worker[w].cur EXCEPT !.done = done] \in CursorType
    BY <2>1 DEF PrismTypeOK, WorkersTyped, WorkerType, CursorType
  <2>3. /\ x \in WorkerType /\ x.pc = "count"
        /\ x.stage = worker[w].stage /\ x.file = worker[w].file
    BY <2>2 DEF PrismTypeOK, WorkersTyped, WorkerType, Extracting
  <2>4. WorkerFits(x)
    BY <1>7, <2>3 DEF Mark, PrismTypeOK, WorkersTyped, WorkerFits, Extracting
  <2>. QED
    BY <1>7, <2>3, <2>4, WorkerSet DEF Mark, PrismTypeOK
<1>8. ASSUME NEW w \in Workers, Count(w) PROVE WorkersTyped'
  <2>1. worker[w].stage = Extract /\ worker[w].file \in Resources /\ GoOn(w, "purge")
    BY <1>8 DEF Count, PrismTypeOK, WorkersTyped, WorkerFits, Extracting
  <2>. QED
    BY <2>1, WentOn DEF PrismTypeOK, Extracting
<1>9. ASSUME NEW w \in Workers, PurgeUpload(w) PROVE WorkersTyped'
  <2>1. worker[w].stage = Extract /\ (GoOn(w, "extract") \/ GoOn(w, "advance"))
    BY <1>9 DEF PurgeUpload, PrismTypeOK, WorkersTyped, WorkerFits, Extracting
  <2>2. CASE GoOn(w, "extract")
    BY <2>1, <2>2, WentOn DEF PrismTypeOK, Extracting
  <2>3. worker[w].stage \notin {Map, DryRun, Publish}
    BY <2>1 DEF Extract, Map, DryRun, Publish
  <2>. QED
    BY <2>1, <2>2, <2>3, StageDone DEF PrismTypeOK
<1>10. ASSUME NEW w \in Workers, Propose(w) PROVE WorkersTyped'
  <2>1. worker[w].stage \in {Discover, Map, DryRun} /\ GoOn(w, "park")
    BY <1>10 DEF Propose, Connected, At, Map, DryRun, Discover
  <2>. QED
    BY <2>1, StageParked DEF PrismTypeOK
<1>11. ASSUME NEW w \in Workers, Stage(w) PROVE WorkersTyped'
  <2>1. worker[w].stage \notin {Map, DryRun, Publish} /\ GoOn(w, "advance")
    BY <1>11 DEF Stage, Connected, At, Map, DryRun, Publish, Transform
  <2>. QED
    BY <2>1, StageDone DEF PrismTypeOK
<1>12. ASSUME NEW w \in Workers, Report(w) PROVE WorkersTyped'
  <2>1. worker[w].stage \in {Discover, Map, DryRun} /\ GoOn(w, "park")
    BY <1>12 DEF Report, At, Map, DryRun, Discover
  <2>. QED
    BY <2>1, StageParked DEF PrismTypeOK
<1>13. ASSUME NEW w \in Workers, Write(w) PROVE WorkersTyped'
  <2>1. worker[w].stage \notin {Map, DryRun, Publish} /\ GoOn(w, "advance")
    BY <1>13 DEF Write, Connected, At, Map, DryRun, Publish, Load
  <2>. QED
    BY <2>1, StageDone DEF PrismTypeOK
<1>14. ASSUME NEW w \in Workers, Balance(w) PROVE WorkersTyped'
  <2>1. worker[w].stage \notin {Map, DryRun, Publish} /\ GoOn(w, "advance")
    BY <1>14 DEF Balance, Connected, At, Map, DryRun, Publish, Reconcile
  <2>. QED
    BY <2>1, StageDone DEF PrismTypeOK
<1>15. ASSUME NEW w \in Workers, Finish(w) PROVE WorkersTyped'
  BY <1>15, Slept DEF Finish, PrismTypeOK
<1>16. ASSUME NEW w \in Workers, Advance(w) PROVE WorkersTyped'
  BY <1>16, Slept DEF Advance, PrismTypeOK
<1>17. ASSUME NEW w \in Workers, Park(w) PROVE WorkersTyped'
  BY <1>17, Slept DEF Park, PrismTypeOK
<1>18. ASSUME NEW w \in Workers, Refuse(w) PROVE WorkersTyped'
  BY <1>18, Slept DEF Refuse, PrismTypeOK
<1>19. ASSUME NEW w \in Workers, Throw(w) PROVE WorkersTyped'
  BY <1>19, Slept DEF Throw, PrismTypeOK
<1>20. ASSUME NEW w \in Workers, Crash(w) PROVE WorkersTyped'
  BY <1>20, Slept DEF Crash, PrismTypeOK
<1>21. CASE UNCHANGED worker
  BY <1>21 DEF PrismTypeOK, WorkersTyped
<1>. QED
  BY <1>1, <1>2, <1>3, <1>4, <1>5, <1>6, <1>7, <1>8, <1>9, <1>10, <1>11, <1>12, <1>13,
     <1>14, <1>15, <1>16, <1>17, <1>18, <1>19, <1>20, <1>21 DEF Next, WorkerStep, Request,
     vars, GetJob, SaveMapping, Materialize, Recheck, SaveApproval, Resume, ReadStage,
     RunStage, Gauge, Route, Control, Abandon, Click

\* The requests keep theirs.
LEMMA UsersKept == ASSUME PrismTypeOK, [Next]_vars PROVE UsersTyped'
<1>1. ASSUME NEW u \in Users, GetJob(u) PROVE UsersTyped'
  <2>. DEFINE parked == Waits(DryRun)
             x == [user[u] EXCEPT !.pc = "save", !.survey = cursor.survey, !.parked = parked]
  <2>1. cursor.survey \in BOOLEAN /\ parked \in BOOLEAN
    BY DEF PrismTypeOK, TablesTyped, CursorType, Waits
  <2>2. x \in UserType /\ x.pc = "save" /\ x.op = user[u].op
    BY <2>1 DEF PrismTypeOK, UsersTyped, UserType
  <2>3. UserFits(x)
    BY <1>1, <2>2 DEF GetJob, PrismTypeOK, UsersTyped, UserFits
  <2>. QED
    BY <1>1, <2>2, <2>3, UserSet DEF GetJob, PrismTypeOK
<1>2. ASSUME NEW u \in Users, SaveMapping(u) PROVE UsersTyped'
  BY <1>2, Stepped DEF SaveMapping, PrismTypeOK, UsersTyped, UserFits, Requests
<1>3. ASSUME NEW u \in Users, Materialize(u) PROVE UsersTyped'
  BY <1>3, Stepped DEF Materialize, PrismTypeOK, UsersTyped, UserFits, Requests
<1>4. ASSUME NEW u \in Users, Recheck(u) PROVE UsersTyped'
  BY <1>4, Stepped, Ended DEF Recheck, PrismTypeOK, UsersTyped, UserFits, Requests
<1>5. ASSUME NEW u \in Users, SaveApproval(u) PROVE UsersTyped'
  BY <1>5, Stepped, Ended DEF SaveApproval, PrismTypeOK, UsersTyped, UserFits, Requests
<1>6. ASSUME NEW u \in Users, Resume(u) PROVE UsersTyped'
  BY <1>6, Stepped, Ended DEF Resume, PrismTypeOK, UsersTyped, UserFits, Requests
<1>7. ASSUME NEW u \in Users, ReadStage(u) PROVE UsersTyped'
  <2>. DEFINE to == After(job.stage)
             x == [user[u] EXCEPT !.pc = "write", !.to = to]
  <2>1. to \in [stage : 0..Publish, status : Statuses]
    BY DEF After, PrismTypeOK, JobTyped, StageNo, Statuses, Runnable, Parked, Terminal,
       Connect, Publish
  <2>. HIDE DEF to
  <2>2. x \in UserType /\ x.pc = "write" /\ x.op = user[u].op
    BY <2>1 DEF PrismTypeOK, UsersTyped, UserType, Carrying
  <2>3. UserFits(x)
    BY <2>2 DEF UserFits
  <2>. QED
    BY <1>7, <2>2, <2>3, UserSet DEF ReadStage, PrismTypeOK, to
<1>8. ASSUME NEW u \in Users, RunStage(u) PROVE UsersTyped'
  BY <1>8, Ended, Stepped DEF RunStage, PrismTypeOK
<1>14. ASSUME NEW u \in Users, Gauge(u) PROVE UsersTyped'
  BY <1>14, Ended DEF Gauge, PrismTypeOK
<1>9. ASSUME NEW u \in Users, Route(u) PROVE UsersTyped'
  BY <1>9, Stepped DEF Route, PrismTypeOK, UsersTyped, UserFits, Requests
<1>10. ASSUME NEW u \in Users, Control(u) PROVE UsersTyped'
  BY <1>10, Ended DEF Control, PrismTypeOK
<1>11. ASSUME NEW u \in Users, Abandon(u) PROVE UsersTyped'
  BY <1>11, Ended DEF Abandon, PrismTypeOK
<1>12. ASSUME NEW u \in Users, NEW op \in Clicks \cup {"confirm", "approve"}, Click(u, op)
       PROVE  UsersTyped'
  BY <1>12, Requested DEF PrismTypeOK
<1>13. CASE UNCHANGED user
  BY <1>13 DEF PrismTypeOK, UsersTyped
<1>. QED
  BY <1>1, <1>2, <1>3, <1>4, <1>5, <1>6, <1>7, <1>8, <1>9, <1>10, <1>11, <1>12, <1>13,
     <1>14 DEF
     Next, WorkerStep, Request, vars, Claim, Read, Pass, Enumerate, Open, Append, Mark,
     Count, PurgeUpload, Propose, Stage, Report, Write, Balance, Finish, Advance, Park,
     Refuse, Throw, Crash

\* The types need no hypothesis on workers, analysts or clicks.
LEMMA TypeInvKept == PrismTypeOK /\ [Next]_vars => PrismTypeOK'
<1>1. ASSUME PrismTypeOK, [Next]_vars PROVE clicks' \in Nat /\ faults' \in Nat
  <2>1. faults' = faults \/ faults' = faults + 1
    BY <1>1 DEF Next, WorkerStep, Request, vars, Claim, Read, Pass, Enumerate, Open, Append,
       Mark, Count, PurgeUpload, Propose, Stage, Report, Write, Balance, Finish, Advance, Park,
       Refuse, Throw, Crash, GetJob, SaveMapping, Materialize, Recheck, SaveApproval, Resume,
       ReadStage, RunStage, Gauge, Route, Control, Abandon, Click
  <2>2. clicks' = clicks \/ clicks' = clicks + 1
    BY <1>1 DEF Next, WorkerStep, Request, vars, Claim, Read, Pass, Enumerate, Open, Append,
       Mark, Count, PurgeUpload, Propose, Stage, Report, Write, Balance, Finish, Advance, Park,
       Refuse, Throw, Crash, GetJob, SaveMapping, Materialize, Recheck, SaveApproval, Resume,
       ReadStage, RunStage, Gauge, Route, Control, Abandon, Click
  <2>. QED
    BY <1>1, <2>1, <2>2 DEF PrismTypeOK
<1>. QED
  BY <1>1, JobKept, TablesKept, WorkersKept, UsersKept DEF PrismTypeOK

\* The job starts with its types.
LEMMA TypeInvInit == Init => PrismTypeOK
<1>. SUFFICES ASSUME Init PROVE PrismTypeOK
  OBVIOUS
<1>1. JobTyped /\ clicks \in Nat /\ faults \in Nat
  BY DEF Init, JobTyped, StageNo, Statuses, Runnable, Connect, Publish
<1>2. Cardinality(Resources) \in Nat
  BY FS_CardinalityType
<1>3. TablesTyped
  <2>1. cursor \in CursorType
    BY DEF Init, CursorType, Mappings, Empty
  <2>2. store \in StoreType
    BY DEF Init, StoreType, Mappings
  <2>. QED
    BY <1>2, <2>1, <2>2 DEF Init, TablesTyped
<1>4. WorkersTyped
  BY DEF Init, WorkersTyped, WorkerFits, WorkerType, CursorType, Mappings, StageNo,
     Asleep, Empty, Extracting, Connect, Publish
<1>5. UsersTyped
  <2>1. NoRequest \in UserType /\ UserFits(NoRequest)
    BY DEF UserFits, UserType, NoRequest, Requests, Statuses, Runnable, Publish
  <2>2. Creating \in UserType /\ UserFits(Creating)
    <3>. DEFINE to == [stage |-> Connect, status |-> "running"]
    <3>1. to \in [stage : 0..Publish, status : Statuses]
      BY DEF Statuses, Runnable, Connect, Publish
    <3>. HIDE DEF to
    <3>. QED
      BY <3>1 DEF Creating, to, UserFits, UserType, Requests, Carrying
  <2>. QED
    BY <2>1, <2>2 DEF Init, UsersTyped
<1>. QED
  BY <1>1, <1>3, <1>4, <1>5 DEF PrismTypeOK

\* For any number of workers, analysts, clicks, files and failures, the job stays on its
\* spine, and workers and requests keep their types.
THEOREM PrismTyped == Spec => []PrismTypeOK
<1>. QED
  BY TypeInvInit, TypeInvKept, PTL DEF Spec
-----------------------------------------------------------------------------
(* Who acts: the one whose step it is leaves the others what they read,    *)
(* and makes them late when it moves the row.                              *)

Alone(a) ==
    /\ \A w \in Workers \ {a} : worker'[w] = worker[w]
    /\ \A u \in Users \ {a} : user'[u] = user[u]
    /\ \/ Row' = Row /\ job.late \ {a} \subseteq job'.late
       \/ (job.late \cup Holders) \ {a} \subseteq job'.late

\* A worker does the work of a stage.
AtWork(w) ==
    \/ Pass(w) \/ Enumerate(w) \/ Open(w) \/ Append(w) \/ Mark(w) \/ Count(w)
    \/ PurgeUpload(w) \/ Propose(w) \/ Stage(w) \/ Report(w) \/ Write(w) \/ Balance(w)

\* A worker ends its pass with a write of the row.
Ends(w) == Finish(w) \/ Advance(w) \/ Park(w) \/ Refuse(w) \/ Throw(w)

\* A request goes on without writing stage or status.
Asks(u) ==
    \/ GetJob(u) \/ SaveMapping(u) \/ Materialize(u) \/ Recheck(u) \/ SaveApproval(u)
    \/ Resume(u) \/ ReadStage(u) \/ Abandon(u)
    \/ \E op \in Clicks \cup {"confirm", "approve"} : Click(u, op)

\* A write of the row makes late all who held it, if it moved the row.
LEMMA Overtakes ==
    ASSUME NEW a, NEW stage, NEW status, JobIs(a, stage, status)
    PROVE  \/ Row' = Row /\ job.late \ {a} \subseteq job'.late
           \/ (job.late \cup Holders) \ {a} \subseteq job'.late
BY DEF JobIs, Row

\* The work of a stage leaves the row and the requests alone.
LEMMA WorkKeeps ==
    ASSUME PrismTypeOK, NEW w \in Workers, AtWork(w)
    PROVE  /\ job' = job /\ user' = user
           /\ worker[w].pc \notin {"idle", "read"}
           /\ worker'[w].pc \notin {"idle", "read", "stage"}
           /\ worker'[w].claimed = worker[w].claimed /\ worker'[w].stage = worker[w].stage
           /\ \A v \in Workers \ {w} : worker'[v] = worker[v]
<1>1. job' = job /\ user' = user
  BY DEF AtWork, Pass, Enumerate, Open, Append, Mark, Count, PurgeUpload, Propose, Stage,
     Report, Write, Balance
<1>2. worker[w].pc \in Extracting \cup {"stage"}
  BY DEF AtWork, Pass, Enumerate, Open, Append, Mark, Count, PurgeUpload, Propose, Stage,
     Report, Write, Balance, Connected, At, Extracting
<1>3. ASSUME NEW pc \in {"extract", "purge", "advance", "park"}, GoOn(w, pc)
      PROVE  /\ worker'[w].pc = pc
             /\ worker'[w].claimed = worker[w].claimed /\ worker'[w].stage = worker[w].stage
             /\ \A v \in Workers \ {w} : worker'[v] = worker[v]
  BY <1>3 DEF GoOn, PrismTypeOK, WorkersTyped, WorkerType
<1>4. ASSUME NEW x, worker' = [worker EXCEPT ![w] = x], x.pc \in {"mark", "count"},
             x.claimed = worker[w].claimed, x.stage = worker[w].stage
      PROVE  /\ worker'[w].pc \notin {"idle", "read", "stage"}
             /\ worker'[w].claimed = worker[w].claimed /\ worker'[w].stage = worker[w].stage
             /\ \A v \in Workers \ {w} : worker'[v] = worker[v]
  BY <1>4 DEF PrismTypeOK, WorkersTyped
<1>5. CASE Append(w)
  <2>. DEFINE r == First(Todo(w))
              x == [worker[w] EXCEPT !.pc = "mark", !.file = r,
                                     !.new = IF r \in store.raw THEN 0 ELSE 1]
  <2>1. worker' = [worker EXCEPT ![w] = x]
    BY <1>5 DEF Append
  <2>2. x.pc = "mark" /\ x.claimed = worker[w].claimed /\ x.stage = worker[w].stage
    BY DEF PrismTypeOK, WorkersTyped, WorkerType
  <2>. HIDE DEF x
  <2>. QED
    BY <1>1, <1>2, <1>4, <2>1, <2>2 DEF Extracting
<1>6. CASE Mark(w)
  <2>. DEFINE x == [worker[w] EXCEPT !.pc = "count",
                                     !.cur.done = worker[w].cur.done \cup {worker[w].file}]
  <2>1. worker' = [worker EXCEPT ![w] = x]
    BY <1>6 DEF Mark
  <2>2. x.pc = "count" /\ x.claimed = worker[w].claimed /\ x.stage = worker[w].stage
    BY DEF PrismTypeOK, WorkersTyped, WorkerType
  <2>. HIDE DEF x
  <2>. QED
    BY <1>1, <1>2, <1>4, <2>1, <2>2 DEF Extracting
<1>7. CASE ~(Append(w) \/ Mark(w))
  <2>1. \E pc \in {"extract", "purge", "advance", "park"} : GoOn(w, pc)
    BY <1>7 DEF AtWork, Pass, Enumerate, Open, Count, PurgeUpload, Propose, Stage, Report,
       Write, Balance
  <2>. QED
    BY <1>1, <1>2, <1>3, <2>1 DEF Extracting
<1>. QED
  BY <1>5, <1>6, <1>7

\* A worker ends its pass asleep.
LEMMA EndsAsleep ==
    ASSUME PrismTypeOK, NEW w \in Workers, Ends(w) \/ Crash(w)
    PROVE  /\ worker[w] # Asleep /\ worker'[w] = Asleep /\ user' = user
           /\ \A v \in Workers \ {w} : worker'[v] = worker[v]
           /\ Ends(w) => worker[w].pc \notin {"idle", "read"}
<1>1. Sleep(w) /\ user' = user
  BY DEF Ends, Finish, Advance, Park, Refuse, Throw, Crash
<1>2. Ends(w) => worker[w].pc \notin {"idle", "read"}
  BY DEF Ends, Finish, Advance, Park, Refuse, Throw, Impossible, Connected, At
<1>3. worker[w] # Asleep
  BY <1>2 DEF Crash, Asleep
<1>. QED
  BY <1>1, <1>2, <1>3, Slept DEF PrismTypeOK

\* What a claim and the read after it leave in the worker.
LEMMA Claimed ==
    ASSUME PrismTypeOK, NEW w \in Workers, Claim(w) \/ Read(w)
    PROVE  /\ user' = user
           /\ \A v \in Workers \ {w} : worker'[v] = worker[v]
           /\ Claim(w) => /\ worker'[w].pc = "read" /\ worker'[w].claimed = job.stage
                          /\ worker'[w].stage = Connect
           /\ Read(w) /\ job.status # "running" => worker'[w] = Asleep
           /\ Read(w) /\ job.status = "running" =>
                 /\ worker'[w].pc = "stage" /\ worker'[w].claimed = worker[w].claimed
                 /\ worker'[w].stage = job.stage
<1>1. CASE Claim(w)
  <2>. DEFINE x == [worker[w] EXCEPT !.pc = "read", !.claimed = job.stage]
  <2>1. worker' = [worker EXCEPT ![w] = x] /\ user' = user /\ worker[w].pc = "idle"
    BY <1>1 DEF Claim, Asleep
  <2>2. x.pc = "read" /\ x.claimed = job.stage /\ x.stage = Connect
    BY <1>1 DEF Claim, Asleep
  <2>. HIDE DEF x
  <2>3. ~Read(w)
    BY <2>1 DEF Read
  <2>. QED
    BY <2>1, <2>2, <2>3 DEF PrismTypeOK, WorkersTyped
<1>2. CASE Read(w)
  <2>1. ~Claim(w) /\ user' = user
    BY <1>2 DEF Claim, Read, Asleep
  <2>2. CASE job.status # "running"
    BY <1>2, <2>1, <2>2, Slept DEF Read, PrismTypeOK
  <2>3. CASE job.status = "running"
    <3>. DEFINE cur == Needed(job.stage)
                x == [worker[w] EXCEPT !.pc = "stage", !.stage = job.stage, !.cur = cur]
    <3>1. worker' = [worker EXCEPT ![w] = x]
      BY <1>2, <2>3 DEF Read
    <3>2. x.pc = "stage" /\ x.claimed = worker[w].claimed /\ x.stage = job.stage
      BY DEF PrismTypeOK, WorkersTyped, WorkerType
    <3>. HIDE DEF x
    <3>. QED
      BY <2>1, <2>3, <3>1, <3>2 DEF PrismTypeOK, WorkersTyped
  <2>. QED
    BY <2>2, <2>3
<1>. QED
  BY <1>1, <1>2

\* A worker acts alone.
LEMMA WorkerActs ==
    ASSUME PrismTypeOK, NEW w \in Workers, WorkerStep(w) \/ Throw(w) \/ Crash(w)
    PROVE  Alone(w) /\ user' = user
<1>1. user' = user /\ \A v \in Workers \ {w} : worker'[v] = worker[v]
  BY WorkKeeps, EndsAsleep, Claimed DEF WorkerStep, AtWork, Ends
<1>2. CASE job' = job
  BY <1>1, <1>2 DEF Alone, Row
<1>3. CASE \E stage, status : JobIs(w, stage, status)
  BY <1>1, <1>3, Overtakes DEF Alone
<1>. QED
  BY <1>2, <1>3 DEF WorkerStep, Read, Pass, Enumerate, Open, Append, Mark, Count,
     PurgeUpload, Propose, Stage, Report, Write, Balance, Crash, Claim, Finish, Advance,
     Park, Refuse, Throw, Resolve

\* So does a request.
LEMMA UserActs ==
    ASSUME PrismTypeOK, NEW u \in Users,
           \/ Request(u) \/ Abandon(u)
           \/ \E op \in Clicks \cup {"confirm", "approve"} : Click(u, op)
    PROVE  Alone(u) /\ worker' = worker
<1>1. worker' = worker
  BY DEF Request, GetJob, SaveMapping, Materialize, Recheck, SaveApproval, Resume, ReadStage,
     RunStage, Gauge, Route, Control, Abandon, Click
<1>2. \A v \in Users \ {u} : user'[v] = user[v]
  <2>1. \E x : user' = [user EXCEPT ![u] = x]
    BY DEF Request, GetJob, SaveMapping, Materialize, Recheck, SaveApproval, Resume,
       ReadStage, RunStage, Gauge, Route, Control, Abandon, Click, Done, Step
  <2>. QED
    BY <2>1 DEF PrismTypeOK, UsersTyped
<1>3. CASE job' = job
  BY <1>1, <1>2, <1>3 DEF Alone, Row
<1>4. CASE \E stage, status : JobIs(u, stage, status)
  BY <1>1, <1>2, <1>4, Overtakes DEF Alone
<1>5. CASE Fresh(u) \/ NewSurvey(u)
  <2>1. Row' = Row /\ job.late \ {u} \subseteq job'.late
    BY <1>5 DEF Fresh, NewSurvey, Row, PrismTypeOK, JobTyped
  <2>. QED
    BY <1>1, <1>2, <2>1 DEF Alone
<1>. QED
  BY <1>3, <1>4, <1>5 DEF Request, GetJob, SaveMapping, Materialize, Recheck, SaveApproval,
     Resume, ReadStage, RunStage, Gauge, Route, Control, Abandon, Click, Resolve
-----------------------------------------------------------------------------
(* Who is not late holds the row as it is; who is late, and what it does,  *)
(* is what the properties except.                                          *)

\* A worker that is awake runs the stage the row is at.
Attends(w) ==
    worker[w] # Asleep =>
        /\ job.status = "running" /\ worker[w].claimed = job.stage
        /\ worker[w].pc # "read" => worker[w].stage = job.stage

\* A request about to write takes the row to the next stage, or leaves it.
Carries(u) ==
    /\ user[u].pc = "write" => user[u].to.stage \in {0, job.stage, job.stage + 1}
    /\ user[u].pc = "gauge" => job.stage = Extract

TurnInv ==
    /\ \A w \in Workers \ job.late : Attends(w)
    /\ \A u \in Users \ job.late : Carries(u)

\* What one actor does leaves the turns of the others as they are.
LEMMA OthersKeepTurn ==
    ASSUME PrismTypeOK, TurnInv, NEW a \in Workers \cup Users, Alone(a)
    PROVE  /\ \A w \in (Workers \ job'.late) \ {a} : Attends(w)'
           /\ \A u \in (Users \ job'.late) \ {a} : Carries(u)'
<1>1. CASE Row' = Row /\ job.late \ {a} \subseteq job'.late
  <2>1. job'.stage = job.stage /\ job'.status = job.status
    BY <1>1 DEF Row
  <2>. QED
    BY <1>1, <2>1 DEF Alone, TurnInv, Attends, Carries
<1>2. CASE (job.late \cup Holders) \ {a} \subseteq job'.late
  <2>1. ASSUME NEW w \in (Workers \ job'.late) \ {a} PROVE Attends(w)'
    BY <1>2, <2>1 DEF Alone, Holders, Attends
  <2>2. ASSUME NEW u \in (Users \ job'.late) \ {a} PROVE Carries(u)'
    BY <1>2, <2>2 DEF Alone, Holders, Carries
  <2>. QED
    BY <2>1, <2>2
<1>. QED
  BY <1>1, <1>2 DEF Alone

\* A worker that is in turn stays so, or sleeps.
LEMMA WorkerKeepsTurn ==
    ASSUME PrismTypeOK, TurnInv, NEW w \in Workers, w \notin job'.late,
           WorkerStep(w) \/ Throw(w) \/ Crash(w)
    PROVE  Attends(w)'
<1>1. CASE Claim(w)
  <2>1. job'.stage = job.stage /\ job'.status = "running"
    BY <1>1 DEF Claim, JobIs
  <2>. QED
    BY <1>1, <2>1, Claimed DEF Attends
<1>2. CASE Read(w)
  <2>1. job' = job /\ worker[w] # Asleep
    BY <1>2 DEF Read, Asleep
  <2>. QED
    BY <1>2, <2>1, Claimed DEF Attends, TurnInv
<1>3. CASE AtWork(w)
  <2>1. worker[w] # Asleep
    BY <1>3, WorkKeeps DEF Asleep
  <2>. QED
    BY <1>3, <2>1, WorkKeeps DEF Attends, TurnInv
<1>4. CASE Ends(w) \/ Crash(w)
  BY <1>4, EndsAsleep DEF Attends
<1>. QED
  BY <1>1, <1>2, <1>3, <1>4 DEF WorkerStep, AtWork, Ends

\* So does a request.
LEMMA UserKeepsTurn ==
    ASSUME PrismTypeOK, TurnInv, NEW u \in Users, u \notin job'.late,
           \/ Request(u) \/ Abandon(u)
           \/ \E op \in Clicks \cup {"confirm", "approve"} : Click(u, op)
    PROVE  Carries(u)'
<1>1. CASE ReadStage(u)
  <2>1. user'[u].pc = "write" /\ user'[u].to = After(job.stage) /\ job' = job
    BY <1>1 DEF ReadStage, PrismTypeOK, UsersTyped, UserType
  <2>. QED
    BY <2>1 DEF After, Carries
<1>2. CASE RunStage(u)
  <2>1. CASE Done(u)
    BY <2>1, Ended DEF PrismTypeOK, NoRequest, Carries
  <2>2. CASE Step(u, "gauge") /\ user[u].to.stage = Extract
    <3>1. job'.stage = Extract
      BY <1>2, <2>2 DEF RunStage, Resolve, JobIs, Extract
    <3>2. user'[u].pc = "gauge"
      BY <2>2 DEF Step, PrismTypeOK, UsersTyped, UserType
    <3>. QED
      BY <3>1, <3>2 DEF Carries
  <2>. QED
    BY <1>2, <2>1, <2>2 DEF RunStage
<1>3. CASE ~(ReadStage(u) \/ RunStage(u))
  <2>1. user'[u].pc \notin {"write", "gauge"}
    <3>1. CASE Done(u)
      BY <3>1, Ended DEF PrismTypeOK, NoRequest
    <3>2. CASE \E pc \in {"survey", "recheck", "resume", "advance", "control"} : Step(u, pc)
      BY <3>2 DEF Step, PrismTypeOK, UsersTyped, UserType
    <3>3. CASE GetJob(u)
      BY <3>3 DEF GetJob, PrismTypeOK, UsersTyped, UserType
    <3>4. ASSUME NEW op \in Clicks \cup {"confirm", "approve"}, Click(u, op)
          PROVE  user'[u].pc \notin {"write", "gauge"}
      BY <3>4, Requested DEF PrismTypeOK
    <3>5. CASE Route(u)
      <4>1. Step(u, "resume") \/ Step(u, "control")
        BY <3>5 DEF Route
      <4>. QED
        BY <3>2, <4>1
    <3>6. CASE \/ SaveMapping(u) \/ Materialize(u) \/ Recheck(u) \/ SaveApproval(u)
               \/ Resume(u) \/ Gauge(u) \/ Control(u) \/ Abandon(u)
      <4>1. \/ Done(u) \/ Step(u, "survey") \/ Step(u, "recheck") \/ Step(u, "resume")
            \/ Step(u, "advance")
        BY <3>6 DEF SaveMapping, Materialize, Recheck, SaveApproval, Resume, Gauge, Control,
           Abandon
      <4>. QED
        BY <3>1, <3>2, <4>1
    <3>. QED
      BY <1>3, <3>3, <3>4, <3>5, <3>6 DEF Request
  <2>. QED
    BY <2>1 DEF Carries
<1>. QED
  BY <1>1, <1>2, <1>3

LEMMA TurnKept == PrismTypeOK /\ TurnInv /\ [Next]_vars => TurnInv'
<1>. SUFFICES ASSUME PrismTypeOK, TurnInv, [Next]_vars PROVE TurnInv'
  OBVIOUS
<1>1. ASSUME NEW w \in Workers, WorkerStep(w) \/ Throw(w) \/ Crash(w) PROVE TurnInv'
  <2>1. \A v \in Workers \ job'.late : Attends(v)'
    BY <1>1, WorkerActs, OthersKeepTurn, WorkerKeepsTurn
  <2>2. \A u \in Users \ job'.late : Carries(u)'
    BY <1>1, WorkerActs, OthersKeepTurn
  <2>. QED
    BY <2>1, <2>2 DEF TurnInv
<1>2. ASSUME NEW u \in Users,
             \/ Request(u) \/ Abandon(u)
             \/ \E op \in Clicks \cup {"confirm", "approve"} : Click(u, op)
      PROVE  TurnInv'
  <2>1. \A w \in Workers \ job'.late : Attends(w)'
    BY <1>2, UserActs, OthersKeepTurn
  <2>2. \A v \in Users \ job'.late : Carries(v)'
    BY <1>2, UserActs, OthersKeepTurn, UserKeepsTurn
  <2>. QED
    BY <2>1, <2>2 DEF TurnInv
<1>3. CASE UNCHANGED vars
  BY <1>3 DEF vars, TurnInv, Attends, Carries
<1>. QED
  BY <1>1, <1>2, <1>3 DEF Next

\* Except by the write of an actor that read the row before another moved it, the job
\* walks its spine one stage at a time and never backwards, and people alone set it going
\* again: for any number of workers and analysts, whatever fails or is clicked.
THEOREM SpineIsOneWay == Spec => StageGoesForward
<1>. DEFINE Walks == /\ job'.stage \in {job.stage, job.stage + 1}
                     /\ job.status \notin Runnable /\ Row' # Row => user' # user
<1>1. ASSUME PrismTypeOK, TurnInv, Next PROVE LateStep \/ Walks
  <2>1. CASE job' = job
    BY <2>1 DEF Row
  <2>2. ASSUME NEW w \in Workers, Claim(w) PROVE Walks
    BY <2>2 DEF Claim, JobIs
  <2>3. ASSUME NEW w \in Workers, Ends(w) PROVE LateStep \/ Walks
    <3>1. CASE w \in job.late
      BY <2>3, <3>1, <1>1, EndsAsleep DEF LateStep
    <3>2. CASE w \notin job.late
      <4>1. /\ job.status = "running"
            /\ worker[w].claimed = job.stage /\ worker[w].stage = job.stage
        BY <1>1, <2>3, <3>2, EndsAsleep DEF TurnInv, Attends
      <4>2. job'.stage \in {job.stage, job.stage + 1}
        BY <2>3, <4>1 DEF Ends, Finish, Connected, At, Resolve, After, Advance, Park, Refuse,
           Throw, JobIs
      <4>. QED
        BY <4>1, <4>2 DEF Runnable
    <3>. QED
      BY <3>1, <3>2
  <2>4. ASSUME NEW u \in Users, RunStage(u) \/ Gauge(u) PROVE LateStep \/ Walks
    <3>1. user'[u] # user[u]
      BY <1>1, <2>4, Ended DEF RunStage, Gauge, Step, PrismTypeOK, UsersTyped, UserType,
         NoRequest
    <3>2. CASE u \in job.late
      BY <3>1, <3>2 DEF LateStep
    <3>3. CASE u \notin job.late
      <4>1. job'.stage \in {job.stage, job.stage + 1}
        BY <1>1, <2>4, <3>3 DEF TurnInv, Carries, RunStage, Gauge, Resolve, JobIs
      <4>. QED
        BY <3>1, <4>1
    <3>. QED
      BY <3>2, <3>3
  <2>5. ASSUME NEW u \in Users, Route(u) \/ Control(u) PROVE Walks
    <3>1. user'[u] # user[u]
      BY <1>1, <2>5, Ended DEF Route, Control, Step, PrismTypeOK, UsersTyped, UserType,
         NoRequest
    <3>. QED
      BY <2>5, <3>1 DEF Route, Control, JobIs
  <2>6. ASSUME NEW u \in Users, GetJob(u) \/ Resume(u) \/ Materialize(u) PROVE Walks
    BY <1>1, <2>6 DEF GetJob, Resume, Materialize, Fresh, NewSurvey, Row, PrismTypeOK, JobTyped
  <2>. QED
    BY <1>1, <2>1, <2>2, <2>3, <2>4, <2>5, <2>6 DEF Next, WorkerStep, Ends, Request, Read,
       Pass, Enumerate, Open, Append, Mark, Count, PurgeUpload, Propose, Stage, Report, Write,
       Balance, Crash, SaveMapping, Recheck, SaveApproval, ReadStage, Abandon, Click
<1>2. PrismTypeOK /\ TurnInv /\ [Next]_vars => [LateStep \/ Walks]_vars
  BY <1>1
<1>3. Init => TurnInv
  BY DEF Init, TurnInv, Attends, Carries, NoRequest, Creating
<1>. QED
  BY <1>2, <1>3, TurnKept, PrismTyped, PTL DEF Spec, StageGoesForward
-----------------------------------------------------------------------------
(* The furthest stage: nobody holds one beyond it, and no worker goes on   *)
(* from a stage that asks.                                                 *)

FurthestInv ==
    /\ job.stage <= job.furthest
    /\ \A w \in Workers : worker[w].claimed <= job.furthest /\ worker[w].stage <= job.furthest

LEMMA FurthestKept == PrismTypeOK /\ FurthestInv /\ [Next]_vars => FurthestInv'
<1>. SUFFICES ASSUME PrismTypeOK, FurthestInv, [Next]_vars PROVE FurthestInv'
  OBVIOUS
<1>1. job'.furthest >= job.furthest /\ job'.furthest >= job'.stage
  <2>1. job.stage \in Int /\ job.furthest \in Int
    BY DEF PrismTypeOK, JobTyped, StageNo, Connect, Publish
  <2>2. JobTyped'
    BY JobKept
  <2>3. ASSUME NEW a, NEW stage, NEW status, JobIs(a, stage, status)
        PROVE  job'.furthest >= job.furthest /\ job'.furthest >= job'.stage
    BY <2>1, <2>2, <2>3 DEF JobIs, JobTyped, StageNo, Connect, Publish
  <2>4. CASE job'.stage = job.stage /\ job'.furthest = job.furthest
    BY <2>1, <2>4 DEF FurthestInv
  <2>5. ASSUME NEW a, Fresh(a) \/ NewSurvey(a)
        PROVE  job'.stage = job.stage /\ job'.furthest = job.furthest
    BY <2>5 DEF Fresh, NewSurvey, PrismTypeOK, JobTyped
  <2>. QED
    BY <2>3, <2>4, <2>5 DEF Next, WorkerStep, Request, vars, Resolve, Claim, Read, Pass,
       Enumerate, Open, Append, Mark, Count, PurgeUpload, Propose, Stage, Report, Write,
       Balance, Finish, Advance, Park, Refuse, Throw, Crash, GetJob, SaveMapping,
       Materialize, Recheck, SaveApproval, Resume, ReadStage, RunStage, Gauge, Route,
       Control, Abandon, Click
<1>2. ASSUME NEW w \in Workers
      PROVE  worker'[w].claimed <= job.furthest /\ worker'[w].stage <= job.furthest
  <2>1. CASE worker'[w] = worker[w]
    BY <2>1 DEF FurthestInv
  <2>2. CASE worker'[w] = Asleep
    BY <2>2 DEF Asleep, PrismTypeOK, JobTyped, StageNo, Connect, Publish
  <2>3. CASE Claim(w) \/ Read(w)
    BY <2>2, <2>3, Claimed DEF FurthestInv, PrismTypeOK, JobTyped, StageNo, Connect, Publish
  <2>4. CASE AtWork(w)
    BY <2>4, WorkKeeps DEF FurthestInv
  <2>5. CASE Ends(w) \/ Crash(w)
    BY <2>2, <2>5, EndsAsleep
  <2>6. ASSUME NEW v \in Workers \ {w}, WorkerStep(v) \/ Throw(v) \/ Crash(v)
        PROVE  worker'[w] = worker[w]
    BY <2>6, WorkerActs DEF Alone
  <2>7. ASSUME NEW u \in Users,
               \/ Request(u) \/ Abandon(u)
               \/ \E op \in Clicks \cup {"confirm", "approve"} : Click(u, op)
        PROVE  worker'[w] = worker[w]
    BY <2>7, UserActs
  <2>. QED
    BY <2>1, <2>3, <2>4, <2>5, <2>6, <2>7 DEF Next, vars, WorkerStep, AtWork, Ends
<1>3. job.furthest \in Int /\ job'.furthest \in Int
  BY JobKept DEF PrismTypeOK, JobTyped, StageNo, Connect, Publish
<1>4. \A w \in Workers : worker'[w].claimed \in Int /\ worker'[w].stage \in Int
  BY WorkersKept DEF WorkersTyped, WorkerType, StageNo, Connect, Publish
<1>. QED
  BY <1>1, <1>2, <1>3, <1>4 DEF FurthestInv

\* The job first comes past MAP, and first past DRY_RUN, by a request of an analyst: no
\* worker, late or not, takes it there, whatever fails or is clicked.
THEOREM PeopleOpenTheGates == Spec => GatesNeedPeople
<1>. DEFINE Asked == \A gate \in Interactive :
                        job.furthest <= gate /\ job'.stage > gate => user' # user
<1>1. ASSUME PrismTypeOK, FurthestInv, Next PROVE Asked
  <2>1. job.stage \in Int /\ job.furthest \in Int
    BY <1>1 DEF PrismTypeOK, JobTyped, StageNo, Connect, Publish
  <2>2. ASSUME NEW w \in Workers, Claim(w) \/ Ends(w) PROVE Asked
    <3>1. worker[w].stage \in Int /\ worker[w].claimed \in Int
      BY <1>1 DEF PrismTypeOK, WorkersTyped, WorkerType, StageNo, Connect, Publish
    <3>2. CASE Advance(w)
      <4>1. job'.stage = worker[w].stage + 1 /\ worker[w].stage \notin {Map, DryRun}
        BY <1>1, <3>2 DEF Advance, JobIs, PrismTypeOK, WorkersTyped, WorkerFits
      <4>. QED
        BY <1>1, <2>1, <3>1, <4>1 DEF FurthestInv, Interactive, Map, DryRun
    <3>3. CASE Finish(w)
      <4>1. job.furthest >= Publish
        BY <1>1, <3>1, <3>3, <2>1 DEF Finish, Connected, At, FurthestInv, Publish
      <4>. QED
        BY <2>1, <4>1 DEF Interactive, Map, DryRun, Publish
    <3>4. CASE Claim(w) \/ Park(w) \/ Refuse(w) \/ Throw(w)
      <4>0. Connect <= job.furthest
        BY <1>1 DEF PrismTypeOK, JobTyped, StageNo, Connect, Publish
      <4>1. job'.stage <= job.furthest
        BY <1>1, <2>1, <3>1, <3>4, <4>0 DEF Claim, Park, Refuse, Throw, JobIs, FurthestInv
      <4>2. job'.stage \in Int
        BY <2>1, <3>1, <3>4 DEF Claim, Park, Refuse, Throw, JobIs
      <4>. QED
        BY <2>1, <4>1, <4>2 DEF Interactive, Map, DryRun
    <3>. QED
      BY <2>2, <3>2, <3>3, <3>4 DEF Ends
  <2>3. CASE job'.stage = job.stage
    BY <1>1, <2>1, <2>3 DEF FurthestInv, Interactive, Map, DryRun
  <2>4. ASSUME NEW u \in Users, RunStage(u) \/ Gauge(u) PROVE Asked
    BY <1>1, <2>4, Ended DEF RunStage, Gauge, Step, PrismTypeOK, UsersTyped, UserType,
       NoRequest
  <2>5. ASSUME NEW u \in Users, Route(u) \/ Control(u) PROVE job'.stage = job.stage
    BY <2>5 DEF Route, Control, JobIs
  <2>6. ASSUME NEW u \in Users, GetJob(u) \/ Resume(u) \/ Materialize(u)
        PROVE  job'.stage = job.stage
    BY <1>1, <2>6 DEF GetJob, Resume, Materialize, Fresh, NewSurvey, PrismTypeOK, JobTyped
  <2>. QED
    BY <1>1, <2>2, <2>3, <2>4, <2>5, <2>6 DEF Next, WorkerStep, Ends, Request, Read, Pass,
       Enumerate, Open, Append, Mark, Count, PurgeUpload, Propose, Stage, Report, Write,
       Balance, Crash, SaveMapping, Recheck, SaveApproval, ReadStage, Abandon, Click
<1>2. PrismTypeOK /\ FurthestInv /\ [Next]_vars => [Asked]_vars
  BY <1>1
<1>3. Init => FurthestInv
  BY DEF Init, FurthestInv, Asleep, Connect
<1>. QED
  BY <1>2, <1>3, FurthestKept, PrismTyped, PTL DEF Spec, GatesNeedPeople
-----------------------------------------------------------------------------
(* The survey: who read the row after the survey's id was on it has it.    *)

Knows(u) ==
    user[u].pc \in {"save", "survey"} /\ cursor.survey => user[u].survey

SurveyInv ==
    /\ store.surveys > 0 => cursor.survey
    /\ \A u \in Users \ job.late : Knows(u)

\* Nothing but a confirmation touches what the row and the tables say of a survey.
LEMMA SurveysAlone ==
    ASSUME PrismTypeOK, [Next]_vars, \A u \in Users : ~Materialize(u)
    PROVE  store'.surveys = store.surveys /\ cursor'.survey = cursor.survey
<1>1. store'.surveys = store.surveys
  BY DEF PrismTypeOK, TablesTyped, StoreType, Next, WorkerStep, Request, vars, Claim, Read,
     Pass, Enumerate, Open, Append, Mark, Count, PurgeUpload, Propose, Stage, Report, Write,
     Balance, Finish, Advance, Park, Refuse, Throw, Crash, GetJob, SaveMapping, Recheck,
     SaveApproval, Resume, ReadStage, RunStage, Gauge, Route, Control, Abandon, Click
<1>2. cursor'.survey = cursor.survey
  BY DEF PrismTypeOK, TablesTyped, CursorType, Next, WorkerStep, Request, vars, Claim, Read,
     Pass, Enumerate, Open, Append, Mark, Count, PurgeUpload, Propose, Stage, Report, Write,
     Balance, Finish, Advance, Park, Refuse, Throw, Crash, GetJob, SaveMapping, Recheck,
     SaveApproval, Resume, ReadStage, RunStage, Gauge, Route, Control, Abandon, Click
<1>. QED
  BY <1>1, <1>2

LEMMA SurveyKept == PrismTypeOK /\ SurveyInv /\ [Next]_vars => SurveyInv'
<1>. SUFFICES ASSUME PrismTypeOK, SurveyInv, [Next]_vars PROVE SurveyInv'
  OBVIOUS
<1>1. ASSUME NEW u \in Users, Materialize(u) PROVE SurveyInv'
  <2>1. CASE store.conn /\ ~user[u].survey
    <3>1. /\ cursor'.survey = TRUE
          /\ job'.late = (job.late \cup {v \in Users : user[v].pc \in {"save", "survey"}})
                         \ {u}
      BY <1>1, <2>1 DEF Materialize, NewSurvey, PrismTypeOK, JobTyped, TablesTyped, CursorType
    <3>2. user'[u].pc = "recheck" /\ \A v \in Users \ {u} : user'[v] = user[v]
      BY <1>1 DEF Materialize, Step, PrismTypeOK, UsersTyped, UserType
    <3>. QED
      BY <3>1, <3>2 DEF SurveyInv, Knows
  <2>2. CASE ~(store.conn /\ ~user[u].survey)
    <3>1. UNCHANGED <<job, store, cursor>>
      BY <1>1, <2>2 DEF Materialize
    <3>2. user'[u].pc = "recheck" /\ \A v \in Users \ {u} : user'[v] = user[v]
      BY <1>1 DEF Materialize, Step, PrismTypeOK, UsersTyped, UserType
    <3>. QED
      BY <3>1, <3>2 DEF SurveyInv, Knows
  <2>. QED
    BY <2>1, <2>2
<1>2. ASSUME \A u \in Users : ~Materialize(u),
             NEW a \in Workers \cup Users, Alone(a),
             a \in Users \ job'.late => Knows(a)'
      PROVE  SurveyInv'
  <2>1. store'.surveys = store.surveys /\ cursor'.survey = cursor.survey
    BY <1>2, SurveysAlone
  <2>2. job.late \ {a} \subseteq job'.late
    BY <1>2 DEF Alone
  <2>3. ASSUME NEW u \in Users \ job'.late, u # a PROVE Knows(u)'
    BY <1>2, <2>1, <2>2, <2>3 DEF Alone, SurveyInv, Knows
  <2>. QED
    BY <1>2, <2>1, <2>3 DEF SurveyInv
<1>3. ASSUME NEW w \in Workers, WorkerStep(w) \/ Throw(w) \/ Crash(w),
             \A u \in Users : ~Materialize(u)
      PROVE  SurveyInv'
  BY <1>2, <1>3, WorkerActs
<1>4. ASSUME NEW u \in Users,
             \/ Request(u) \/ Abandon(u)
             \/ \E op \in Clicks \cup {"confirm", "approve"} : Click(u, op),
             \A v \in Users : ~Materialize(v)
      PROVE  SurveyInv'
  <2>1. CASE GetJob(u)
    <3>1. user'[u].survey = cursor.survey /\ cursor' = cursor
      BY <2>1 DEF GetJob, PrismTypeOK, UsersTyped, UserType
    <3>. QED
      BY <1>2, <1>4, <3>1, UserActs DEF Knows
  <2>2. CASE SaveMapping(u)
    <3>1. /\ user[u].pc = "save" /\ user'[u].survey = user[u].survey
          /\ UNCHANGED <<job, cursor>>
      BY <2>2 DEF SaveMapping, Step, PrismTypeOK, UsersTyped, UserType
    <3>. QED
      BY <1>2, <1>4, <3>1, UserActs DEF Knows, SurveyInv
  <2>3. CASE ~(GetJob(u) \/ SaveMapping(u))
    <3>1. user'[u].pc \notin {"save", "survey"}
      <4>1. CASE Done(u)
        BY <4>1, Ended DEF PrismTypeOK, NoRequest
      <4>2. CASE \E pc \in {"resume", "advance", "gauge", "control"} : Step(u, pc)
        BY <4>2 DEF Step, PrismTypeOK, UsersTyped, UserType
      <4>3. CASE ReadStage(u)
        BY <4>3 DEF ReadStage, PrismTypeOK, UsersTyped, UserType
      <4>4. ASSUME NEW op \in Clicks \cup {"confirm", "approve"}, Click(u, op)
            PROVE  user'[u].pc \notin {"save", "survey"}
        BY <4>4, Requested DEF PrismTypeOK
      <4>5. CASE \/ Recheck(u) \/ SaveApproval(u) \/ Resume(u) \/ RunStage(u) \/ Gauge(u)
                 \/ Route(u) \/ Control(u) \/ Abandon(u)
        <5>1. \/ Done(u) \/ Step(u, "resume") \/ Step(u, "advance") \/ Step(u, "gauge")
              \/ Step(u, "control")
          BY <4>5 DEF Recheck, SaveApproval, Resume, RunStage, Gauge, Route, Control, Abandon
        <5>. QED
          BY <4>1, <4>2, <5>1
      <4>. QED
        BY <1>4, <2>3, <4>3, <4>4, <4>5 DEF Request
    <3>. QED
      BY <1>2, <1>4, <3>1, UserActs DEF Knows
  <2>. QED
    BY <2>1, <2>2, <2>3
<1>5. CASE UNCHANGED vars
  BY <1>5 DEF vars, SurveyInv, Knows
<1>. QED
  BY <1>1, <1>3, <1>4, <1>5 DEF Next

\* A second survey is made only by a confirmation that read the job before the first
\* survey's id was on it: no resume, retry after a crash or later confirmation makes one.
THEOREM LateSurveysOnly == Spec => OneSurvey
<1>1. ASSUME PrismTypeOK, SurveyInv, Next
      PROVE  store'.surveys > store.surveys => store.surveys = 0 \/ LateStep
  <2>1. store.surveys \in Nat
    BY <1>1 DEF PrismTypeOK, TablesTyped, StoreType
  <2>2. CASE \A u \in Users : ~Materialize(u)
    BY <1>1, <2>1, <2>2, SurveysAlone
  <2>3. ASSUME NEW u \in Users, Materialize(u), store'.surveys > store.surveys,
               store.surveys # 0
        PROVE  LateStep
    <3>1. store.conn /\ ~user[u].survey
      BY <2>1, <2>3 DEF Materialize
    <3>2. user[u].pc = "survey" /\ cursor.survey
      BY <1>1, <2>1, <2>3 DEF Materialize, SurveyInv
    <3>3. u \in job.late
      BY <1>1, <3>1, <3>2 DEF SurveyInv, Knows
    <3>4. user'[u].pc = "recheck"
      BY <1>1, <2>3 DEF Materialize, Step, PrismTypeOK, UsersTyped, UserType
    <3>. QED
      BY <3>2, <3>3, <3>4 DEF LateStep
  <2>. QED
    BY <2>2, <2>3
<1>2. PrismTypeOK /\ SurveyInv /\ [Next]_vars
        => [store'.surveys > store.surveys => store.surveys = 0 \/ LateStep]_vars
  BY <1>1
<1>3. Init => SurveyInv
  BY DEF Init, SurveyInv, Knows, NoRequest, Creating
<1>. QED
  BY <1>2, <1>3, SurveyKept, PrismTyped, PTL DEF Spec, OneSurvey
-----------------------------------------------------------------------------
(* The records: what counts as extracted, on the row or with a worker, is  *)
(* in the raw log, and only then is its upload deleted.                    *)

Extracted(w) ==
    /\ worker[w].cur.done \subseteq store.raw
    /\ worker[w].pc \in {"mark", "count", "purge"} => worker[w].file \in store.raw

RecordsInv == RecordsAreKept /\ \A w \in Workers : Extracted(w)

\* The raw log only grows.
LEMMA RawGrows == ASSUME PrismTypeOK, [Next]_vars PROVE store.raw \subseteq store'.raw
<1>1. ASSUME NEW w \in Workers, WorkerStep(w) \/ Throw(w) \/ Crash(w)
      PROVE  store.raw \subseteq store'.raw
  <2>1. CASE Append(w)
    BY <2>1 DEF Append, PrismTypeOK, TablesTyped, StoreType
  <2>2. CASE PurgeUpload(w) \/ Propose(w) \/ Write(w) \/ Balance(w)
    <3>1. store'.raw = store.raw
      BY <2>2 DEF PurgeUpload, Propose, Write, Balance, PrismTypeOK, TablesTyped, StoreType
    <3>. QED
      BY <3>1
  <2>3. CASE store' = store
    BY <2>3
  <2>. QED
    BY <1>1, <2>1, <2>2, <2>3 DEF WorkerStep, Claim, Read, Pass, Enumerate, Open, Mark, Count,
       Stage, Report, Finish, Advance, Park, Refuse, Throw, Crash
<1>2. ASSUME NEW u \in Users,
             \/ Request(u) \/ Abandon(u)
             \/ \E op \in Clicks \cup {"confirm", "approve"} : Click(u, op)
      PROVE  store'.raw = store.raw
  BY <1>2 DEF PrismTypeOK, TablesTyped, StoreType, Request, GetJob, SaveMapping, Materialize,
     NewSurvey, Recheck, SaveApproval, Resume, ReadStage, RunStage, Gauge, Route, Control,
     Abandon, Click
<1>. QED
  BY <1>1, <1>2 DEF Next, vars

LEMMA RecordsKept == PrismTypeOK /\ RecordsInv /\ [Next]_vars => RecordsInv'
<1>. SUFFICES ASSUME PrismTypeOK, RecordsInv, [Next]_vars PROVE RecordsInv'
  OBVIOUS
<1>1. Resources \subseteq store'.files \cup store'.raw
  <2>1. ASSUME NEW w \in Workers, PurgeUpload(w) PROVE store.files \ store'.files \subseteq store.raw
    BY <2>1 DEF PurgeUpload, RecordsInv, Extracted, PrismTypeOK, TablesTyped, StoreType
  <2>2. CASE \A w \in Workers : ~PurgeUpload(w)
    <3>1. store'.files = store.files
      BY <2>2 DEF PrismTypeOK, TablesTyped, StoreType, Next, WorkerStep, Request, vars, Claim,
         Read, Pass, Enumerate, Open, Append, Mark, Count, Propose, Stage, Report, Write,
         Balance, Finish, Advance, Park, Refuse, Throw, Crash, GetJob, SaveMapping,
         Materialize, NewSurvey, Recheck, SaveApproval, Resume, ReadStage, RunStage, Gauge,
         Route, Control, Abandon, Click
    <3>. QED
      BY <3>1, RawGrows DEF RecordsInv, RecordsAreKept
  <2>. QED
    BY <2>1, <2>2, RawGrows DEF RecordsInv, RecordsAreKept
<1>2. cursor'.done \subseteq store'.raw
  <2>1. ASSUME NEW w \in Workers, Mark(w) PROVE cursor'.done \subseteq store.raw
    BY <2>1 DEF Mark, RecordsInv, Extracted, PrismTypeOK, TablesTyped, CursorType
  <2>2. CASE \A w \in Workers : ~Mark(w)
    <3>1. cursor'.done = cursor.done
      BY <2>2 DEF PrismTypeOK, TablesTyped, CursorType, Next, WorkerStep, Request, vars,
         Claim, Read, Pass, Enumerate, Open, Append, Count, PurgeUpload, Propose, Stage,
         Report, Write, Balance, Finish, Advance, Park, Refuse, Throw, Crash, GetJob,
         SaveMapping, Materialize, NewSurvey, Recheck, SaveApproval, Resume, ReadStage,
         RunStage, Gauge, Route, Control, Abandon, Click
    <3>. QED
      BY <3>1, RawGrows DEF RecordsInv, RecordsAreKept
  <2>. QED
    BY <2>1, <2>2, RawGrows
<1>3. ASSUME NEW w \in Workers PROVE Extracted(w)'
  <2>1. CASE worker'[w] = worker[w]
    BY <2>1, RawGrows DEF RecordsInv, Extracted
  <2>2. CASE worker'[w] = Asleep
    BY <2>2 DEF Extracted, Asleep, Empty
  <2>3. CASE Claim(w)
    <3>. DEFINE x == [worker[w] EXCEPT !.pc = "read", !.claimed = job.stage]
    <3>1. worker' = [worker EXCEPT ![w] = x] /\ x.pc = "read" /\ x.cur = Empty
      BY <2>3 DEF Claim, Asleep
    <3>. HIDE DEF x
    <3>. QED
      BY <3>1 DEF PrismTypeOK, WorkersTyped, Extracted, Empty
  <2>4. CASE Read(w)
    <3>1. CASE job.status # "running"
      BY <2>2, <2>4, <3>1, Slept DEF Read, PrismTypeOK
    <3>2. CASE job.status = "running"
      <4>. DEFINE cur == Needed(job.stage)
                  x == [worker[w] EXCEPT !.pc = "stage", !.stage = job.stage, !.cur = cur]
      <4>1. cur.done \in {{}, cursor.done}
        BY DEF Needed, Empty
      <4>2. worker' = [worker EXCEPT ![w] = x] /\ store' = store
        BY <2>4, <3>2 DEF Read
      <4>. HIDE DEF cur
      <4>3. x.pc = "stage" /\ x.cur = cur
        BY DEF PrismTypeOK, WorkersTyped, WorkerType
      <4>. HIDE DEF x
      <4>. QED
        BY <4>1, <4>2, <4>3 DEF PrismTypeOK, WorkersTyped, Extracted, RecordsInv, RecordsAreKept
    <3>. QED
      BY <3>1, <3>2
  <2>5. ASSUME NEW pc \in {"extract", "purge", "advance", "park"}, GoOn(w, pc),
               pc = "purge" => worker[w].pc = "count"
        PROVE  Extracted(w)'
    <3>1. /\ worker'[w].pc = pc /\ worker'[w].cur = worker[w].cur
          /\ worker'[w].file = worker[w].file
      BY <2>5 DEF GoOn, PrismTypeOK, WorkersTyped, WorkerType
    <3>. QED
      BY <2>5, <3>1, RawGrows DEF RecordsInv, Extracted
  <2>6. CASE Append(w)
    <3>. DEFINE r == First(Todo(w))
                x == [worker[w] EXCEPT !.pc = "mark", !.file = r,
                                       !.new = IF r \in store.raw THEN 0 ELSE 1]
    <3>1. worker' = [worker EXCEPT ![w] = x] /\ r \in store'.raw
      BY <2>6 DEF Append, PrismTypeOK, TablesTyped, StoreType
    <3>2. x.pc = "mark" /\ x.file = r /\ x.cur = worker[w].cur
      BY DEF PrismTypeOK, WorkersTyped, WorkerType
    <3>. HIDE DEF x, r
    <3>. QED
      BY <3>1, <3>2, RawGrows DEF PrismTypeOK, WorkersTyped, RecordsInv, Extracted
  <2>7. CASE Mark(w)
    <3>. DEFINE done == worker[w].cur.done \cup {worker[w].file}
                x == [worker[w] EXCEPT !.pc = "count", !.cur.done = done]
    <3>1. worker' = [worker EXCEPT ![w] = x] /\ worker[w].pc = "mark"
      BY <2>7 DEF Mark
    <3>2. x.pc = "count" /\ x.file = worker[w].file /\ x.cur.done = done
      BY DEF PrismTypeOK, WorkersTyped, WorkerType, CursorType
    <3>3. done \subseteq store.raw
      BY <3>1 DEF RecordsInv, Extracted
    <3>. HIDE DEF x, done
    <3>4. worker'[w] = x
      BY <3>1 DEF PrismTypeOK, WorkersTyped
    <3>. QED
      BY <3>1, <3>2, <3>3, <3>4, RawGrows DEF RecordsInv, Extracted
  <2>8. CASE AtWork(w) /\ ~Append(w) /\ ~Mark(w)
    <3>1. \/ \E pc \in {"extract", "advance", "park"} : GoOn(w, pc)
          \/ worker[w].pc = "count" /\ GoOn(w, "purge")
      BY <2>8 DEF AtWork, Pass, Enumerate, Open, Count, PurgeUpload, Propose, Stage, Report,
         Write, Balance
    <3>. QED
      BY <2>5, <3>1
  <2>9. CASE Ends(w) \/ Crash(w)
    BY <2>2, <2>9, EndsAsleep
  <2>10. ASSUME NEW v \in Workers \ {w}, WorkerStep(v) \/ Throw(v) \/ Crash(v)
         PROVE  worker'[w] = worker[w]
    BY <2>10, WorkerActs DEF Alone
  <2>11. ASSUME NEW u \in Users,
                \/ Request(u) \/ Abandon(u)
                \/ \E op \in Clicks \cup {"confirm", "approve"} : Click(u, op)
         PROVE  worker'[w] = worker[w]
    BY <2>11, UserActs
  <2>. QED
    BY <2>1, <2>3, <2>4, <2>6, <2>7, <2>8, <2>9, <2>10, <2>11
       DEF Next, vars, WorkerStep, AtWork, Ends
<1>. QED
  BY <1>1, <1>2, <1>3 DEF RecordsInv, RecordsAreKept

\* However many workers run the job, whatever crashes or does not parse, an upload is
\* deleted only when its records are in the raw log, and only such a file is done.
THEOREM NoRecordIsLost == Spec => []RecordsAreKept
<1>1. Init => RecordsInv
  BY DEF Init, RecordsInv, RecordsAreKept, Extracted, Asleep, Empty
<1>2. RecordsInv => RecordsAreKept
  BY DEF RecordsInv
<1>. QED
  BY <1>1, <1>2, RecordsKept, PrismTyped, PTL DEF Spec
=============================================================================

------------------------- MODULE WorkflowQueue_proofs -------------------------
(***************************************************************************)
(* Runs and the trigger queue for every set of workflows, events,          *)
(* consumers, handlers, timers and sweepers and all bounds.  First the     *)
(* runs by themselves: their types, and, of every execution on which each  *)
(* decision settled an approval, one runner, rejections that stop it, and  *)
(* ends that last, however many people decide at once.  Then the queue:    *)
(* its types, no silent loss of an evaluation, the rerun of a swept        *)
(* failure, the consumer group it implements, and, late decisions apart,   *)
(* one run per trigger and one completion per event.                       *)
(***************************************************************************)
EXTENDS WorkflowQueue, TLAPS

USE WorkflowAssumption

ForApproval(row) == row.status = "waiting" /\ row.wait = "approval"
ForDelay(row) == row.status = "waiting" /\ row.wait = "delay"
Reaped(row) == row.status = "failed" /\ row.reaped

\* A process works on its row, unless it has only read it to decide on it.
Working(state) == state.pc \in {"running", "ended", "stamping", "gate"}
Decides(state) == state.pc = "deciding" => state.res \in {"approved", "rejected"}

\* What a process knows of the row it works on, as long as no decision came late
\* (the reaper of WorkflowQueue may fail the row under it).
Holds(state, row) ==
    /\ state.pc \in {"running", "stamping"} =>
         /\ row.status = "executing" \/ ForApproval(row) \/ Reaped(row)
         /\ row.approval \notin {"pending", "rejected"}
    /\ state.pc = "ended" =>
         ForApproval(row) /\ row.approval # "pending" /\ state.res = "skipped"
    /\ state.pc = "gate" =>
         ForApproval(row) /\ row.approval \notin {"pending", "rejected"}

RunnersHold ==
    \A p \in Runners :
        Working(runner[p]) /\ ~rows[Row(p)].late => Holds(runner[p], rows[Row(p)])

\* No two processes work on one row without a late decision.
RowsApart ==
    \A p, q \in Runners :
        Working(runner[p]) /\ Working(runner[q]) /\ Row(p) = Row(q) /\ ~rows[Row(p)].late
            => p = q

\* A pending approval belongs to a row that waits for it; a rejected row does
\* not wait for a timer.
ApprovalMatches(row) ==
    ~row.late => /\ row.approval = "pending" => ForApproval(row)
                 /\ row.approval = "rejected" => ~ForDelay(row)

ApprovalsMatch == \A r \in DOMAIN rows : ApprovalMatches(rows[r])
DecidersDecide == \A p \in Runners : Decides(runner[p])

RunsInv == RunsTypeOK /\ DecidersDecide /\ RunnersHold /\ RowsApart /\ ApprovalsMatch
-----------------------------------------------------------------------------
(* Rows and processes, one at a time.                                      *)

Statuses == {"executing", "waiting", "completed", "skipped", "failed", "suppressed"}

\* A row stays a row when one of its fields changes within its type.
LEMMA StatusUpdate ==
    ASSUME NEW row \in RowType, NEW s \in Statuses
    PROVE  LET x == [row EXCEPT !.status = s]
           IN /\ x \in RowType /\ x.status = s /\ x.late = row.late
              /\ x.approval = row.approval /\ x.wait = row.wait
BY DEF RowType, Statuses

\* The same for the approval.
LEMMA ApprovalUpdate ==
    ASSUME NEW row \in RowType, NEW a \in {"none", "pending", "approved", "rejected"}
    PROVE  LET x == [row EXCEPT !.approval = a]
           IN /\ x \in RowType /\ x.approval = a /\ x.late = row.late
              /\ x.status = row.status /\ x.wait = row.wait
BY DEF RowType

\* A decision settles the approval or marks the row.
LEMMA SettledRow ==
    ASSUME NEW row \in RowType, NEW d \in {"approved", "rejected"}
    PROVE  LET x == Settle(row, d)
           IN /\ x \in RowType /\ x.status = row.status /\ x.wait = row.wait
              /\ ~x.late => row.approval = "pending" /\ ~row.late /\ x.approval = d
<1>1. CASE row.approval = "pending"
  <2>1. Settle(row, d) = [row EXCEPT !.approval = d]
    BY <1>1 DEF Settle
  <2>. QED
    BY <1>1, <2>1 DEF RowType
<1>2. CASE row.approval # "pending"
  <2>1. Settle(row, d) = [row EXCEPT !.late = TRUE]
    BY <1>2 DEF Settle
  <2>. QED
    BY <2>1 DEF RowType
<1>. QED
  BY <1>1, <1>2

\* What INSERT leaves is a row.
LEMMA NewRowType ==
    ASSUME NEW w \in Workflows, NEW e \in Events, NEW k \in Keys
    PROVE  /\ NewRow(w, e, k) \in RowType
           /\ [NewRow(w, e, k) EXCEPT !.status = "suppressed"] \in RowType
<1>1. NewRow(w, e, k) \in RowType
  BY DEF NewRow, RowType, Pauses
<1>. QED
  BY <1>1, StatusUpdate DEF Statuses

\* A failed row is a row, with the verdict and nothing else changed.
LEMMA StampedRow ==
    ASSUME NEW row \in RowType, NEW n \in 0..MaxAttempts
    PROVE  LET x == FailedRow(row, n)
           IN /\ x \in RowType /\ x.late = row.late
              /\ x.status = "failed" /\ x.approval = row.approval /\ x.wait = row.wait
<1>1. /\ Stamped(row, n) \in RowType /\ Stamped(row, n).late = row.late
      /\ Stamped(row, n).status = "failed" /\ Stamped(row, n).approval = row.approval
      /\ Stamped(row, n).wait = row.wait
  BY DEF Stamped, RowType
<1>2. NoKey \in Keys
  BY DEF Keys
<1>. QED
  BY <1>1, <1>2 DEF FailedRow, RowType
-----------------------------------------------------------------------------
(* The invariant of rows and processes.                                    *)

\* Nobody but p works on row r, and what p leaves there fits its next state.
Alone(p, r) == \A q \in Runners \ {p} : Working(runner[q]) => Row(q) # r
Lands(p, r, x, state) ==
    ~x.late => Alone(p, r) /\ ApprovalMatches(x) /\ (Working(state) => Holds(state, x))

\* The one way every step goes: p leaves x in row r and goes to a state that fits.
LEMMA Handover ==
    ASSUME RunsInv, NEW p \in Runners, NEW r, NEW x \in RowType, NEW state \in RunnerType,
           Lands(p, r, x, state), Decides(state),
           rows' \in Seq(RowType), r \in DOMAIN rows', rows'[r] = x,
           DOMAIN rows \subseteq DOMAIN rows',
           \A s \in DOMAIN rows' \ {r} : s \in DOMAIN rows /\ rows'[s] = rows[s],
           runner' \in [Runners -> RunnerType], runner'[p] = state,
           \A q \in Runners \ {p} : runner'[q] = runner[q],
           state # Idle => state.row = r,
           faults' \in 0..MaxFaults
    PROVE  RunsInv'
<1>. USE DEF RunsInv, RunsTypeOK, Row, IsIdle
<1>1. RunsTypeOK'
  OBVIOUS
<1>2. ~Working(Idle) /\ \A q \in Runners : Working(runner[q]) => runner[q].row \in DOMAIN rows
  BY DEF Working, Idle, At
<1>3. ASSUME NEW q \in Runners, Working(runner'[q]), ~rows'[runner'[q].row].late
      PROVE  /\ Holds(runner'[q], rows'[runner'[q].row])
             /\ q # p => runner'[q].row # r \/ x.late
  <2>1. CASE q = p
    BY <1>2, <1>3, <2>1 DEF Lands
  <2>2. CASE q # p
    BY <1>2, <1>3, <2>2 DEF RunnersHold, Lands, Alone
  <2>. QED
    BY <2>1, <2>2
<1>4. RunnersHold'
  BY <1>3 DEF RunnersHold
<1>5. RowsApart'
  <2>. SUFFICES ASSUME NEW q \in Runners, NEW s \in Runners,
                       Working(runner'[q]), Working(runner'[s]), runner'[q].row = runner'[s].row,
                       ~rows'[runner'[q].row].late
                PROVE  q = s
    BY DEF RowsApart
  <2>1. CASE q # p /\ s # p
    BY <1>2, <1>3, <2>1 DEF RowsApart
  <2>2. CASE q = p \/ s = p
    BY <1>2, <1>3, <2>2
  <2>. QED
    BY <2>1, <2>2
<1>6. ApprovalsMatch'
  <2>1. ApprovalMatches(x)
    BY DEF Lands, ApprovalMatches
  <2>. QED
    BY <2>1 DEF ApprovalsMatch
<1>7. DecidersDecide'
  BY DEF DecidersDecide
<1>. QED
  BY <1>1, <1>4, <1>5, <1>6, <1>7

\* An UPDATE hands its row on to nobody or to the process that made it.
LEMMA UpdateHands ==
    ASSUME RunsInv, NEW p \in Runners, NEW r \in DOMAIN rows, NEW x \in RowType,
           NEW state \in RunnerType, Lands(p, r, x, state), Decides(state),
           rows' = [rows EXCEPT ![r] = x], Goto(p, state),
           state # Idle => state.row = r, faults' \in 0..MaxFaults
    PROVE  RunsInv'
<1>1. /\ rows' \in Seq(RowType) /\ DOMAIN rows' = DOMAIN rows /\ rows'[r] = x
      /\ \A s \in DOMAIN rows \ {r} : rows'[s] = rows[s]
  BY DEF RunsInv, RunsTypeOK
<1>2. /\ runner' \in [Runners -> RunnerType] /\ runner'[p] = state
      /\ \A q \in Runners \ {p} : runner'[q] = runner[q]
  BY DEF RunsInv, RunsTypeOK, Goto
<1>. QED
  BY <1>1, <1>2, Handover

\* An INSERT hands its new row to nobody or to the process that made it.
LEMMA InsertHands ==
    ASSUME RunsInv, NEW p \in Runners, IsIdle(p), NEW x \in RowType, NEW state \in RunnerType,
           rows' = Append(rows, x), Goto(p, state), Decides(state), ApprovalMatches(x),
           Working(state) => Holds(state, x),
           state # Idle => state.row = Len(rows) + 1, faults' \in 0..MaxFaults
    PROVE  RunsInv'
<1>. DEFINE r == Len(rows) + 1
<1>1. /\ rows' \in Seq(RowType) /\ r \in DOMAIN rows' /\ rows'[r] = x
      /\ DOMAIN rows \subseteq DOMAIN rows' /\ r \notin DOMAIN rows
      /\ \A s \in DOMAIN rows' \ {r} : s \in DOMAIN rows /\ rows'[s] = rows[s]
  BY DEF RunsInv, RunsTypeOK
<1>2. /\ runner' \in [Runners -> RunnerType] /\ runner'[p] = state
      /\ \A q \in Runners \ {p} : runner'[q] = runner[q]
  BY DEF RunsInv, RunsTypeOK, Goto
<1>3. Lands(p, r, x, state)
  BY <1>1 DEF RunsInv, RunsTypeOK, Lands, Alone, Working, IsIdle, Idle, At
<1>. QED
  BY <1>1, <1>2, <1>3, Handover

\* A step without a statement hands the row on as it is.
LEMMA MoveHands ==
    ASSUME RunsInv, NEW p \in Runners, NEW r \in DOMAIN rows, NEW state \in RunnerType,
           Lands(p, r, rows[r], state), Decides(state), rows' = rows, Goto(p, state),
           state # Idle => state.row = r, faults' \in 0..MaxFaults
    PROVE  RunsInv'
<1>1. rows[r] \in RowType
  BY DEF RunsInv, RunsTypeOK
<1>2. /\ runner' \in [Runners -> RunnerType] /\ runner'[p] = state
      /\ \A q \in Runners \ {p} : runner'[q] = runner[q]
  BY DEF RunsInv, RunsTypeOK, Goto
<1>. QED
  BY <1>1, <1>2, Handover DEF RunsInv, RunsTypeOK

\* A process that stops working, or has not begun, takes nothing from anybody.
LEMMA MoveAside ==
    ASSUME RunsInv, NEW p \in Runners, NEW state \in RunnerType, ~Working(state), Decides(state),
           rows' = rows, Goto(p, state), state # Idle => state.row \in DOMAIN rows,
           faults' \in 0..MaxFaults
    PROVE  RunsInv'
<1>1. /\ runner' \in [Runners -> RunnerType] /\ runner'[p] = state
      /\ \A q \in Runners \ {p} : runner'[q] = runner[q]
  BY DEF RunsInv, RunsTypeOK, Goto
<1>. QED
  BY <1>1 DEF RunsInv, RunsTypeOK, DecidersDecide, RunnersHold, RowsApart, ApprovalsMatch,
     Row, IsIdle

\* The states a process may go to.
LEMMA States ==
    /\ Idle \in RunnerType /\ ~Working(Idle) /\ Decides(Idle)
    /\ \A r \in Nat : \A res \in {"none", "approved", "rejected", "skipped"} :
       \A pc \in {"running", "ended", "stamping", "gate", "deciding"} :
         /\ At(pc, r, res) \in RunnerType
         /\ At(pc, r, res).pc = pc /\ At(pc, r, res).row = r /\ At(pc, r, res).res = res
         /\ pc # "deciding" => Decides(At(pc, r, res))
<1>1. 0 \in 0..MaxAttempts
  OBVIOUS
<1>. QED
  BY <1>1 DEF At, Idle, RunnerType, Working, Decides

\* A process that is not idle has a row; if it works on it and no decision came
\* late, it is alone with it and knows it.
LEMMA OwnRow ==
    ASSUME RunsInv, NEW p \in Runners, ~IsIdle(p)
    PROVE  /\ Row(p) \in DOMAIN rows /\ Row(p) \in Nat /\ rows[Row(p)] \in RowType
           /\ runner[p] \in RunnerType /\ Decides(runner[p])
           /\ Working(runner[p]) /\ ~rows[Row(p)].late
                => Holds(runner[p], rows[Row(p)]) /\ Alone(p, Row(p))
<1>1. /\ Row(p) \in DOMAIN rows /\ Row(p) \in Nat /\ rows[Row(p)] \in RowType
      /\ runner[p] \in RunnerType /\ Decides(runner[p])
  BY DEF RunsInv, RunsTypeOK, DecidersDecide
<1>. QED
  BY <1>1 DEF RunsInv, RunnersHold, RowsApart, Alone

\* A process whose state has a name is not idle.
LEMMA Busy ==
    ASSUME NEW p \in Runners, runner[p].pc # "idle"
    PROVE  ~IsIdle(p)
BY DEF IsIdle, Idle, At
-----------------------------------------------------------------------------
(* The steps of one process.                                               *)

\* A run ends, fails or pauses as its state allows.
LEMMA EndsOf ==
    ASSUME RunsInv, NEW p \in Runners,
           NEW res \in {"completed", "skipped", "failed"} \union Pauses,
           Ends(p, res)
    PROVE  /\ ~IsIdle(p) /\ Working(runner[p]) /\ runner[p].pc \in {"running", "ended"}
           /\ res # "skipped" => runner[p].pc = "running"
           /\ ~rows[Row(p)].late =>
                /\ rows[Row(p)].approval # "pending"
                /\ res # "skipped" => rows[Row(p)].approval # "rejected"
           /\ res = "failed" => rows[Row(p)].attempt < MaxAttempts
<1>1. ~IsIdle(p) /\ Working(runner[p]) /\ runner[p].pc \in {"running", "ended"}
  BY Busy DEF Ends, Working
<1>2. runner[p] \in RunnerType
  BY <1>1, OwnRow
<1>3. res # "skipped" => runner[p].pc = "running"
  <2>1. res \in {"completed", "skipped", "failed", "approval", "delay"}
    BY DEF Pauses
  <2>. QED
    BY <1>2, <2>1 DEF Ends, RunnerType
<1>4. res = "failed" => rows[Row(p)].attempt < MaxAttempts
  BY <1>3 DEF Ends
<1>. QED
  BY <1>1, <1>3, <1>4, OwnRow DEF Holds

\* The UPDATE of a finished run leaves its row to nobody.
LEMMA FinalizeStep ==
    ASSUME RunsInv, NEW p \in Runners, Finalize(p)
    PROVE  RunsInv'
<1>1. PICK res \in {"completed", "skipped"} : Ends(p, res) /\ EndRow(Row(p), res)
  BY DEF Finalize
<1>. DEFINE row == rows[Row(p)]
            x == [row EXCEPT !.status = res]
<1>2. ~IsIdle(p) /\ Working(runner[p]) /\ (~row.late => row.approval # "pending")
  BY <1>1, EndsOf
<1>3. row \in RowType /\ Row(p) \in DOMAIN rows /\ (~row.late => Alone(p, Row(p)))
  BY <1>2, OwnRow
<1>4. x \in RowType /\ x.status = res /\ x.approval = row.approval /\ x.late = row.late
  <2>1. res \in Statuses
    BY DEF Statuses
  <2>. HIDE DEF row
  <2>. QED
    BY <1>3, <2>1, StatusUpdate, Zenon
<1>5. rows' = [rows EXCEPT ![Row(p)] = x]
  BY <1>1 DEF EndRow
<1>. HIDE DEF x
<1>6. Lands(p, Row(p), x, Idle)
  BY <1>2, <1>3, <1>4, States DEF Lands, ApprovalMatches, ForDelay
<1>7. Goto(p, Idle) /\ faults' \in 0..MaxFaults
  BY DEF Finalize, RunsInv, RunsTypeOK
<1>. QED
  BY <1>3, <1>4, <1>5, <1>6, <1>7, States, UpdateHands

\* Reading attempt_count leaves a process that still knows its row.
LEMMA ReadAttemptStep ==
    ASSUME RunsInv, NEW p \in Runners, ReadAttempt(p)
    PROVE  RunsInv'
<1>. DEFINE row == rows[Row(p)]
            state == [pc |-> "stamping", row |-> Row(p), res |-> "none",
                      attempt |-> row.attempt + 1]
<1>1. /\ ~IsIdle(p) /\ Working(runner[p])
      /\ runner[p].pc = "running" /\ row.attempt < MaxAttempts
  BY EndsOf DEF ReadAttempt
<1>2. /\ Row(p) \in Nat /\ Row(p) \in DOMAIN rows /\ row \in RowType
      /\ ~row.late => Holds(runner[p], row) /\ Alone(p, Row(p))
  BY <1>1, OwnRow
<1>. HIDE DEF row
<1>3. state \in RunnerType /\ state.row = Row(p) /\ state.pc = "stamping"
  BY <1>1, <1>2 DEF RunnerType, RowType
<1>4. rows' = rows /\ Goto(p, state) /\ faults' \in 0..MaxFaults
  BY DEF ReadAttempt, RunsInv, RunsTypeOK, row
<1>. HIDE DEF state
<1>5. Lands(p, Row(p), row, state) /\ Decides(state)
  BY <1>1, <1>2, <1>3 DEF Lands, Holds, RunsInv, ApprovalsMatch, row, Decides
<1>. QED
  BY <1>1, <1>2, <1>3, <1>4, <1>5, MoveHands DEF row

\* The UPDATE of a failed run leaves its row to nobody.
LEMMA StampStep ==
    ASSUME RunsInv, NEW p \in Runners, StampFailure(p)
    PROVE  RunsInv'
<1>. DEFINE n == runner[p].attempt
            row == rows[Row(p)]
            x == FailedRow(row, n)
<1>1. ~IsIdle(p) /\ Working(runner[p]) /\ runner[p].pc = "stamping"
  BY Busy DEF StampFailure, Working
<1>2. /\ row \in RowType /\ n \in 0..MaxAttempts /\ Row(p) \in DOMAIN rows
      /\ ~row.late => Alone(p, Row(p)) /\ row.approval \notin {"pending", "rejected"}
  BY <1>1, OwnRow DEF Holds, RunnerType
<1>3. x \in RowType /\ x.approval = row.approval /\ x.late = row.late
  BY <1>2, StampedRow
<1>5. rows' = [rows EXCEPT ![Row(p)] = x]
  BY DEF StampFailure
<1>6. Goto(p, Idle) /\ faults' \in 0..MaxFaults
  BY DEF StampFailure, RunsInv, RunsTypeOK
<1>. HIDE DEF x
<1>7. Lands(p, Row(p), x, Idle)
  BY <1>2, <1>3, States DEF Lands, ApprovalMatches
<1>. QED
  BY <1>2, <1>3, <1>5, <1>6, <1>7, States, UpdateHands

\* A pause leaves the row to a timer, or to the INSERT of its approval.
LEMMA PauseStep ==
    ASSUME RunsInv, NEW p \in Runners, PersistPause(p)
    PROVE  RunsInv'
<1>1. PICK res \in Pauses :
        /\ Ends(p, res)
        /\ rows' = [rows EXCEPT ![Row(p)] = [@ EXCEPT !.status = "waiting", !.wait = res]]
        /\ Goto(p, IF res = "approval" THEN At("gate", Row(p), "none") ELSE Idle)
  BY DEF PersistPause
<1>. DEFINE row == rows[Row(p)]
            x == [row EXCEPT !.status = "waiting", !.wait = res]
            state == IF res = "approval" THEN At("gate", Row(p), "none") ELSE Idle
<1>2. /\ ~IsIdle(p) /\ Working(runner[p])
      /\ ~row.late => row.approval \notin {"pending", "rejected"}
  BY <1>1, EndsOf DEF Pauses
<1>3. /\ row \in RowType /\ Row(p) \in Nat /\ Row(p) \in DOMAIN rows
      /\ ~row.late => Alone(p, Row(p))
  BY <1>2, OwnRow
<1>4. /\ x \in RowType /\ x.approval = row.approval /\ x.status = "waiting" /\ x.wait = res
      /\ x.late = row.late
  <2>1. res \in Pauses
    OBVIOUS
  <2>. HIDE DEF row
  <2>. QED
    BY <1>3, <2>1 DEF RowType, Pauses
<1>5. rows' = [rows EXCEPT ![Row(p)] = x]
  BY <1>1
<1>. HIDE DEF x
<1>6. state \in RunnerType /\ (state # Idle => state.row = Row(p)) /\ Decides(state)
  BY <1>3, States
<1>7. Lands(p, Row(p), x, state)
  <2>1. ~x.late => ApprovalMatches(x)
    BY <1>2, <1>4 DEF ApprovalMatches
  <2>2. Working(state) /\ ~x.late => Holds(state, x)
    BY <1>2, <1>3, <1>4, States DEF Holds, ForApproval
  <2>. QED
    BY <1>3, <1>4, <2>1, <2>2 DEF Lands
<1>8. Goto(p, state) /\ faults' \in 0..MaxFaults
  BY <1>1 DEF PersistPause, RunsInv, RunsTypeOK
<1>. HIDE DEF state
<1>. QED
  BY <1>3, <1>4, <1>5, <1>6, <1>7, <1>8, UpdateHands

\* The INSERT of an approval leaves a waiting row to a person.
LEMMA ApprovalStep ==
    ASSUME RunsInv, NEW p \in Runners, InsertApproval(p)
    PROVE  RunsInv'
<1>. DEFINE row == rows[Row(p)]
            x == [row EXCEPT !.approval = "pending"]
<1>1. ~IsIdle(p) /\ Working(runner[p]) /\ runner[p].pc = "gate"
  BY Busy DEF InsertApproval, Working
<1>2. /\ row \in RowType /\ Row(p) \in DOMAIN rows
      /\ ~row.late => Alone(p, Row(p)) /\ ForApproval(row)
  BY <1>1, OwnRow DEF Holds
<1>3. /\ x \in RowType /\ x.approval = "pending" /\ x.late = row.late
      /\ x.status = row.status /\ x.wait = row.wait
  <2>. HIDE DEF row
  <2>. QED
    BY <1>2, ApprovalUpdate
<1>4. rows' = [rows EXCEPT ![Row(p)] = x] /\ Goto(p, Idle) /\ faults' \in 0..MaxFaults
  BY DEF InsertApproval, RunsInv, RunsTypeOK
<1>. HIDE DEF x, row
<1>5. Lands(p, Row(p), x, Idle)
  BY <1>2, <1>3, States DEF Lands, ApprovalMatches, ForApproval
<1>. QED
  BY <1>2, <1>3, <1>4, <1>5, States, UpdateHands DEF row

\* A process that dies leaves the row as it was.
LEMMA AbandonStep ==
    ASSUME RunsInv, NEW p \in Runners, Abandon(p)
    PROVE  RunsInv'
<1>1. rows' = rows /\ Goto(p, Idle) /\ faults' \in 0..MaxFaults
  BY DEF Abandon, Fault, RunsInv, RunsTypeOK
<1>. QED
  BY <1>1, States, MoveAside
-----------------------------------------------------------------------------
(* The steps that begin or resume a run.                                   *)

\* A run begins with an INSERT, whose row nobody else works on.
LEMMA LaunchStep ==
    ASSUME RunsInv, NEW p \in Runners, IsIdle(p),
           NEW w \in Workflows, NEW e \in Events, NEW k \in Keys,
           Launch(p, w, e, k), faults' = faults
    PROVE  RunsInv'
<1>. DEFINE new == NewRow(w, e, k)
            kept == [NewRow(w, e, NoKey) EXCEPT !.status = "suppressed"]
            state == At("running", Len(rows) + 1, "none")
<1>1. Len(rows) + 1 \in Nat /\ faults' \in 0..MaxFaults /\ runner[p] = Idle
  BY DEF RunsInv, RunsTypeOK, IsIdle
<1>2. /\ state \in RunnerType /\ state.row = Len(rows) + 1
      /\ state.pc = "running" /\ Decides(state)
  BY <1>1, States
<1>3. /\ new \in RowType /\ new.approval = "none" /\ new.status = "executing"
      /\ kept \in RowType /\ kept.approval = "none"
  BY NewRowType DEF NewRow, Keys
<1>4. \/ rows' = Append(rows, new) /\ Goto(p, state)
      \/ rows' = Append(rows, kept) /\ runner' = runner
      \/ rows' = rows /\ runner' = runner
  <2>1. CASE Insert(p, w, e, k)
    BY <2>1 DEF Insert
  <2>2. CASE Suppress(w, e)
    BY <2>2, Zenon DEF Suppress
  <2>. QED
    BY <2>1, <2>2 DEF Launch
<1>. HIDE DEF new, kept, state
<1>5. CASE rows' = Append(rows, new) /\ Goto(p, state)
  <2>1. Holds(state, new) /\ ApprovalMatches(new)
    BY <1>2, <1>3 DEF Holds, ApprovalMatches
  <2>. QED
    BY <1>1, <1>2, <1>3, <1>5, <2>1, InsertHands
<1>6. CASE rows' = Append(rows, kept) /\ runner' = runner
  <2>1. Goto(p, Idle)
    BY <1>1, <1>6 DEF Goto, RunsInv, RunsTypeOK
  <2>. QED
    BY <1>1, <1>3, <1>6, <2>1, States, InsertHands DEF ApprovalMatches
<1>7. CASE rows' = rows /\ runner' = runner
  BY <1>7 DEF RunsInv, RunsTypeOK, DecidersDecide, RunnersHold, RowsApart, ApprovalsMatch,
     Row, IsIdle
<1>. QED
  BY <1>4, <1>5, <1>6, <1>7

\* A run by hand begins with an INSERT.
LEMMA ByHandStep ==
    ASSUME RunsInv, NEW h \in Handlers, RunByHand(h)
    PROVE  RunsInv'
<1>1. h \in Runners /\ NoKey \in Keys
  BY DEF Runners, Keys
<1>. QED
  BY <1>1, LaunchStep DEF RunByHand

\* A person who reads an execution to decide on it changes nothing yet.
LEMMA ClickStep ==
    ASSUME RunsInv, NEW h \in Handlers, Click(h)
    PROVE  RunsInv'
<1>1. PICK r \in DOMAIN rows, d \in {"approved", "rejected"} : Goto(h, At("deciding", r, d))
  BY DEF Click
<1>. DEFINE state == At("deciding", r, d)
<1>2. h \in Runners /\ rows' = rows /\ faults' \in 0..MaxFaults /\ r \in Nat
  BY DEF Click, Runners, RunsInv, RunsTypeOK
<1>3. state \in RunnerType /\ state.row = r /\ state.pc = "deciding" /\ state.res = d
  BY <1>2, States
<1>4. Goto(h, state)
  BY <1>1
<1>. HIDE DEF state
<1>. QED
  BY <1>2, <1>3, <1>4, MoveAside DEF Working, Decides

\* A decision that settles a pending approval finds nobody at work on the row,
\* and runs or ends the execution; one that settles nothing marks the row.
LEMMA DecideStep ==
    ASSUME RunsInv, NEW h \in Handlers, Decide(h)
    PROVE  RunsInv'
<1>. DEFINE d == runner[h].res
            row == rows[Row(h)]
            x == Settle(row, d)
            state == IF d = "approved" THEN At("running", Row(h), "none")
                     ELSE At("ended", Row(h), "skipped")
<1>1. h \in Runners /\ ~IsIdle(h) /\ runner[h].pc = "deciding"
  BY Busy DEF Decide, Runners
<1>2. /\ row \in RowType /\ Row(h) \in Nat /\ Row(h) \in DOMAIN rows
      /\ d \in {"approved", "rejected"}
  BY <1>1, OwnRow DEF Decides
<1>3. /\ x \in RowType /\ x.status = row.status /\ x.wait = row.wait
      /\ ~x.late => row.approval = "pending" /\ ~row.late /\ x.approval = d
  <2>. HIDE DEF row, d
  <2>. QED
    BY <1>2, SettledRow
<1>4. rows' = [rows EXCEPT ![Row(h)] = x] /\ Goto(h, state) /\ faults' \in 0..MaxFaults
  BY DEF Decide, RunsInv, RunsTypeOK
<1>5. state \in RunnerType /\ state.row = Row(h) /\ Decides(state)
  BY <1>2, States
<1>6. ~row.late /\ row.approval = "pending" => ForApproval(row) /\ Alone(h, Row(h))
  <2>1. ~row.late /\ row.approval = "pending" => ForApproval(row)
    BY <1>2 DEF RunsInv, ApprovalsMatch, ApprovalMatches
  <2>2. ASSUME ~row.late, row.approval = "pending",
               NEW q \in Runners, Working(runner[q]), Row(q) = Row(h)
        PROVE  FALSE
    <3>1. ~IsIdle(q)
      BY <2>2, Busy DEF Working
    <3>2. Holds(runner[q], row) /\ runner[q] \in RunnerType
      BY <2>2, <3>1, OwnRow
    <3>. HIDE DEF row
    <3>. QED
      BY <2>2, <3>2 DEF Holds, Working
  <2>. QED
    BY <2>1, <2>2 DEF Alone
<1>7. Lands(h, Row(h), x, state)
  <2>. SUFFICES ASSUME ~x.late
                PROVE  Alone(h, Row(h)) /\ ApprovalMatches(x) /\ Holds(state, x)
    BY DEF Lands
  <2>1. ForApproval(x) /\ x.approval = d /\ Alone(h, Row(h))
    <3>. HIDE DEF x, row
    <3>. QED
      BY <1>3, <1>6 DEF ForApproval
  <2>. HIDE DEF x
  <2>2. ApprovalMatches(x)
    BY <1>2, <2>1 DEF ForApproval, ForDelay, ApprovalMatches
  <2>3. Holds(state, x)
    BY <1>2, <2>1, States DEF Holds
  <2>. QED
    BY <2>1, <2>2, <2>3
<1>. HIDE DEF state, x
<1>. QED
  BY <1>1, <1>2, <1>3, <1>4, <1>5, <1>7, UpdateHands

\* A row that waits for a timer has no process, so the one that claims it is
\* alone with it.
LEMMA ClaimStep ==
    ASSUME RunsInv, NEW t \in Timers, NEW r \in DOMAIN rows, ClaimDelayed(t, r)
    PROVE  RunsInv'
<1>. DEFINE row == rows[r]
            x == [row EXCEPT !.status = "executing"]
            state == At("running", r, "none")
<1>1. /\ t \in Runners /\ row \in RowType /\ r \in Nat
      /\ ForDelay(row) /\ ApprovalMatches(row) /\ faults' \in 0..MaxFaults
  BY DEF ClaimDelayed, Runners, RunsInv, RunsTypeOK, ForDelay, ApprovalsMatch
<1>2. ASSUME ~row.late, NEW q \in Runners, Working(runner[q]), Row(q) = r
      PROVE  FALSE
  <2>1. ~IsIdle(q)
    BY <1>2, Busy DEF Working
  <2>2. Holds(runner[q], row) /\ runner[q] \in RunnerType
    BY <1>2, <2>1, OwnRow
  <2>. HIDE DEF row
  <2>. QED
    BY <1>1, <1>2, <2>2 DEF Holds, Working, ForApproval, ForDelay, Reaped
<1>3. rows' = [rows EXCEPT ![r] = x] /\ Goto(t, state)
  BY DEF ClaimDelayed, EndRow
<1>4. /\ x \in RowType /\ x.status = "executing" /\ x.approval = row.approval
      /\ x.late = row.late
  <2>. HIDE DEF row
  <2>. QED
    BY <1>1, StatusUpdate DEF Statuses
<1>5. state \in RunnerType /\ state.row = r /\ state.pc = "running" /\ Decides(state)
  BY <1>1, States
<1>6. Alone(t, r) \/ row.late
  BY <1>2 DEF Alone
<1>. HIDE DEF x, state, row
<1>7. Lands(t, r, x, state)
  BY <1>1, <1>4, <1>5, <1>6 DEF Lands, Holds, ApprovalMatches, ForApproval, ForDelay
<1>. QED
  BY <1>1, <1>3, <1>4, <1>5, <1>7, UpdateHands
-----------------------------------------------------------------------------
(* What holds whoever decides: the types, with what they rest on.          *)

\* Nobody touches the record of a suppression.
SuppressedRests ==
    \A r \in DOMAIN rows : rows[r].status = "suppressed" =>
        rows[r].approval = "none" /\ \A p \in Runners : ~IsIdle(p) => Row(p) # r

TableOK == RunsTypeOK /\ DecidersDecide /\ SuppressedRests

\* What a rewritten row keeps: a key may go but not come, and a row that gets a
\* retry has no key any more or was reaped.
SameRun(row, new) ==
    /\ new.wf = row.wf /\ new.ev = row.ev
    /\ row.reaped => new.reaped
    /\ row.late => new.late

Kept(row, new) ==
    /\ SameRun(row, new) /\ new.key \in {row.key, NoKey}
    /\ new.retry => row.retry \/ new.key = NoKey \/ new.reaped
    /\ new.status = "suppressed" <=> row.status = "suppressed"

TableKept ==
    /\ rows' \in Seq(RowType) /\ DOMAIN rows' = DOMAIN rows
    /\ \A r \in DOMAIN rows : Kept(rows[r], rows'[r])

\* A row that stays.
LEMMA KeptSame == \A row : Kept(row, row)
BY Zenon DEF Kept, SameRun

\* A row a process works on is not the record of a suppression.
LEMMA WorkedOn ==
    ASSUME TableOK, NEW p \in Runners, ~IsIdle(p)
    PROVE  /\ Row(p) \in DOMAIN rows /\ Row(p) \in Nat /\ rows[Row(p)] \in RowType
           /\ rows[Row(p)].status # "suppressed"
           /\ runner[p] \in RunnerType /\ Decides(runner[p])
BY DEF TableOK, DecidersDecide, RunsTypeOK, SuppressedRests

\* Processes move on, rows are rewritten.
LEMMA TableStep ==
    ASSUME TableOK, rows' \in Seq(RowType), DOMAIN rows' = DOMAIN rows,
           \A r \in DOMAIN rows : /\ Kept(rows[r], rows'[r])
                                  /\ rows[r].status = "suppressed"
                                       => rows'[r].approval = rows[r].approval,
           runner' \in [Runners -> RunnerType],
           \A p \in Runners :
             \/ runner'[p] = runner[p]
             \/ /\ Decides(runner'[p])
                /\ runner'[p] # Idle => /\ runner'[p].row \in DOMAIN rows
                                        /\ rows[runner'[p].row].status # "suppressed",
           faults' \in 0..MaxFaults
    PROVE  TableOK' /\ TableKept
<1>1. RunsTypeOK'
  BY DEF TableOK, RunsTypeOK, IsIdle, Row
<1>2. DecidersDecide'
  BY DEF TableOK, DecidersDecide
<1>3. SuppressedRests'
  BY DEF TableOK, SuppressedRests, IsIdle, Row, Kept
<1>. QED
  BY <1>1, <1>2, <1>3 DEF TableOK, TableKept

\* One process moves on and one row is rewritten.
LEMMA UpdateTyped ==
    ASSUME TableOK, NEW p \in Runners, NEW r \in DOMAIN rows, NEW x \in RowType,
           Kept(rows[r], x), rows[r].status = "suppressed" => x.approval = rows[r].approval,
           rows' = [rows EXCEPT ![r] = x], NEW state \in RunnerType, Goto(p, state),
           state # Idle => /\ state.row \in DOMAIN rows /\ Decides(state)
                           /\ rows[state.row].status # "suppressed",
           faults' \in 0..MaxFaults
    PROVE  TableOK' /\ TableKept
<1>1. /\ rows' \in Seq(RowType) /\ DOMAIN rows' = DOMAIN rows /\ rows'[r] = x
      /\ \A q \in DOMAIN rows \ {r} : rows'[q] = rows[q]
  BY DEF TableOK, RunsTypeOK
<1>2. /\ runner' \in [Runners -> RunnerType] /\ runner'[p] = state
      /\ \A q \in Runners \ {p} : runner'[q] = runner[q]
  BY DEF TableOK, RunsTypeOK, Goto
<1>3. Decides(Idle)
  BY DEF Decides, Idle, At
<1>. QED
  BY <1>1, <1>2, <1>3, KeptSame, TableStep

\* One process moves on.
LEMMA MoveTyped ==
    ASSUME TableOK, NEW p \in Runners, NEW state \in RunnerType, Goto(p, state), rows' = rows,
           state # Idle => /\ state.row \in DOMAIN rows /\ Decides(state)
                           /\ rows[state.row].status # "suppressed",
           faults' \in 0..MaxFaults
    PROVE  TableOK' /\ TableKept
<1>1. rows' \in Seq(RowType)
  BY DEF TableOK, RunsTypeOK
<1>2. /\ runner' \in [Runners -> RunnerType] /\ runner'[p] = state
      /\ \A q \in Runners \ {p} : runner'[q] = runner[q]
  BY DEF TableOK, RunsTypeOK, Goto
<1>3. Decides(Idle)
  BY DEF Decides, Idle, At
<1>. QED
  BY <1>1, <1>2, <1>3, KeptSame, TableStep

\* A row's end, pause or approval is written.
LEMMA FieldsKept ==
    ASSUME NEW row \in RowType, row.status # "suppressed"
    PROVE  /\ \A s \in Statuses \ {"suppressed"} :
                LET x == [row EXCEPT !.status = s] IN x \in RowType /\ Kept(row, x)
           /\ \A w \in Pauses :
                LET x == [row EXCEPT !.status = "waiting", !.wait = w]
                IN x \in RowType /\ Kept(row, x)
           /\ \A a \in {"none", "pending", "approved", "rejected"} :
                LET x == [row EXCEPT !.approval = a] IN x \in RowType /\ Kept(row, x)
<1>. USE DEF RowType, Kept, SameRun
<1>1. \A s \in Statuses \ {"suppressed"} :
        LET x == [row EXCEPT !.status = s] IN x \in RowType /\ Kept(row, x)
  BY DEF Statuses
<1>2. \A w \in Pauses :
        LET x == [row EXCEPT !.status = "waiting", !.wait = w]
        IN x \in RowType /\ Kept(row, x)
  BY DEF Pauses
<1>3. \A a \in {"none", "pending", "approved", "rejected"} :
        LET x == [row EXCEPT !.approval = a] IN x \in RowType /\ Kept(row, x)
  OBVIOUS
<1>. QED
  BY <1>1, <1>2, <1>3

\* Its failure is.
LEMMA FailureKept ==
    ASSUME NEW row \in RowType, NEW n \in 0..MaxAttempts, row.status # "suppressed"
    PROVE  FailedRow(row, n) \in RowType /\ Kept(row, FailedRow(row, n))
<1>1. FailedRow(row, n) \in RowType /\ FailedRow(row, n).status = "failed"
  BY StampedRow
<1>2. CASE n < MaxAttempts
  BY <1>1, <1>2 DEF FailedRow, Stamped, RowType, Kept, SameRun
<1>3. CASE ~(n < MaxAttempts)
  BY <1>1, <1>3 DEF FailedRow, Stamped, RowType, Kept, SameRun
<1>. QED
  BY <1>2, <1>3, <1>1

\* The steps of a run.
LEMMA RunStepTyped ==
    ASSUME TableOK, NEW p \in Runners, RunStep(p) \/ Abandon(p)
    PROVE  TableOK' /\ TableKept
<1>. DEFINE r == Row(p)
            row == rows[r]
<1>1. ~IsIdle(p)
  BY Busy DEF RunStep, Finalize, ReadAttempt, StampFailure, PersistPause, InsertApproval, Ends,
     Abandon
<1>2. /\ r \in DOMAIN rows /\ r \in Nat /\ row \in RowType /\ row.status # "suppressed"
      /\ runner[p] \in RunnerType
  BY <1>1, WorkedOn
<1>3. faults' \in 0..MaxFaults
  <2>1. faults' = faults \/ Fault
    BY DEF RunStep, Finalize, ReadAttempt, StampFailure, PersistPause, InsertApproval, Abandon
  <2>. QED
    BY <2>1 DEF Fault, TableOK, RunsTypeOK
<1>4. /\ Idle \in RunnerType /\ At("gate", r, "none") \in RunnerType
      /\ At("gate", r, "none").row = r /\ Decides(At("gate", r, "none"))
  BY <1>2, States DEF Decides
<1>5. CASE Finalize(p)
  <2>1. PICK res \in {"completed", "skipped"} : EndRow(r, res)
    BY <1>5 DEF Finalize
  <2>. DEFINE x == [row EXCEPT !.status = res]
  <2>2. x \in RowType /\ Kept(row, x)
    <3>1. res \in Statuses \ {"suppressed"}
      BY DEF Statuses
    <3>. HIDE DEF row
    <3>. QED
      BY <1>2, <3>1, FieldsKept
  <2>3. rows' = [rows EXCEPT ![r] = x] /\ Goto(p, Idle)
    BY <1>5, <2>1 DEF EndRow, Finalize
  <2>. HIDE DEF x, r
  <2>. QED
    BY <1>2, <1>3, <1>4, <2>2, <2>3, UpdateTyped
<1>6. CASE ReadAttempt(p)
  <2>. DEFINE state == [pc |-> "stamping", row |-> r, res |-> "none",
                        attempt |-> row.attempt + 1]
  <2>1. rows' = rows /\ Goto(p, state) /\ row.attempt < MaxAttempts
    BY <1>2, <1>6 DEF ReadAttempt, Ends, RunnerType
  <2>2. row.attempt \in 0..MaxAttempts
    <3>. HIDE DEF row
    <3>. QED
      BY <1>2 DEF RowType
  <2>3. state \in RunnerType /\ state.row = r /\ Decides(state)
    <3>. HIDE DEF row, r
    <3>. QED
      BY <1>2, <2>1, <2>2 DEF RunnerType, Decides
  <2>. HIDE DEF state
  <2>. QED
    BY <1>2, <1>3, <2>1, <2>3, MoveTyped
<1>7. CASE StampFailure(p)
  <2>. DEFINE n == runner[p].attempt
              x == FailedRow(row, n)
  <2>1. rows' = [rows EXCEPT ![r] = x] /\ Goto(p, Idle)
    BY <1>7 DEF StampFailure
  <2>2. n \in 0..MaxAttempts
    BY <1>2 DEF RunnerType
  <2>. HIDE DEF n
  <2>3. x \in RowType /\ Kept(row, x)
    <3>. HIDE DEF row
    <3>. QED
      BY <1>2, <2>2, FailureKept
  <2>. HIDE DEF x, r
  <2>. QED
    BY <1>2, <1>3, <1>4, <2>1, <2>3, UpdateTyped
<1>8. CASE PersistPause(p)
  <2>1. PICK res \in Pauses :
          /\ rows' = [rows EXCEPT ![Row(p)] = [@ EXCEPT !.status = "waiting", !.wait = res]]
          /\ Goto(p, IF res = "approval" THEN At("gate", Row(p), "none") ELSE Idle)
    BY <1>8 DEF PersistPause
  <2>. DEFINE x == [row EXCEPT !.status = "waiting", !.wait = res]
              state == IF res = "approval" THEN At("gate", r, "none") ELSE Idle
  <2>2. rows' = [rows EXCEPT ![r] = x] /\ Goto(p, state)
    BY <2>1
  <2>3. x \in RowType /\ Kept(row, x)
    <3>. HIDE DEF row
    <3>. QED
      BY <1>2, FieldsKept
  <2>4. state \in RunnerType /\ (state # Idle => state.row = r /\ Decides(state))
    BY <1>4
  <2>. HIDE DEF x, r, state
  <2>. QED
    BY <1>2, <1>3, <2>2, <2>3, <2>4, UpdateTyped
<1>9. CASE InsertApproval(p)
  <2>. DEFINE x == [row EXCEPT !.approval = "pending"]
  <2>1. rows' = [rows EXCEPT ![r] = x] /\ Goto(p, Idle)
    BY <1>9 DEF InsertApproval
  <2>2. x \in RowType /\ Kept(row, x)
    <3>. HIDE DEF row
    <3>. QED
      BY <1>2, FieldsKept
  <2>. HIDE DEF x, r
  <2>. QED
    BY <1>2, <1>3, <1>4, <2>1, <2>2, UpdateTyped
<1>10. CASE Abandon(p)
  BY <1>3, <1>4, <1>10, MoveTyped DEF Abandon
<1>. QED
  BY <1>5, <1>6, <1>7, <1>8, <1>9, <1>10 DEF RunStep

\* A decision settles an approval or marks the row.
LEMMA SettledKept ==
    ASSUME NEW row \in RowType, NEW d \in {"approved", "rejected"}
    PROVE  LET x == Settle(row, d) IN x \in RowType /\ Kept(row, x)
<1>1. CASE row.approval = "pending"
  BY <1>1 DEF Settle, RowType, Kept, SameRun
<1>2. CASE row.approval # "pending"
  BY <1>2 DEF Settle, RowType, Kept, SameRun
<1>. QED
  BY <1>1, <1>2

\* The steps of a decision.
LEMMA DecisionTyped ==
    ASSUME TableOK, NEW h \in Handlers, Click(h) \/ Decide(h)
    PROVE  TableOK' /\ TableKept
<1>1. h \in Runners /\ faults' \in 0..MaxFaults /\ rows \in Seq(RowType)
  BY DEF Runners, Click, Decide, TableOK, RunsTypeOK
<1>2. CASE Click(h)
  <2>1. PICK r \in DOMAIN rows, d \in {"approved", "rejected"} :
          rows[r].status = "waiting" /\ Goto(h, At("deciding", r, d))
    BY <1>2 DEF Click
  <2>. DEFINE state == At("deciding", r, d)
  <2>3. state \in RunnerType /\ state.row = r /\ Decides(state)
    <3>1. r \in Nat
      BY <1>1
    <3>. QED
      BY <3>1, States DEF Decides
  <2>4. Goto(h, state) /\ rows' = rows
    BY <1>2, <2>1 DEF Click
  <2>. HIDE DEF state
  <2>. QED
    BY <1>1, <2>1, <2>3, <2>4, MoveTyped
<1>4. CASE Decide(h)
  <2>. DEFINE r == Row(h)
              row == rows[r]
              d == runner[h].res
              x == Settle(row, d)
              state == IF d = "approved" THEN At("running", r, "none")
                       ELSE At("ended", r, "skipped")
  <2>1. ~IsIdle(h) /\ runner[h].pc = "deciding"
    BY <1>1, <1>4, Busy DEF Decide
  <2>2. /\ r \in DOMAIN rows /\ r \in Nat /\ row \in RowType /\ row.status # "suppressed"
        /\ d \in {"approved", "rejected"}
    BY <1>1, <2>1, WorkedOn DEF Decides
  <2>3. rows' = [rows EXCEPT ![r] = x] /\ Goto(h, state)
    BY <1>4 DEF Decide
  <2>4. x \in RowType /\ Kept(row, x)
    <3>. HIDE DEF row, d
    <3>. QED
      BY <2>2, SettledKept
  <2>5. state \in RunnerType /\ state.row = r /\ Decides(state)
    BY <2>2, States DEF Decides
  <2>. HIDE DEF x, state, r
  <2>. QED
    BY <1>1, <2>2, <2>3, <2>4, <2>5, UpdateTyped
<1>. QED
  BY <1>2, <1>4

\* The claim of a delayed row.
LEMMA ClaimTyped ==
    ASSUME TableOK, NEW t \in Timers, NEW r \in DOMAIN rows, ClaimDelayed(t, r)
    PROVE  TableOK' /\ TableKept
<1>. DEFINE row == rows[r]
            x == [row EXCEPT !.status = "executing"]
            state == At("running", r, "none")
<1>1. /\ t \in Runners /\ row \in RowType /\ row.status = "waiting" /\ r \in Nat
      /\ faults' \in 0..MaxFaults
  BY DEF ClaimDelayed, Runners, TableOK, RunsTypeOK
<1>2. rows' = [rows EXCEPT ![r] = x] /\ Goto(t, state)
  BY DEF ClaimDelayed, EndRow
<1>3. x \in RowType /\ Kept(row, x)
  <2>1. "executing" \in Statuses \ {"suppressed"}
    BY DEF Statuses
  <2>. HIDE DEF row
  <2>. QED
    BY <1>1, <2>1, FieldsKept
<1>4. state \in RunnerType /\ state.row = r /\ Decides(state)
  BY <1>1, States DEF Decides
<1>. HIDE DEF x, state
<1>. QED
  BY <1>1, <1>2, <1>3, <1>4, UpdateTyped

\* The INSERT that begins a run.
Suppressed(w, e) == [NewRow(w, e, NoKey) EXCEPT !.status = "suppressed"]

Inserted(x) ==
    /\ rows' \in Seq(RowType) /\ DOMAIN rows' = DOMAIN rows \union {Len(rows) + 1}
    /\ rows'[Len(rows) + 1] = x
    /\ \A r \in DOMAIN rows : r < Len(rows) + 1 /\ rows'[r] = rows[r]

\* It adds one row, which nobody works on or the process alone, or none.
LEMMA LaunchTyped ==
    ASSUME TableOK, NEW p \in Runners, IsIdle(p), NEW w \in Workflows, NEW e \in Events,
           NEW k \in Keys, Launch(p, w, e, k), faults' = faults
    PROVE  TableOK'
<1>. DEFINE n == Len(rows) + 1
            new == NewRow(w, e, k)
            kept == Suppressed(w, e)
            state == At("running", n, "none")
<1>1. /\ n \in Nat /\ n \notin DOMAIN rows /\ faults' \in 0..MaxFaults
      /\ rows \in Seq(RowType) /\ runner \in [Runners -> RunnerType]
      /\ \A q \in Runners : ~IsIdle(q) => Row(q) \in DOMAIN rows
  BY DEF TableOK, RunsTypeOK
<1>2. /\ new \in RowType /\ kept \in RowType /\ new.status = "executing"
      /\ kept.approval = "none"
  <2>1. new \in RowType /\ kept \in RowType
    BY NewRowType DEF Suppressed, Keys
  <2>. QED
    BY <2>1 DEF NewRow, Suppressed
<1>3. \/ rows' = rows /\ runner' = runner
      \/ rows' = Append(rows, kept) /\ runner' = runner
      \/ rows' = Append(rows, new) /\ Goto(p, state)
  <2>1. CASE Insert(p, w, e, k)
    BY <2>1 DEF Insert
  <2>2. CASE Suppress(w, e)
    BY <2>2, Zenon DEF Suppress, Suppressed
  <2>. QED
    BY <2>1, <2>2 DEF Launch
<1>4. state \in RunnerType /\ state.row = n /\ Decides(state)
  BY <1>1, States DEF Decides
<1>. HIDE DEF new, kept, state
<1>5. CASE rows' = rows /\ runner' = runner
  BY <1>1, <1>5 DEF TableOK, DecidersDecide, RunsTypeOK, SuppressedRests, IsIdle, Row
<1>6. CASE rows' = Append(rows, kept) /\ runner' = runner
  <2>1. /\ rows' \in Seq(RowType) /\ DOMAIN rows' = DOMAIN rows \union {n} /\ rows'[n] = kept
        /\ \A r \in DOMAIN rows : rows'[r] = rows[r]
    BY <1>1, <1>2, <1>6
  <2>. HIDE DEF n
  <2>. QED
    BY <1>1, <1>2, <1>6, <2>1 DEF TableOK, DecidersDecide, RunsTypeOK, SuppressedRests, IsIdle, Row
<1>7. CASE rows' = Append(rows, new) /\ Goto(p, state)
  <2>1. /\ rows' \in Seq(RowType) /\ DOMAIN rows' = DOMAIN rows \union {n} /\ rows'[n] = new
        /\ \A r \in DOMAIN rows : rows'[r] = rows[r]
    BY <1>1, <1>2, <1>7
  <2>2. /\ runner' \in [Runners -> RunnerType] /\ runner'[p] = state
        /\ \A q \in Runners \ {p} : runner'[q] = runner[q]
    BY <1>1, <1>4, <1>7 DEF Goto
  <2>. HIDE DEF n
  <2>3. RunsTypeOK'
    BY <1>1, <1>4, <2>1, <2>2 DEF RunsTypeOK, IsIdle, Row
  <2>4. DecidersDecide'
    BY <1>4, <2>2 DEF TableOK, DecidersDecide
  <2>5. SuppressedRests'
    BY <1>1, <1>2, <1>4, <2>1, <2>2 DEF TableOK, SuppressedRests, IsIdle, Row
  <2>. QED
    BY <2>3, <2>4, <2>5 DEF TableOK
<1>. QED
  BY <1>3, <1>5, <1>6, <1>7

\* A run by hand.
LEMMA ByHandTyped ==
    ASSUME TableOK, NEW h \in Handlers, RunByHand(h)
    PROVE  TableOK'
<1>1. h \in Runners /\ NoKey \in Keys
  BY DEF Runners, Keys
<1>. QED
  BY <1>1, LaunchTyped DEF RunByHand

\* Every step keeps the types, however many handlers decide at once, and all but
\* the runs started by hand rewrite the rows there are.
LEMMA TableOKNext ==
    ASSUME TableOK, RunsNext
    PROVE  TableOK' /\ (TableKept \/ \E h \in Handlers : RunByHand(h))
BY RunStepTyped, DecisionTyped, ClaimTyped, ByHandTyped DEF RunsNext, HandlerStep

\* It begins so.
LEMMA TableOKInit == RunsInit => TableOK
<1>. SUFFICES ASSUME RunsInit PROVE TableOK
  OBVIOUS
<1>1. \A p \in Runners : IsIdle(p)
  BY DEF RunsInit, IsIdle
<1>4. DecidersDecide
  BY DEF RunsInit, DecidersDecide, Decides, Idle, At
<1>2. RunsTypeOK
  BY <1>1, States DEF RunsInit, RunsTypeOK
<1>3. DOMAIN rows = {}
  BY DEF RunsInit
<1>. QED
  BY <1>1, <1>2, <1>3, <1>4 DEF TableOK, SuppressedRests

\* Every state is well typed, and a process that works has a row to work on.
THEOREM RunsTyped == RunsSpec => []RunsTypeOK
<1>1. TableOK /\ [RunsNext]_runVars => TableOK'
  <2>1. TableOK /\ UNCHANGED runVars => TableOK'
    BY DEF TableOK, DecidersDecide, RunsTypeOK, SuppressedRests, runVars, IsIdle, Row
  <2>. QED
    BY <2>1, TableOKNext
<1>2. TableOK => RunsTypeOK
  BY DEF TableOK
<1>. QED
  BY <1>1, <1>2, TableOKInit, PTL DEF RunsSpec
-----------------------------------------------------------------------------
(* The invariant and what it shows.                                        *)

\* The invariant holds of an empty table and idle processes.
LEMMA RunsInvInit == RunsInit => RunsInv
<1>. SUFFICES ASSUME RunsInit PROVE RunsInv
  OBVIOUS
<1>1. \A p \in Runners : IsIdle(p) /\ ~Working(runner[p]) /\ Decides(runner[p])
  BY States DEF RunsInit, IsIdle
<1>2. RunsTypeOK
  BY <1>1, States DEF RunsInit, RunsTypeOK
<1>3. DOMAIN rows = {}
  BY DEF RunsInit
<1>. QED
  BY <1>1, <1>2, <1>3 DEF RunsInv, DecidersDecide, RunnersHold, RowsApart, ApprovalsMatch

\* Every step keeps the invariant, however many people decide at once.
LEMMA RunsInvNext == RunsInv /\ [RunsNext]_runVars => RunsInv'
<1>. SUFFICES ASSUME RunsInv, [RunsNext]_runVars PROVE RunsInv'
  OBVIOUS
<1>1. ASSUME NEW p \in Runners, RunStep(p) PROVE RunsInv'
  BY <1>1, FinalizeStep, ReadAttemptStep, StampStep, PauseStep, ApprovalStep DEF RunStep
<1>2. ASSUME NEW p \in Runners, Abandon(p) PROVE RunsInv'
  BY <1>2, AbandonStep
<1>3. ASSUME NEW h \in Handlers, HandlerStep(h) PROVE RunsInv'
  BY <1>3, ByHandStep, ClickStep, DecideStep DEF HandlerStep
<1>4. ASSUME NEW t \in Timers, NEW r \in DOMAIN rows, ClaimDelayed(t, r) PROVE RunsInv'
  BY <1>4, ClaimStep
<1>5. CASE UNCHANGED runVars
  BY <1>5 DEF runVars, RunsInv, RunsTypeOK, DecidersDecide, RunnersHold, RowsApart,
     ApprovalsMatch, Row, IsIdle
<1>. QED
  BY <1>1, <1>2, <1>3, <1>4, <1>5 DEF RunsNext

\* So the invariant always holds.
LEMMA RunsInvAlways == RunsSpec => []RunsInv
BY RunsInvInit, RunsInvNext, PTL DEF RunsSpec

\* A process that runs nodes works on its row and knows it.
LEMMA ExecutingHolds ==
    ASSUME RunsInv, NEW p \in Runners, NEW r \in DOMAIN rows, Executing(p, r), ~rows[r].late
    PROVE  Working(runner[p]) /\ Row(p) = r /\ Holds(runner[p], rows[r])
BY DEF Executing, Working, RunsInv, RunnersHold

\* workflowEngine.ts:1045-1049: whatever the replicas of the delay job and the
\* deciding people do, the nodes of an execution have one runner, unless a
\* decision found nothing to settle.
THEOREM RunnersAreAlone == RunsSpec => []OneRunnerPerExecution
<1>1. RunsInv => OneRunnerPerExecution
  BY ExecutingHolds DEF RunsInv, RowsApart, OneRunnerPerExecution
<1>. QED
  BY <1>1, RunsInvAlways, PTL

\* A rejected execution runs no further node, unless a decision came late.
THEOREM RejectedRunsStop == RunsSpec => []RejectionStops
<1>1. RunsInv => RejectionStops
  <2>. SUFFICES ASSUME RunsInv, NEW p \in Runners, NEW r \in DOMAIN rows, Executing(p, r),
                       ~rows[r].late
                PROVE  rows[r].approval # "rejected"
    BY DEF RejectionStops
  <2>. QED
    BY ExecutingHolds DEF Executing, Holds
<1>. QED
  BY <1>1, RunsInvAlways, PTL

\* An execution that waits for a timer never shows as a pending approval, unless
\* a decision came late.
THEOREM DelaysAreNotListed == RunsSpec => []DelayIsNotAnApproval
<1>1. RunsInv => DelayIsNotAnApproval
  BY DEF RunsInv, ApprovalsMatch, ApprovalMatches, ForApproval, DelayIsNotAnApproval
<1>. QED
  BY <1>1, RunsInvAlways, PTL
-----------------------------------------------------------------------------
(* No step moves an execution that ended.                                  *)

EndedKept ==
    \A r \in DOMAIN rows :
        rows[r].status \in {"completed", "skipped"} /\ ~rows[r].late
            => rows'[r].status = rows[r].status

\* A statement on a row that has not completed or been skipped, or that a late
\* decision marked, keeps the ended ones, as does one that leaves the status.
LEMMA UpdateKeeps ==
    ASSUME RunsInv, NEW r \in DOMAIN rows, NEW x, rows' = [rows EXCEPT ![r] = x],
           \/ rows[r].late \/ x.status = rows[r].status
           \/ rows[r].status \in {"executing", "waiting", "failed"}
    PROVE  EndedKept
BY DEF EndedKept, RunsInv, RunsTypeOK

\* An INSERT and no statement at all keep every row.
LEMMA LaunchKeeps ==
    ASSUME RunsInv, NEW p, NEW w, NEW e, NEW k, Launch(p, w, e, k)
    PROVE  EndedKept
<1>1. rows' = rows \/ \E x : rows' = Append(rows, x)
  BY Zenon DEF Launch, Insert, Suppress
<1>. QED
  BY <1>1 DEF EndedKept, RunsInv, RunsTypeOK

\* A run's own statements touch only its row, which has not ended.
LEMMA RunKeeps ==
    ASSUME RunsInv, NEW p \in Runners, RunStep(p)
    PROVE  EndedKept
<1>1. Working(runner[p]) /\ ~IsIdle(p)
  BY Busy DEF RunStep, Finalize, ReadAttempt, StampFailure, PersistPause, InsertApproval, Ends,
     Working
<1>2. /\ Row(p) \in DOMAIN rows
      /\ rows[Row(p)].late \/ rows[Row(p)].status \in {"executing", "waiting", "failed"}
  BY <1>1, OwnRow DEF Holds, ForApproval, Reaped, Working
<1>3. rows' = rows \/ \E x : rows' = [rows EXCEPT ![Row(p)] = x]
  <2>1. CASE Finalize(p)
    BY <2>1 DEF Finalize, EndRow
  <2>2. CASE ReadAttempt(p)
    BY <2>2 DEF ReadAttempt
  <2>3. CASE StampFailure(p)
    BY <2>3 DEF StampFailure
  <2>4. CASE PersistPause(p)
    BY <2>4, Zenon DEF PersistPause
  <2>5. CASE InsertApproval(p)
    BY <2>5 DEF InsertApproval
  <2>. QED
    BY <2>1, <2>2, <2>3, <2>4, <2>5 DEF RunStep
<1>. QED
  BY <1>2, <1>3, UpdateKeeps DEF EndedKept

\* A decision leaves the status to what it resumes or ends.
LEMMA HandlerKeeps ==
    ASSUME RunsInv, NEW h \in Handlers, HandlerStep(h)
    PROVE  EndedKept
<1>1. CASE RunByHand(h)
  BY <1>1, LaunchKeeps DEF RunByHand
<1>2. CASE Click(h)
  BY <1>2 DEF Click, EndedKept
<1>3. CASE Decide(h)
  <2>1. h \in Runners /\ ~IsIdle(h) /\ runner[h].pc = "deciding"
    BY <1>3, Busy DEF Decide, Runners
  <2>2. /\ Row(h) \in DOMAIN rows /\ rows[Row(h)] \in RowType
        /\ runner[h].res \in {"approved", "rejected"}
    BY <2>1, OwnRow DEF Decides
  <2>. DEFINE x == Settle(rows[Row(h)], runner[h].res)
  <2>3. rows' = [rows EXCEPT ![Row(h)] = x]
    BY <1>3 DEF Decide
  <2>4. x.status = rows[Row(h)].status
    BY <2>2, SettledRow
  <2>. HIDE DEF x
  <2>. QED
    BY <2>2, <2>3, <2>4, UpdateKeeps
<1>. QED
  BY <1>1, <1>2, <1>3 DEF HandlerStep

\* A completed or skipped execution keeps its status in every step, unless a
\* decision came late.
THEOREM EndedIsOver == RunsSpec => EndedStaysEnded
<1>1. RunsInv /\ [RunsNext]_runVars => [EndedKept]_runVars
  <2>. SUFFICES ASSUME RunsInv, RunsNext PROVE EndedKept
    OBVIOUS
  <2>1. ASSUME NEW p \in Runners, Abandon(p) PROVE EndedKept
    BY <2>1 DEF Abandon, EndedKept
  <2>2. ASSUME NEW t \in Timers, NEW r \in DOMAIN rows, ClaimDelayed(t, r) PROVE EndedKept
    BY <2>2 DEF ClaimDelayed, EndRow, EndedKept, RunsInv, RunsTypeOK
  <2>. QED
    BY <2>1, <2>2, RunKeeps, HandlerKeeps DEF RunsNext
<1>. QED
  BY <1>1, RunsInvAlways, PTL DEF RunsSpec, EndedStaysEnded, EndedKept
-----------------------------------------------------------------------------
(* The queue.                                                              *)

\* The types, with what they rest on: they hold whoever decides approvals.
QueueInv == TableOK /\ QueueTypeOK

\* What no step takes back.
TableGrown == DOMAIN rows \subseteq DOMAIN rows'
StreamGrown ==
    /\ stream' \in Seq(EntryType) /\ Entries \subseteq Entries'
    /\ \A i \in Entries : /\ stream'[i].ev = stream[i].ev /\ stream'[i].of = stream[i].of
                          /\ stream[i].lost => stream'[i].lost

\* A process and the row it works on.
Works(p, r) == Working(runner[p]) /\ Row(p) = r
Taken(r) == \E p \in Runners : Works(p, r)
-----------------------------------------------------------------------------
(* The parts of the queue's type, one at a time.                           *)

\* A key names a workflow, an event and, if the event has no id, an entry.
LEMMA KeyTyped ==
    ASSUME NEW w \in Workflows, NEW e \in Events, NEW i \in Nat
    PROVE  IdempotencyKey(w, e, i) \in Keys /\ IdempotencyKey(w, e, i) # NoKey
<1>1. e \in NaturalEvents => Field[e] \in Events
  BY QueueAssumption
<1>2. IdempotencyKey(w, e, i) \in [w : Workflows, e : Events, entry : Nat]
  BY <1>1 DEF IdempotencyKey
<1>3. <<>> \notin [w : Workflows, e : Events, entry : Nat]
  OBVIOUS
<1>. QED
  BY <1>2, <1>3 DEF Keys, NoKey

\* An entry is added at the end.
LEMMA EntryAdded ==
    ASSUME QueueInv, NEW e \in Events, NEW r \in DOMAIN rows \union {0}, Enqueue(e, r)
    PROVE  /\ StreamGrown /\ Entries' = Entries \union {Len(stream) + 1}
           /\ Len(stream) + 1 \notin Entries
           /\ stream' = Append(stream, NewEntry(e, r))
           /\ stream'[Len(stream) + 1] = NewEntry(e, r)
           /\ \A i \in Entries : stream'[i] = stream[i]
<1>1. stream \in Seq(EntryType) /\ rows \in Seq(RowType)
  BY DEF QueueInv, TableOK, RunsTypeOK, QueueTypeOK, StreamTyped
<1>2. NewEntry(e, r) \in EntryType
  BY <1>1 DEF NewEntry, EntryType
<1>3. stream' = Append(stream, NewEntry(e, r))
  BY DEF Enqueue
<1>. QED
  BY <1>1, <1>2, <1>3 DEF StreamGrown, Entries

\* An entry is rewritten and stays about its event.
LEMMA EntrySet ==
    ASSUME QueueInv, NEW i \in Entries, NEW x \in EntryType, stream' = [stream EXCEPT ![i] = x],
           x.ev = stream[i].ev, x.of = stream[i].of, stream[i].lost => x.lost
    PROVE  /\ StreamGrown /\ Entries' = Entries /\ stream'[i] = x
           /\ \A k \in Entries \ {i} : stream'[k] = stream[k]
<1>1. stream \in Seq(EntryType)
  BY DEF QueueInv, QueueTypeOK, StreamTyped
<1>2. stream' \in Seq(EntryType) /\ Entries' = Entries /\ stream'[i] = x
      /\ \A k \in Entries \ {i} : stream'[k] = stream[k]
  BY <1>1 DEF Entries
<1>. QED
  BY <1>2 DEF StreamGrown

\* Its delivery state changes, or it remembers a swallowed error.
LEMMA EntryMarked ==
    ASSUME QueueInv, NEW i \in Entries, NEW st \in {"pending", "acked"},
           \/ stream' = [stream EXCEPT ![i] = [@ EXCEPT !.state = st]]
           \/ stream' = [stream EXCEPT ![i] = [@ EXCEPT !.lost = TRUE]]
    PROVE  /\ StreamGrown /\ Entries' = Entries
           /\ \A k \in Entries \ {i} : stream'[k] = stream[k]
<1>1. stream[i] \in EntryType
  BY DEF QueueInv, QueueTypeOK, StreamTyped, Entries
<1>2. [stream[i] EXCEPT !.state = st] \in EntryType
      /\ [stream[i] EXCEPT !.lost = TRUE] \in EntryType
  BY <1>1 DEF EntryType
<1>3. CASE stream' = [stream EXCEPT ![i] = [@ EXCEPT !.state = st]]
  BY <1>1, <1>2, <1>3, EntrySet DEF EntryType
<1>4. CASE stream' = [stream EXCEPT ![i] = [@ EXCEPT !.lost = TRUE]]
  BY <1>1, <1>2, <1>4, EntrySet DEF EntryType
<1>. QED
  BY <1>3, <1>4

\* What refers to rows and entries keeps referring to them.
LEMMA StreamStays ==
    ASSUME QueueInv, TableGrown, stream' = stream
    PROVE  StreamTyped' /\ StreamGrown
BY DEF QueueInv, QueueTypeOK, StreamTyped, StreamGrown, TableGrown, Entries

\* The jobs, which refer to entries.
LEMMA JobsStay ==
    ASSUME QueueInv, Entries \subseteq Entries', job' = job
    PROVE  JobsTyped'
BY DEF QueueInv, QueueTypeOK, JobsTyped

\* The sweeps, which refer to rows.
LEMMA SweepsStay ==
    ASSUME QueueInv, TableGrown, sweep' = sweep
    PROVE  SweepsTyped'
BY DEF QueueInv, QueueTypeOK, SweepsTyped, TableGrown

\* What the reaper read of rows.
LEMMA ReapsStay ==
    ASSUME QueueInv, TableGrown, reap' = reap
    PROVE  ReapsTyped'
<1>. DEFINE Read(R) == [row : R, attempt : 0..(MaxAttempts - 1)]
<1>1. Read(DOMAIN rows) \subseteq Read(DOMAIN rows')
  BY DEF TableGrown
<1>2. reap \in [Sweepers -> SUBSET Read(DOMAIN rows)]
  BY DEF QueueInv, QueueTypeOK, ReapsTyped
<1>. HIDE DEF Read
<1>3. reap' \in [Sweepers -> SUBSET Read(DOMAIN rows')]
  BY <1>1, <1>2
<1>. QED
  BY <1>3 DEF ReapsTyped, Read

\* A stream that grew is well typed if its new entries refer to rows.
LEMMA StreamTypedAfter ==
    ASSUME QueueInv, TableGrown, StreamGrown,
           \A i \in Entries' \ Entries : stream'[i].of \in DOMAIN rows \union {0}
    PROVE  StreamTyped'
BY DEF QueueInv, QueueTypeOK, StreamTyped, StreamGrown, TableGrown

\* A consumer takes up an entry, goes on with it or lets it go.
LEMMA JobSet ==
    ASSUME QueueInv, Entries \subseteq Entries', NEW c \in Consumers,
           NEW i \in Entries \union {0}, NEW todo \in SUBSET Workflows, i = 0 => todo = {},
           job' = [job EXCEPT ![c] = [entry |-> i, todo |-> todo]]
    PROVE  /\ JobsTyped' /\ job'[c] = [entry |-> i, todo |-> todo]
           /\ \A d \in Consumers \ {c} : job'[d] = job[d]
BY DEF QueueInv, QueueTypeOK, JobsTyped

\* A sweeper goes to a state that refers to rows.
LEMMA SweepSet ==
    ASSUME QueueInv, TableGrown, NEW s \in Sweepers,
           NEW x \in [pc : {"idle", "publish", "clear"}, todo : SUBSET DOMAIN rows,
                      clear : DOMAIN rows \union {0}],
           x.pc = "clear" => x.clear # 0, sweep' = [sweep EXCEPT ![s] = x]
    PROVE  /\ SweepsTyped' /\ sweep'[s] = x
           /\ \A t \in Sweepers \ {s} : sweep'[t] = sweep[t]
BY DEF QueueInv, QueueTypeOK, SweepsTyped, TableGrown
-----------------------------------------------------------------------------
(* How the queue changes the table of executions.                          *)

\* The table stays as it is.
LEMMA SameTable ==
    ASSUME TableOK, rows' = rows
    PROVE  TableKept /\ TableGrown
BY KeptSame DEF TableOK, RunsTypeOK, TableKept, TableGrown

\* Nothing but the faults changes.
LEMMA StillTyped ==
    ASSUME TableOK, rows' = rows, runner' = runner, faults' \in 0..MaxFaults
    PROVE  TableOK' /\ TableKept /\ TableGrown
<1>1. /\ rows \in Seq(RowType) /\ runner \in [Runners -> RunnerType]
      /\ \A r \in DOMAIN rows : Kept(rows[r], rows'[r])
  BY KeptSame DEF TableOK, RunsTypeOK
<1>. QED
  BY <1>1, TableStep, SameTable

\* The sweep, the reaper or the clock rewrites one row.
LEMMA RowRetyped ==
    ASSUME TableOK, NEW r \in DOMAIN rows, NEW x \in RowType, rows' = [rows EXCEPT ![r] = x],
           runner' = runner, faults' = faults, Kept(rows[r], x), x.approval = rows[r].approval
    PROVE  TableOK' /\ TableKept
<1>1. /\ rows' \in Seq(RowType) /\ DOMAIN rows' = DOMAIN rows /\ rows'[r] = x
      /\ \A q \in DOMAIN rows \ {r} : rows'[q] = rows[q]
      /\ runner \in [Runners -> RunnerType] /\ faults \in 0..MaxFaults
  BY DEF TableOK, RunsTypeOK
<1>2. \A q \in DOMAIN rows :
        Kept(rows[q], rows'[q]) /\ (rows[q].status = "suppressed"
                                      => rows'[q].approval = rows[q].approval)
  BY <1>1, KeptSame
<1>. QED
  BY <1>1, <1>2, TableStep

\* The sweep's safety net marks rows dead.
LEMMA SelectDueTyped ==
    ASSUME TableOK, NEW s \in Sweepers, NEW due, SelectDue(s, due)
    PROVE  TableOK' /\ TableKept
<1>. DEFINE Net(r) == rows[r].dead \/ (r \in Retryable /\ rows[r].attempt >= MaxAttempts)
            x(r) == [rows[r] EXCEPT !.dead = Net(r)]
<1>1. rows \in Seq(RowType) /\ rows' = [r \in DOMAIN rows |-> x(r)]
  BY DEF SelectDue, TableOK, RunsTypeOK
<1>2. ASSUME NEW r \in DOMAIN rows
      PROVE  x(r) \in RowType /\ Kept(rows[r], x(r)) /\ x(r).approval = rows[r].approval
  <2>. DEFINE row == rows[r]
              b == Net(r)
  <2>1. row \in RowType /\ b \in BOOLEAN
    BY <1>1
  <2>. HIDE DEF row, b
  <2>2. [row EXCEPT !.dead = b] \in RowType /\ Kept(row, [row EXCEPT !.dead = b])
        /\ [row EXCEPT !.dead = b].approval = row.approval
    BY <2>1 DEF RowType, Kept, SameRun
  <2>. QED
    BY <2>2 DEF row, b
<1>. HIDE DEF x
<1>3. rows' \in Seq(RowType) /\ DOMAIN rows' = DOMAIN rows
  BY <1>1, <1>2
<1>4. \A r \in DOMAIN rows : rows'[r] = x(r)
  BY <1>1
<1>5. /\ runner' = runner /\ faults' \in 0..MaxFaults
      /\ runner \in [Runners -> RunnerType]
  BY DEF SelectDue, TableOK, RunsTypeOK
<1>. QED
  BY <1>2, <1>3, <1>4, <1>5, TableStep

\* A mark is cleared; a row grows old.
LEMMA MarkTyped ==
    ASSUME TableOK, NEW r \in DOMAIN rows, runner' = runner, faults' = faults,
           \/ rows' = [rows EXCEPT ![r].retry = FALSE]
           \/ rows' = [rows EXCEPT ![r].old = TRUE]
    PROVE  TableOK' /\ TableKept
<1>. DEFINE row == rows[r]
            cleared == [row EXCEPT !.retry = FALSE]
            aged == [row EXCEPT !.old = TRUE]
<1>1. row \in RowType
  BY DEF TableOK, RunsTypeOK
<1>2. rows' = [rows EXCEPT ![r] = cleared] \/ rows' = [rows EXCEPT ![r] = aged]
  OBVIOUS
<1>3. cleared \in RowType /\ Kept(row, cleared) /\ cleared.approval = row.approval
  <2>. HIDE DEF row
  <2>. QED
    BY <1>1 DEF RowType, Kept, SameRun
<1>4. aged \in RowType /\ Kept(row, aged) /\ aged.approval = row.approval
  <2>. HIDE DEF row
  <2>. QED
    BY <1>1 DEF RowType, Kept, SameRun
<1>. HIDE DEF cleared, aged
<1>. QED
  BY <1>2, <1>3, <1>4, RowRetyped

\* The row the reaper leaves: failed, with its key and what it was about.
LEMMA ReapedRow ==
    ASSUME NEW row \in RowType, NEW n \in 0..MaxAttempts
    PROVE  LET x == [Stamped(row, n) EXCEPT !.reaped = TRUE]
           IN /\ x \in RowType /\ x.status = "failed" /\ x.reaped /\ SameRun(row, x)
              /\ x.key = row.key /\ x.approval = row.approval /\ x.wait = row.wait
              /\ x.late = row.late
<1>. DEFINE failed == Stamped(row, n)
            x == [failed EXCEPT !.reaped = TRUE]
<1>1. /\ failed \in RowType /\ failed.status = "failed" /\ failed.key = row.key
      /\ failed.approval = row.approval /\ failed.wait = row.wait
      /\ failed.wf = row.wf /\ failed.ev = row.ev /\ failed.late = row.late
  BY DEF Stamped, RowType
<1>. HIDE DEF failed
<1>2. /\ x \in RowType /\ x.status = "failed" /\ x.reaped /\ x.wf = row.wf /\ x.ev = row.ev
      /\ x.key = row.key /\ x.approval = row.approval /\ x.wait = row.wait
      /\ x.late = row.late
  BY <1>1 DEF RowType
<1>3. x = [Stamped(row, n) EXCEPT !.reaped = TRUE]
  BY DEF failed
<1>. HIDE DEF x
<1>. QED
  BY <1>2, <1>3 DEF SameRun

\* The reaper's UPDATE does that to a row still executing and nothing to others.
LEMMA ReapRewrites ==
    ASSUME TableOK, ReapsTyped, NEW s \in Sweepers, NEW x \in reap[s], Reap(s, x)
    PROVE  \/ rows' = rows
           \/ \E r \in DOMAIN rows, n \in 0..MaxAttempts :
                /\ rows[r].status = "executing"
                /\ rows' = [rows EXCEPT ![r] = [Stamped(rows[r], n) EXCEPT !.reaped = TRUE]]
<1>. DEFINE r == x.row
            n == x.attempt + 1
            dead == [Stamped(rows[r], n) EXCEPT !.reaped = TRUE]
<1>1. r \in DOMAIN rows /\ n \in 0..MaxAttempts
  BY DEF ReapsTyped
<1>2. rows' = [rows EXCEPT ![r] = IF rows[r].status = "executing" THEN dead ELSE rows[r]]
  BY DEF Reap
<1>3. [rows EXCEPT ![r] = rows[r]] = rows
  BY <1>1 DEF TableOK, RunsTypeOK
<1>. HIDE DEF r, n
<1>. QED
  BY <1>1, <1>2, <1>3

\* A stuck row fails and keeps its key; one that has moved on is left alone.
LEMMA ReapTyped ==
    ASSUME QueueInv, NEW s \in Sweepers, NEW x \in reap[s], Reap(s, x)
    PROVE  TableOK' /\ TableKept
<1>1. TableOK /\ runner' = runner /\ faults' = faults /\ faults \in 0..MaxFaults
  BY DEF QueueInv, TableOK, RunsTypeOK, Reap
<1>2. CASE rows' = rows
  BY <1>1, <1>2, StillTyped
<1>3. ASSUME NEW r \in DOMAIN rows, NEW n \in 0..MaxAttempts, rows[r].status = "executing",
             rows' = [rows EXCEPT ![r] = [Stamped(rows[r], n) EXCEPT !.reaped = TRUE]]
      PROVE  TableOK' /\ TableKept
  <2>. DEFINE row == rows[r]
              dead == [Stamped(row, n) EXCEPT !.reaped = TRUE]
  <2>1. row \in RowType /\ row.status = "executing"
    BY <1>1, <1>3 DEF TableOK, RunsTypeOK
  <2>2. rows' = [rows EXCEPT ![r] = dead]
    BY <1>3
  <2>3. /\ dead \in RowType /\ dead.status = "failed" /\ dead.reaped /\ SameRun(row, dead)
        /\ dead.key = row.key /\ dead.approval = row.approval
    <3>. HIDE DEF row
    <3>. QED
      BY <2>1, ReapedRow
  <2>. HIDE DEF dead
  <2>4. Kept(row, dead)
    BY <2>1, <2>3 DEF Kept
  <2>. QED
    BY <1>1, <2>2, <2>3, <2>4, RowRetyped
<1>. QED
  BY <1>1, <1>2, <1>3, ReapRewrites DEF QueueInv, QueueTypeOK

\* It finds its key taken or leaves one new row, which records a suppression
\* or is run under a key nobody has.
LEMMA Launched ==
    ASSUME TableOK, NEW p \in Runners, NEW w \in Workflows, NEW e \in Events,
           NEW k \in Keys, Launch(p, w, e, k)
    PROVE  /\ \/ rows' = rows /\ KeyTaken(k)
              \/ Inserted(Suppressed(w, e))
              \/ Inserted(NewRow(w, e, k)) /\ ~KeyTaken(k)
           /\ \A q \in Runners : \A r \in DOMAIN rows : Works(q, r)' => Works(q, r)
           /\ rows' = rows \/ Inserted(Suppressed(w, e))
                => \A q \in Runners : \A r : Works(q, r)' => Works(q, r)
<1>. DEFINE new == NewRow(w, e, k)
            kept == Suppressed(w, e)
            state == At("running", Len(rows) + 1, "none")
<1>1. /\ new \in RowType /\ kept \in RowType /\ new.status # kept.status
  <2>1. new \in RowType /\ kept \in RowType
    BY NewRowType DEF Suppressed, Keys
  <2>2. new.status = "executing" /\ kept.status = "suppressed"
    BY DEF NewRow, Suppressed
  <2>. QED
    BY <2>1, <2>2
<1>2. \/ rows' = rows /\ runner' = runner /\ KeyTaken(k)
      \/ rows' = Append(rows, kept) /\ runner' = runner
      \/ rows' = Append(rows, new) /\ Goto(p, state) /\ ~KeyTaken(k)
  <2>1. CASE Insert(p, w, e, k)
    BY <2>1 DEF Insert
  <2>2. CASE Suppress(w, e)
    BY <2>2, Zenon DEF Suppress, Suppressed
  <2>. QED
    BY <2>1, <2>2 DEF Launch
<1>3. state.row = Len(rows) + 1
  BY DEF At
<1>4. rows \in Seq(RowType) /\ runner \in [Runners -> RunnerType]
  BY DEF TableOK, RunsTypeOK
<1>. HIDE DEF new, kept, state
<1>5. \A x \in {new, kept} : rows' = Append(rows, x) => Inserted(x)
  BY <1>1, <1>4 DEF Inserted
<1>6. CASE runner' = runner
  <2>1. \A q \in Runners : \A r : Works(q, r)' => Works(q, r)
    BY <1>6 DEF Works, Row
  <2>. QED
    BY <1>2, <1>5, <2>1 DEF new, kept
<1>7. CASE rows' = Append(rows, new) /\ Goto(p, state) /\ ~KeyTaken(k)
  <2>1. \A q \in Runners : \A r \in DOMAIN rows : Works(q, r)' => Works(q, r)
    BY <1>3, <1>4, <1>7 DEF Works, Row, Goto
  <2>2. Inserted(new) /\ ~Inserted(kept) /\ rows' # rows
    BY <1>1, <1>4, <1>7 DEF Inserted
  <2>. QED
    BY <1>7, <2>1, <2>2 DEF new, kept
<1>. QED
  BY <1>2, <1>6, <1>7

\* A run started by hand has no key to conflict with.
LEMMA ByHandTable ==
    ASSUME TableOK, NEW h \in Handlers, RunByHand(h)
    PROVE  /\ MaxRows > 0
           /\ \E w \in Workflows, e \in Events :
                Inserted(Suppressed(w, e)) \/ Inserted(NewRow(w, e, NoKey))
<1>1. h \in Runners /\ NoKey \in Keys /\ ~KeyTaken(NoKey)
  BY DEF Runners, Keys, KeyTaken
<1>2. Len(rows) < MaxRows /\ rows \in Seq(RowType)
  BY DEF RunByHand, TableOK, RunsTypeOK
<1>3. PICK w \in Workflows, e \in Events : Launch(h, w, e, NoKey)
  BY DEF RunByHand
<1>. QED
  BY <1>1, <1>2, <1>3, Launched

\* What the rows the engine inserts begin with.
LEMMA NewRowFields ==
    ASSUME NEW w, NEW e, NEW k
    PROVE  LET x == NewRow(w, e, k)
               y == Suppressed(w, e)
           IN /\ x.wf = w /\ x.ev = e /\ x.key = k /\ x.status = "executing"
              /\ y.wf = w /\ y.ev = e /\ y.key = NoKey /\ y.status = "suppressed"
              /\ ~x.reaped /\ ~y.reaped /\ ~x.retry /\ ~y.retry
BY DEF NewRow, Suppressed

\* What is done to a row keeps it about its trigger, and it may lose its key.
LEMMA RowsRewritten ==
    ASSUME TableKept, NEW r \in DOMAIN rows
    PROVE  /\ rows'[r].wf = rows[r].wf /\ rows'[r].ev = rows[r].ev
           /\ rows'[r].key \in {rows[r].key, NoKey}
           /\ rows[r].reaped => rows'[r].reaped
           /\ rows[r].late => rows'[r].late
           /\ rows'[r].status = "suppressed" <=> rows[r].status = "suppressed"
           /\ rows'[r].retry => rows[r].retry \/ rows'[r].key = NoKey \/ rows'[r].reaped
BY DEF TableKept, Kept, SameRun
-----------------------------------------------------------------------------
(* The steps of the queue keep the types.                                  *)

\* The parts make the whole.
LEMMA Composed ==
    ASSUME TableOK', StreamTyped', JobsTyped', SweepsTyped', ReapsTyped'
    PROVE  QueueInv'
BY DEF QueueInv, QueueTypeOK, TableOK

\* What a consumer has to go.
LEMMA JobOf ==
    ASSUME QueueInv, NEW c \in Consumers
    PROVE  /\ c \in Runners /\ job[c].entry \in Entries \union {0}
           /\ job[c].todo \in SUBSET Workflows
           /\ job[c].entry = 0 => job[c].todo = {}
           /\ job[c] = [entry |-> job[c].entry, todo |-> job[c].todo]
           /\ Entries \subseteq Nat \ {0}
BY DEF QueueInv, QueueTypeOK, JobsTyped, StreamTyped, Runners, Entries

\* A domain event is published.
LEMMA PublishStep ==
    ASSUME QueueInv, NEW e \in Events, Publish(e)
    PROVE  QueueInv' /\ StreamGrown /\ TableKept
<1>1. TableOK /\ UNCHANGED <<rows, runner, faults, job, sweep, reap>> /\ Enqueue(e, 0)
  BY DEF Publish, QueueInv, runVars
<1>2. TableOK' /\ TableKept /\ TableGrown
  BY <1>1, StillTyped DEF TableOK, RunsTypeOK
<1>3. /\ StreamGrown /\ Entries' = Entries \union {Len(stream) + 1}
      /\ stream'[Len(stream) + 1] = NewEntry(e, 0)
  BY <1>1, EntryAdded
<1>4. StreamTyped'
  BY <1>2, <1>3, StreamTypedAfter DEF NewEntry
<1>. QED
  BY <1>1, <1>2, <1>3, <1>4, Composed, JobsStay, SweepsStay, ReapsStay

\* An entry is delivered for the first time.
LEMMA DeliverStep ==
    ASSUME QueueInv, NEW c \in Consumers, NEW i \in Entries, Deliver(c, i)
    PROVE  QueueInv' /\ StreamGrown /\ TableKept
<1>1. /\ TableOK /\ UNCHANGED <<rows, runner, faults, sweep, reap>>
      /\ job' = [job EXCEPT ![c] = [entry |-> i, todo |-> Workflows]]
      /\ stream' = [stream EXCEPT ![i] = [@ EXCEPT !.state = "pending"]]
  BY DEF Deliver, Take, QueueInv, runVars
<1>2. TableOK' /\ TableKept /\ TableGrown
  BY <1>1, StillTyped DEF TableOK, RunsTypeOK
<1>3. StreamGrown /\ Entries' = Entries
  BY <1>1, EntryMarked
<1>4. StreamTyped'
  BY <1>2, <1>3, StreamTypedAfter
<1>5. JobsTyped'
  <2>1. i # 0 /\ Workflows \in SUBSET Workflows
    BY JobOf
  <2>. QED
    BY <1>1, <1>3, <2>1, JobSet
<1>. QED
  BY <1>1, <1>2, <1>3, <1>4, <1>5, Composed, SweepsStay, ReapsStay

\* A pending entry is reclaimed.
LEMMA ReclaimStep ==
    ASSUME QueueInv, NEW c \in Consumers, NEW i \in Entries, Reclaim(c, i)
    PROVE  QueueInv' /\ StreamGrown /\ TableKept
<1>1. /\ TableOK /\ UNCHANGED <<rows, runner, faults, stream, sweep, reap>>
      /\ job' = [job EXCEPT ![c] = [entry |-> i, todo |-> Workflows]]
  BY DEF Reclaim, Take, QueueInv, runVars
<1>2. TableOK' /\ TableKept /\ TableGrown
  BY <1>1, StillTyped DEF TableOK, RunsTypeOK
<1>3. StreamTyped' /\ StreamGrown
  BY <1>1, <1>2, StreamStays
<1>4. JobsTyped'
  <2>1. i # 0 /\ Workflows \in SUBSET Workflows
    BY JobOf
  <2>. QED
    BY <1>1, <1>3, <2>1, JobSet DEF StreamGrown
<1>. QED
  BY <1>1, <1>2, <1>3, <1>4, Composed, SweepsStay, ReapsStay

\* It leaves some of it.
LEMMA TodoSet ==
    ASSUME QueueInv, NEW c \in Consumers, NEW todo \in SUBSET job[c].todo,
           Entries \subseteq Entries', job' = [job EXCEPT ![c].todo = todo]
    PROVE  /\ JobsTyped' /\ job'[c] = [entry |-> job[c].entry, todo |-> todo]
           /\ \A d \in Consumers \ {c} : job'[d] = job[d]
<1>. DEFINE i == job[c].entry
            d == job[c].todo
<1>1. /\ i \in Entries \union {0} /\ d \in SUBSET Workflows /\ (i = 0 => d = {})
      /\ job[c] = [entry |-> i, todo |-> d]
  BY JobOf
<1>2. job' = [job EXCEPT ![c] = [job[c] EXCEPT !.todo = todo]]
  OBVIOUS
<1>. HIDE DEF i, d
<1>3. [job[c] EXCEPT !.todo = todo] = [entry |-> i, todo |-> todo]
  BY <1>1
<1>4. todo \in SUBSET Workflows /\ (i = 0 => todo = {})
  BY <1>1 DEF d
<1>5. job' = [job EXCEPT ![c] = [entry |-> i, todo |-> todo]]
  BY <1>2, <1>3
<1>6. JobsTyped' /\ job'[c] = [entry |-> i, todo |-> todo]
      /\ \A x \in Consumers \ {c} : job'[x] = job[x]
  BY <1>1, <1>4, <1>5, JobSet
<1>. QED
  BY <1>6 DEF i

\* The run the loop starts: its arguments are a workflow, an event and a key.
LEMMA RunNextLaunches ==
    ASSUME QueueInv, NEW c \in Consumers, NEW w \in Workflows, RunNext(c, w)
    PROVE  LET i == job[c].entry
               e == stream[i].ev
               k == IdempotencyKey(w, e, i)
           IN /\ i \in Entries /\ e \in Events /\ k \in Keys /\ c \in Runners /\ IsIdle(c)
              /\ w \in job[c].todo /\ Launch(c, w, e, k)
<1>. DEFINE i == job[c].entry
<1>1. i \in Entries /\ i \in Nat /\ c \in Runners
  BY JobOf DEF RunNext
<1>2. stream[i].ev \in Events
  <2>. HIDE DEF i
  <2>1. stream[i] \in EntryType
    BY <1>1 DEF QueueInv, QueueTypeOK, StreamTyped, Entries
  <2>. QED
    BY <2>1 DEF EntryType
<1>. QED
  BY <1>1, <1>2, KeyTyped DEF RunNext

\* The loop starts a run.
LEMMA RunNextStep ==
    ASSUME QueueInv, NEW c \in Consumers, NEW w \in Workflows, RunNext(c, w)
    PROVE  /\ QueueInv' /\ StreamGrown /\ stream' = stream
           /\ job'[c] = [entry |-> job[c].entry, todo |-> job[c].todo \ {w}]
           /\ \A d \in Consumers \ {c} : job'[d] = job[d]
<1>. DEFINE i == job[c].entry
            e == stream[i].ev
            k == IdempotencyKey(w, e, i)
<1>1. /\ i \in Entries /\ e \in Events /\ k \in Keys /\ c \in Runners /\ IsIdle(c)
      /\ Launch(c, w, e, k)
  BY RunNextLaunches
<1>2. /\ TableOK /\ UNCHANGED <<faults, stream, sweep, reap>>
      /\ job' = [job EXCEPT ![c].todo = job[c].todo \ {w}]
  BY DEF RunNext, QueueInv
<1>. HIDE DEF i, e, k
<1>3. TableOK' /\ TableGrown
  BY <1>1, <1>2, LaunchTyped, Launched DEF TableGrown, Inserted
<1>4. StreamTyped' /\ StreamGrown
  BY <1>2, <1>3, StreamStays
<1>5. /\ JobsTyped' /\ job'[c] = [entry |-> job[c].entry, todo |-> job[c].todo \ {w}]
      /\ \A d \in Consumers \ {c} : job'[d] = job[d]
  <2>1. job[c].todo \ {w} \in SUBSET job[c].todo
    OBVIOUS
  <2>. QED
    BY <1>2, <1>4, <2>1, TodoSet DEF StreamGrown
<1>. QED
  BY <1>2, <1>3, <1>4, <1>5, Composed, SweepsStay, ReapsStay

\* An evaluation throws.
LEMMA ThrowStep ==
    ASSUME QueueInv, NEW c \in Consumers, EvaluationThrows(c)
    PROVE  /\ QueueInv' /\ StreamGrown /\ TableKept
           /\ job[c].entry \in Entries
           /\ stream' = [stream EXCEPT ![job[c].entry] = [@ EXCEPT !.lost = TRUE]]
           /\ \E todo \in SUBSET job[c].todo :
                job'[c] = [entry |-> job[c].entry, todo |-> todo]
           /\ \A d \in Consumers \ {c} : job'[d] = job[d]
<1>. DEFINE i == job[c].entry
<1>1. /\ TableOK /\ UNCHANGED <<rows, runner, sweep, reap>> /\ faults' \in 0..MaxFaults
      /\ job[c].todo # {}
      /\ stream' = [stream EXCEPT ![i] = [@ EXCEPT !.lost = TRUE]]
  BY DEF EvaluationThrows, Fault, QueueInv, TableOK, RunsTypeOK
<1>2. i \in Entries
  BY <1>1, JobOf
<1>3. PICK todo \in SUBSET job[c].todo : job' = [job EXCEPT ![c].todo = todo]
  <2>1. CASE \E w \in job[c].todo : job' = [job EXCEPT ![c].todo = @ \ {w}]
    BY <2>1
  <2>2. CASE job' = [job EXCEPT ![c].todo = {}]
    BY <2>2
  <2>. QED
    BY <2>1, <2>2 DEF EvaluationThrows
<1>4. TableOK' /\ TableKept /\ TableGrown
  BY <1>1, StillTyped
<1>. HIDE DEF i
<1>5. StreamGrown /\ Entries' = Entries
  BY <1>1, <1>2, EntryMarked
<1>6. StreamTyped'
  BY <1>4, <1>5, StreamTypedAfter
<1>7. /\ JobsTyped' /\ job'[c] = [entry |-> job[c].entry, todo |-> todo]
      /\ \A d \in Consumers \ {c} : job'[d] = job[d]
  BY <1>3, <1>5, TodoSet
<1>. QED
  BY <1>1, <1>2, <1>4, <1>5, <1>6, <1>7, Composed, SweepsStay, ReapsStay DEF i

\* An entry is acknowledged.
LEMMA AckStep ==
    ASSUME QueueInv, NEW c \in Consumers, Ack(c)
    PROVE  /\ QueueInv' /\ StreamGrown /\ TableKept
           /\ job[c].entry \in Entries /\ job[c].todo = {} /\ job'[c] = NoJob
           /\ stream' = [stream EXCEPT ![job[c].entry] = [@ EXCEPT !.state = "acked"]]
           /\ \A d \in Consumers \ {c} : job'[d] = job[d]
<1>. DEFINE i == job[c].entry
<1>1. /\ TableOK /\ UNCHANGED <<rows, runner, faults, sweep, reap>>
      /\ job[c].todo = {} /\ i # 0
      /\ stream' = [stream EXCEPT ![i] = [@ EXCEPT !.state = "acked"]]
      /\ job' = [job EXCEPT ![c] = [entry |-> 0, todo |-> {}]]
  BY DEF Ack, QueueInv, runVars, NoJob
<1>2. i \in Entries
  BY <1>1, JobOf
<1>3. TableOK' /\ TableKept /\ TableGrown
  BY <1>1, StillTyped DEF TableOK, RunsTypeOK
<1>. HIDE DEF i
<1>4. StreamGrown /\ Entries' = Entries
  BY <1>1, <1>2, EntryMarked
<1>5. StreamTyped'
  BY <1>3, <1>4, StreamTypedAfter
<1>6. /\ JobsTyped' /\ job'[c] = [entry |-> 0, todo |-> {}]
      /\ \A d \in Consumers \ {c} : job'[d] = job[d]
  <2>1. 0 \in Entries \union {0} /\ {} \in SUBSET Workflows
    OBVIOUS
  <2>. QED
    BY <1>1, <1>4, <2>1, JobSet
<1>. QED
  BY <1>1, <1>2, <1>3, <1>4, <1>5, <1>6, Composed, SweepsStay, ReapsStay DEF i, NoJob

\* A consumer's process dies.
LEMMA CrashStep ==
    ASSUME QueueInv, NEW c \in Consumers, Crash(c)
    PROVE  /\ QueueInv' /\ StreamGrown /\ TableKept
           /\ stream' = stream /\ job'[c] = NoJob
           /\ \A d \in Consumers \ {c} : job'[d] = job[d]
<1>1. /\ TableOK /\ UNCHANGED <<rows, stream, sweep, reap>> /\ faults' \in 0..MaxFaults
      /\ Goto(c, Idle) /\ Fault /\ c \in Runners
      /\ job' = [job EXCEPT ![c] = [entry |-> 0, todo |-> {}]]
  BY DEF Crash, Fault, QueueInv, TableOK, RunsTypeOK, NoJob, Runners
<1>2. TableOK' /\ TableKept /\ TableGrown
  BY <1>1, States, MoveTyped, SameTable
<1>3. StreamTyped' /\ StreamGrown
  BY <1>1, <1>2, StreamStays
<1>4. /\ JobsTyped' /\ job'[c] = [entry |-> 0, todo |-> {}]
      /\ \A d \in Consumers \ {c} : job'[d] = job[d]
  <2>1. 0 \in Entries \union {0} /\ {} \in SUBSET Workflows
    OBVIOUS
  <2>. QED
    BY <1>1, <1>3, <2>1, JobSet DEF StreamGrown
<1>. QED
  BY <1>1, <1>2, <1>3, <1>4, Composed, SweepsStay, ReapsStay DEF NoJob

\* The states of a sweep.
SweepType == [pc : {"idle", "publish", "clear"}, todo : SUBSET DOMAIN rows,
              clear : DOMAIN rows \union {0}]

\* A sweep begins and ends, and settles on the rows that are left.
LEMMA SweepStates ==
    /\ NoSweep \in SweepType /\ NoSweep.pc = "idle" /\ NoSweep.todo = {}
    /\ \A x \in SweepType : /\ Settled(x) \in SweepType /\ Settled(x).pc # "clear"
                            /\ Settled(x).todo = x.todo
    /\ \A todo \in SUBSET DOMAIN rows :
         LET x == [NoSweep EXCEPT !.pc = "publish", !.todo = todo]
         IN x \in SweepType /\ x.pc # "clear" /\ x.todo = todo
BY DEF SweepType, NoSweep, Settled

\* The state a sweep is in.
LEMMA SweepOf ==
    ASSUME QueueInv, NEW s \in Sweepers
    PROVE  sweep[s] \in SweepType /\ (sweep[s].pc = "clear" => sweep[s].clear \in DOMAIN rows)
BY DEF QueueInv, QueueTypeOK, SweepsTyped, SweepType

\* A sweep finds the rows that are due.
LEMMA SelectDueStep ==
    ASSUME QueueInv, NEW s \in Sweepers, NEW due \in SUBSET DOMAIN rows, SelectDue(s, due)
    PROVE  /\ QueueInv' /\ StreamGrown /\ TableKept
           /\ stream' = stream /\ job' = job /\ sweep'[s].todo = due
           /\ \A t \in Sweepers \ {s} : sweep'[t] = sweep[t]
<1>. DEFINE x == [NoSweep EXCEPT !.pc = "publish", !.todo = due]
<1>1. /\ TableOK /\ UNCHANGED <<stream, job, reap>> /\ sweep' = [sweep EXCEPT ![s] = x]
  BY DEF SelectDue, QueueInv
<1>2. TableOK' /\ TableKept /\ TableGrown
  BY <1>1, SelectDueTyped DEF TableKept, TableGrown
<1>3. x \in SweepType /\ x.pc # "clear" /\ x.todo = due
  BY SweepStates
<1>. HIDE DEF x
<1>4. StreamTyped' /\ StreamGrown
  BY <1>1, <1>2, StreamStays
<1>5. /\ SweepsTyped' /\ sweep'[s] = x /\ \A t \in Sweepers \ {s} : sweep'[t] = sweep[t]
  BY <1>1, <1>2, <1>3, SweepSet DEF SweepType
<1>. QED
  BY <1>1, <1>2, <1>3, <1>4, <1>5, Composed, JobsStay, ReapsStay DEF StreamGrown

\* A sweep publishes one of them.
LEMMA RepublishStep ==
    ASSUME QueueInv, NEW s \in Sweepers, NEW r \in DOMAIN rows, Republish(s, r)
    PROVE  /\ QueueInv' /\ StreamGrown /\ TableKept
           /\ rows' = rows /\ job' = job /\ r \in sweep[s].todo
           /\ stream' = Append(stream, NewEntry(rows[r].ev, r))
           /\ Entries' = Entries \union {Len(stream) + 1}
           /\ stream'[Len(stream) + 1] = NewEntry(rows[r].ev, r)
           /\ \A i \in Entries : stream'[i] = stream[i]
           /\ sweep'[s].todo \subseteq sweep[s].todo
           /\ \A t \in Sweepers \ {s} : sweep'[t] = sweep[t]
<1>. DEFINE e == rows[r].ev
            x == [sweep[s] EXCEPT !.pc = "clear", !.clear = r, !.todo = sweep[s].todo \ {r}]
<1>1. /\ TableOK /\ UNCHANGED <<rows, runner, faults, job, reap>> /\ Enqueue(e, r)
      /\ r \in sweep[s].todo /\ sweep' = [sweep EXCEPT ![s] = x]
  BY DEF Republish, QueueInv, runVars
<1>2. TableOK' /\ TableKept /\ TableGrown
  BY <1>1, StillTyped DEF TableOK, RunsTypeOK
<1>3. e \in Events
  <2>1. rows[r] \in RowType
    BY <1>1 DEF TableOK, RunsTypeOK
  <2>. QED
    BY <2>1 DEF RowType
<1>. HIDE DEF e
<1>4. /\ StreamGrown /\ Entries' = Entries \union {Len(stream) + 1}
      /\ Len(stream) + 1 \notin Entries /\ stream' = Append(stream, NewEntry(e, r))
      /\ stream'[Len(stream) + 1] = NewEntry(e, r)
      /\ \A i \in Entries : stream'[i] = stream[i]
  BY <1>1, <1>3, EntryAdded
<1>5. StreamTyped'
  BY <1>2, <1>4, StreamTypedAfter DEF NewEntry
<1>6. x \in SweepType /\ (x.pc = "clear" => x.clear # 0) /\ x.todo \subseteq sweep[s].todo
  <2>1. r # 0
    BY <1>1 DEF TableOK, RunsTypeOK
  <2>. QED
    BY <2>1, SweepOf DEF SweepType
<1>. HIDE DEF x
<1>7. /\ SweepsTyped' /\ sweep'[s] = x /\ \A t \in Sweepers \ {s} : sweep'[t] = sweep[t]
  BY <1>1, <1>2, <1>6, SweepSet DEF SweepType
<1>. QED
  BY <1>1, <1>2, <1>4, <1>5, <1>6, <1>7, Composed, JobsStay, ReapsStay DEF e

\* The steps of a sweep that write no entry and no row but the mark.
LEMMA SettleStep ==
    ASSUME QueueInv, NEW s \in Sweepers,
           \/ ClearRetry(s)
           \/ SweepFails(s)
           \/ \E r \in DOMAIN rows : PublishUnavailable(s, r)
    PROVE  /\ QueueInv' /\ StreamGrown /\ TableKept
           /\ stream' = stream /\ job' = job /\ sweep'[s].todo \subseteq sweep[s].todo
           /\ \A t \in Sweepers \ {s} : sweep'[t] = sweep[t]
<1>1. TableOK /\ UNCHANGED <<stream, job, reap>>
  BY DEF ClearRetry, SweepFails, PublishUnavailable, QueueInv
<1>2. TableOK' /\ TableKept /\ TableGrown
  <2>1. CASE ClearRetry(s)
    <3>1. sweep[s].clear \in DOMAIN rows
      BY <2>1, SweepOf DEF ClearRetry
    <3>. QED
      BY <1>1, <2>1, <3>1, MarkTyped DEF ClearRetry, TableGrown, TableKept
  <2>2. CASE SweepFails(s)
    BY <1>1, <2>2, StillTyped DEF SweepFails, Fault, TableOK, RunsTypeOK
  <2>3. CASE \E r \in DOMAIN rows : PublishUnavailable(s, r)
    <3>1. UNCHANGED runVars
      BY <2>3 DEF PublishUnavailable
    <3>. QED
      BY <1>1, <3>1, StillTyped DEF runVars, TableOK, RunsTypeOK
  <2>. QED
    BY <2>1, <2>2, <2>3
<1>3. StreamTyped' /\ StreamGrown
  BY <1>1, <1>2, StreamStays
<1>4. PICK x \in SweepType : /\ x.pc # "clear" /\ x.todo \subseteq sweep[s].todo
                             /\ sweep' = [sweep EXCEPT ![s] = x]
  <2>1. CASE \E r \in DOMAIN rows : PublishUnavailable(s, r)
    <3>1. PICK r \in DOMAIN rows :
            sweep' = [sweep EXCEPT ![s] = Settled([sweep[s] EXCEPT !.todo = @ \ {r}])]
      BY <2>1 DEF PublishUnavailable
    <3>. DEFINE left == [sweep[s] EXCEPT !.todo = sweep[s].todo \ {r}]
    <3>2. left \in SweepType /\ left.todo \subseteq sweep[s].todo
      BY SweepOf DEF SweepType
    <3>3. sweep' = [sweep EXCEPT ![s] = Settled(left)]
      BY <3>1
    <3>. HIDE DEF left
    <3>. QED
      BY <3>2, <3>3, SweepStates
  <2>2. CASE ClearRetry(s) \/ SweepFails(s)
    <3>1. sweep' = [sweep EXCEPT ![s] = NoSweep] \/ sweep' = [sweep EXCEPT ![s] = Settled(sweep[s])]
      BY <2>2 DEF ClearRetry, SweepFails
    <3>. QED
      BY <3>1, SweepOf, SweepStates
  <2>. QED
    BY <2>1, <2>2
<1>5. /\ SweepsTyped' /\ sweep'[s] = x /\ \A t \in Sweepers \ {s} : sweep'[t] = sweep[t]
  BY <1>2, <1>4, SweepSet DEF SweepType
<1>. QED
  BY <1>1, <1>2, <1>3, <1>4, <1>5, Composed, JobsStay, ReapsStay DEF StreamGrown

\* The reaper reads the stuck rows and gives them up.
LEMMA ReaperStep ==
    ASSUME QueueInv, NEW s \in Sweepers, ReapStep(s)
    PROVE  /\ QueueInv' /\ StreamGrown /\ TableKept
           /\ stream' = stream /\ job' = job /\ sweep' = sweep
<1>1. TableOK /\ UNCHANGED <<stream, job, sweep>>
  BY DEF ReapStep, SelectStuck, Reap, QueueInv
<1>2. CASE SelectStuck(s)
  <2>. DEFINE read == {[row |-> r, attempt |-> rows[r].attempt] :
                         r \in {q \in DOMAIN rows :
                                  /\ rows[q].status = "executing" /\ rows[q].old
                                  /\ rows[q].attempt < MaxAttempts}}
  <2>1. TableOK' /\ TableKept /\ TableGrown
    BY <1>1, <1>2, StillTyped DEF SelectStuck, runVars, TableOK, RunsTypeOK
  <2>2. read \in SUBSET [row : DOMAIN rows, attempt : 0..(MaxAttempts - 1)]
    <3>1. \A q \in DOMAIN rows : rows[q].attempt < MaxAttempts
            => rows[q].attempt \in 0..(MaxAttempts - 1)
      <4>1. \A q \in DOMAIN rows : rows[q] \in RowType
        BY <1>1 DEF TableOK, RunsTypeOK
      <4>2. \A q \in DOMAIN rows : rows[q].attempt \in 0..MaxAttempts
        BY <4>1 DEF RowType
      <4>. QED
        BY <4>2
    <3>. QED
      BY <3>1
  <2>3. reap' = [reap EXCEPT ![s] = read] /\ DOMAIN rows' = DOMAIN rows
    BY <1>2 DEF SelectStuck, runVars
  <2>. HIDE DEF read
  <2>4. ReapsTyped'
    BY <2>2, <2>3 DEF QueueInv, QueueTypeOK, ReapsTyped
  <2>5. StreamTyped' /\ StreamGrown
    BY <1>1, <2>1, StreamStays
  <2>. QED
    BY <1>1, <2>1, <2>4, <2>5, Composed, JobsStay, SweepsStay DEF StreamGrown
<1>3. CASE \E x \in reap[s] : Reap(s, x)
  <2>1. PICK x \in reap[s] : Reap(s, x)
    BY <1>3
  <2>2. TableOK' /\ TableKept /\ DOMAIN rows' = DOMAIN rows
    BY <2>1, ReapTyped DEF TableKept
  <2>3. TableGrown
    BY <2>2 DEF TableGrown
  <2>4. ReapsTyped'
    <3>. DEFINE Read == [row : DOMAIN rows, attempt : 0..(MaxAttempts - 1)]
    <3>1. reap' = [reap EXCEPT ![s] = reap[s] \ {x}] /\ reap \in [Sweepers -> SUBSET Read]
      BY <2>1 DEF Reap, QueueInv, QueueTypeOK, ReapsTyped
    <3>. HIDE DEF Read
    <3>2. reap' \in [Sweepers -> SUBSET Read]
      BY <3>1
    <3>. QED
      BY <2>2, <3>2 DEF ReapsTyped, Read
  <2>5. StreamTyped' /\ StreamGrown
    BY <1>1, <2>3, StreamStays
  <2>. QED
    BY <1>1, <2>2, <2>3, <2>4, <2>5, Composed, JobsStay, SweepsStay DEF StreamGrown
<1>. QED
  BY <1>2, <1>3 DEF ReapStep

\* A row grows old.
LEMMA AgeStep ==
    ASSUME QueueInv, NEW r \in DOMAIN rows, Age(r)
    PROVE  /\ QueueInv' /\ StreamGrown /\ TableKept
           /\ stream' = stream /\ job' = job /\ sweep' = sweep
<1>1. TableOK /\ UNCHANGED <<stream, job, sweep, reap>>
  BY DEF Age, queueVars, QueueInv
<1>2. TableOK' /\ TableKept /\ TableGrown
  BY <1>1, MarkTyped DEF Age, TableGrown, TableKept
<1>3. StreamTyped' /\ StreamGrown
  BY <1>1, <1>2, StreamStays
<1>. QED
  BY <1>1, <1>2, <1>3, Composed, JobsStay, SweepsStay, ReapsStay DEF StreamGrown

\* A step of WorkflowRuns.
LEMMA RunsStep ==
    ASSUME QueueInv, RunsNext, UNCHANGED queueVars
    PROVE  /\ QueueInv' /\ StreamGrown
           /\ TableKept \/ \E h \in Handlers : RunByHand(h)
<1>1. TableOK /\ UNCHANGED <<stream, job, sweep, reap>>
  BY DEF queueVars, QueueInv
<1>2. TableOK' /\ (TableKept \/ \E h \in Handlers : RunByHand(h))
  BY <1>1, TableOKNext
<1>3. TableGrown
  <2>1. CASE TableKept
    BY <2>1 DEF TableKept, TableGrown
  <2>2. CASE \E h \in Handlers : RunByHand(h)
    BY <1>1, <2>2, ByHandTable DEF Inserted, TableGrown
  <2>. QED
    BY <1>2, <2>1, <2>2
<1>4. StreamTyped' /\ StreamGrown
  BY <1>1, <1>3, StreamStays
<1>. QED
  BY <1>1, <1>2, <1>3, <1>4, Composed, JobsStay, SweepsStay, ReapsStay DEF StreamGrown
-----------------------------------------------------------------------------
(* Every step at once, as the proofs below tell the steps apart.           *)

\* A step of the queue other than a run it starts ...
ConsumerOther(c) ==
    \/ \E i \in Entries : Deliver(c, i) \/ Reclaim(c, i)
    \/ EvaluationThrows(c) \/ Ack(c) \/ Crash(c)

SweeperOther(s) ==
    \/ \E due \in SUBSET DOMAIN rows : SelectDue(s, due)
    \/ \E r \in DOMAIN rows : Republish(s, r) \/ PublishUnavailable(s, r)
    \/ ClearRetry(s) \/ SweepFails(s) \/ ReapStep(s)

\* ... rewrites the table; a run adds a row to it.
Begins ==
    \/ \E c \in Consumers, w \in Workflows : RunNext(c, w)
    \/ UNCHANGED queueVars /\ \E h \in Handlers : RunByHand(h)

\* Every step keeps the types and the entries there were, and rewrites the
\* table or begins a run.
LEMMA QueueInvNext ==
    ASSUME QueueInv, [Next]_vars
    PROVE  QueueInv' /\ StreamGrown /\ (TableKept \/ Begins)
<1>1. CASE RunsNext /\ UNCHANGED queueVars
  BY <1>1, RunsStep DEF Begins
<1>2. ASSUME NEW e \in Events, Publish(e)
      PROVE  QueueInv' /\ StreamGrown /\ TableKept
  BY <1>2, PublishStep
<1>3. ASSUME NEW c \in Consumers, ConsumerOther(c)
      PROVE  QueueInv' /\ StreamGrown /\ TableKept
  BY <1>3, DeliverStep, ReclaimStep, ThrowStep, AckStep, CrashStep DEF ConsumerOther
<1>4. ASSUME NEW c \in Consumers, NEW w \in Workflows, RunNext(c, w)
      PROVE  QueueInv' /\ StreamGrown /\ Begins
  BY <1>4, RunNextStep DEF Begins
<1>5. ASSUME NEW s \in Sweepers, SweeperOther(s)
      PROVE  QueueInv' /\ StreamGrown /\ TableKept
  BY <1>5, SelectDueStep, RepublishStep, SettleStep, ReaperStep DEF SweeperOther
<1>6. ASSUME NEW r \in DOMAIN rows, Age(r)
      PROVE  QueueInv' /\ StreamGrown /\ TableKept
  BY <1>6, AgeStep
<1>7. CASE UNCHANGED vars
  <2>1. /\ UNCHANGED <<rows, runner, faults, stream, job, sweep, reap>> /\ TableOK
        /\ faults' \in 0..MaxFaults
    BY <1>7 DEF vars, runVars, queueVars, QueueInv, TableOK, RunsTypeOK
  <2>2. TableOK' /\ TableKept /\ TableGrown
    BY <2>1, StillTyped
  <2>3. StreamTyped' /\ StreamGrown
    BY <2>1, <2>2, StreamStays
  <2>. QED
    BY <2>1, <2>2, <2>3, Composed, JobsStay, SweepsStay, ReapsStay DEF StreamGrown
<1>. QED
  BY <1>1, <1>2, <1>3, <1>4, <1>5, <1>6, <1>7
  DEF Next, ConsumerStep, SweepStep, ConsumerOther, SweeperOther

\* The queue begins well typed.
LEMMA QueueInvInit == Init => QueueInv
<1>. SUFFICES ASSUME Init PROVE QueueInv
  OBVIOUS
<1>1. TableOK /\ rows = <<>> /\ stream = <<>>
  BY TableOKInit DEF Init, RunsInit
<1>2. StreamTyped
  BY <1>1 DEF StreamTyped, Entries
<1>3. JobsTyped
  BY DEF Init, NoJob, JobsTyped
<1>4. SweepsTyped
  BY DEF Init, NoSweep, SweepsTyped
<1>5. ReapsTyped
  BY DEF Init, ReapsTyped
<1>. QED
  BY <1>1, <1>2, <1>3, <1>4, <1>5 DEF QueueInv, QueueTypeOK, TableOK

\* So it always is.
LEMMA QueueInvAlways == Spec => []QueueInv
<1>1. QueueInv /\ [Next]_vars => QueueInv'
  BY QueueInvNext
<1>. QED
  BY <1>1, QueueInvInit, PTL DEF Spec

\* The stream, the loops, the sweeps and the reaper refer to entries and rows
\* that exist.
THEOREM QueueTyped == Spec => []QueueTypeOK
<1>1. QueueInv => QueueTypeOK
  BY DEF QueueInv
<1>. QED
  BY <1>1, QueueInvAlways, PTL

\* The steps that begin a run, seen from the table: at most one row is added.
LEMMA BeginsTable ==
    ASSUME QueueInv, Begins
    PROVE  \/ rows' = rows
           \/ \E x \in RowType : Inserted(x)
<1>1. ASSUME NEW c \in Consumers, NEW w \in Workflows, RunNext(c, w)
      PROVE  rows' = rows \/ \E x \in RowType : Inserted(x)
  <2>. DEFINE i == job[c].entry
              e == stream[i].ev
              k == IdempotencyKey(w, e, i)
  <2>1. /\ i \in Entries /\ e \in Events /\ k \in Keys /\ c \in Runners /\ IsIdle(c)
        /\ Launch(c, w, e, k) /\ TableOK
    BY <1>1, RunNextLaunches DEF QueueInv
  <2>. HIDE DEF i, e, k
  <2>2. NewRow(w, e, k) \in RowType /\ Suppressed(w, e) \in RowType
    BY <2>1, NewRowType DEF Suppressed, Keys
  <2>. QED
    BY <2>1, <2>2, Launched
<1>2. ASSUME NEW h \in Handlers, RunByHand(h)
      PROVE  \E x \in RowType : Inserted(x)
  <2>1. NoKey \in Keys /\ TableOK
    BY DEF Keys, QueueInv
  <2>. QED
    BY <1>2, <2>1, ByHandTable, NewRowType DEF Suppressed
<1>. QED
  BY <1>1, <1>2 DEF Begins

\* What a row is about is never changed, and a reaped row stays reaped.
LEMMA TriggersKept ==
    ASSUME QueueInv, [Next]_vars, NEW r \in DOMAIN rows
    PROVE  /\ r \in DOMAIN rows' /\ rows'[r].wf = rows[r].wf /\ rows'[r].ev = rows[r].ev
           /\ rows[r].reaped => rows'[r].reaped
           /\ rows[r].late => rows'[r].late
<1>1. CASE TableKept
  BY <1>1, RowsRewritten DEF TableKept
<1>2. CASE Begins
  BY <1>2, BeginsTable DEF Inserted
<1>. QED
  BY <1>1, <1>2, QueueInvNext
-----------------------------------------------------------------------------
(* Idempotency keys name their trigger and belong to one row.              *)

KeyOf(r, i) ==
    /\ stream[i].ev = rows[r].ev /\ stream[i].of < r
    /\ rows[r].key = IdempotencyKey(rows[r].wf, rows[r].ev, i)

RowsKeyed ==
    \A r \in DOMAIN rows : rows[r].key # NoKey => \E i \in Entries : KeyOf(r, i)

KeysUnique ==
    \A r, q \in DOMAIN rows : rows[r].key = rows[q].key /\ rows[r].key # NoKey => r = q

KeyInv == RowsKeyed /\ KeysUnique

\* A row that is rewritten keeps its key or gives it up.
LEMMA KeysRewritten ==
    ASSUME QueueInv, KeyInv, StreamGrown, TableKept
    PROVE  KeyInv'
<1>1. \A r \in DOMAIN rows : /\ rows'[r].wf = rows[r].wf /\ rows'[r].ev = rows[r].ev
                             /\ rows'[r].key \in {rows[r].key, NoKey}
  BY RowsRewritten DEF TableKept
<1>2. DOMAIN rows' = DOMAIN rows
  BY DEF TableKept
<1>3. RowsKeyed'
  <2>1. ASSUME NEW r \in DOMAIN rows, rows'[r].key # NoKey PROVE \E i \in Entries' : KeyOf(r, i)'
    <3>1. PICK i \in Entries : KeyOf(r, i)
      BY <1>1, <2>1 DEF KeyInv, RowsKeyed
    <3>2. /\ i \in Entries' /\ stream'[i].ev = stream[i].ev /\ stream'[i].of = stream[i].of
          /\ rows'[r].key = rows[r].key
      BY <1>1, <2>1 DEF StreamGrown
    <3>. QED
      BY <1>1, <3>1, <3>2 DEF KeyOf, IdempotencyKey
  <2>. QED
    BY <1>2, <2>1 DEF RowsKeyed
<1>4. KeysUnique'
  BY <1>1, <1>2 DEF KeyInv, KeysUnique
<1>. QED
  BY <1>3, <1>4 DEF KeyInv

\* A row that is added has no key or a key nobody has, made from an entry.
LEMMA KeysInserted ==
    ASSUME QueueInv, KeyInv, StreamGrown, NEW x, Inserted(x),
           \/ x.key = NoKey
           \/ /\ \A r \in DOMAIN rows : rows[r].key # x.key
              /\ \E i \in Entries : /\ stream'[i].ev = x.ev /\ stream'[i].of < Len(rows) + 1
                                    /\ x.key = IdempotencyKey(x.wf, x.ev, i)
    PROVE  KeyInv'
<1>. DEFINE n == Len(rows) + 1
<1>1. /\ DOMAIN rows' = DOMAIN rows \union {n} /\ rows'[n] = x
      /\ \A r \in DOMAIN rows : rows'[r] = rows[r]
  BY DEF Inserted
<1>2. \A i \in Entries : /\ i \in Entries' /\ stream'[i].ev = stream[i].ev
                         /\ stream'[i].of = stream[i].of
  BY DEF StreamGrown
<1>. HIDE DEF n
<1>3. RowsKeyed'
  <2>1. ASSUME NEW r \in DOMAIN rows', rows'[r].key # NoKey PROVE \E i \in Entries' : KeyOf(r, i)'
    <3>1. CASE r \in DOMAIN rows
      <4>1. PICK i \in Entries : KeyOf(r, i)
        BY <1>1, <2>1, <3>1 DEF KeyInv, RowsKeyed
      <4>. QED
        BY <1>1, <1>2, <3>1, <4>1 DEF KeyOf, IdempotencyKey
    <3>2. CASE r = n
      <4>1. PICK i \in Entries : /\ stream'[i].ev = x.ev /\ stream'[i].of < n
                                 /\ x.key = IdempotencyKey(x.wf, x.ev, i)
        BY <1>1, <2>1, <3>2 DEF n
      <4>. QED
        BY <1>1, <1>2, <3>2, <4>1 DEF KeyOf, IdempotencyKey
    <3>. QED
      BY <1>1, <2>1, <3>1, <3>2
  <2>. QED
    BY <2>1 DEF RowsKeyed
<1>4. KeysUnique'
  BY <1>1 DEF KeyInv, KeysUnique
<1>. QED
  BY <1>3, <1>4 DEF KeyInv

\* Every step keeps the keys apart.
LEMMA KeyInvNext ==
    ASSUME QueueInv, KeyInv, [Next]_vars
    PROVE  KeyInv'
<1>1. StreamGrown /\ (TableKept \/ Begins)
  BY QueueInvNext
<1>2. ASSUME NEW c \in Consumers, NEW w \in Workflows, RunNext(c, w) PROVE KeyInv'
  <2>. DEFINE i == job[c].entry
              e == stream[i].ev
              k == IdempotencyKey(w, e, i)
  <2>1. /\ i \in Entries /\ e \in Events /\ k \in Keys /\ k # NoKey
        /\ c \in Runners /\ IsIdle(c) /\ Launch(c, w, e, k) /\ TableOK
    <3>1. Entries \subseteq Nat
      BY JobOf
    <3>. QED
      BY <1>2, <3>1, RunNextLaunches, KeyTyped DEF QueueInv
  <2>2. stream' = stream /\ stream[i].of < Len(rows) + 1
    <3>. HIDE DEF i
    <3>1. stream' = stream
      BY <1>2, RunNextStep
    <3>2. stream[i].of \in DOMAIN rows \union {0} /\ rows \in Seq(RowType)
      BY <2>1 DEF QueueInv, QueueTypeOK, StreamTyped, TableOK, RunsTypeOK
    <3>. QED
      BY <3>1, <3>2
  <2>3. /\ NewRow(w, e, k).wf = w /\ NewRow(w, e, k).ev = e /\ NewRow(w, e, k).key = k
        /\ Suppressed(w, e).key = NoKey
    BY NewRowFields
  <2>4. \/ rows' = rows
        \/ Inserted(Suppressed(w, e))
        \/ Inserted(NewRow(w, e, k)) /\ ~KeyTaken(k)
    BY <2>1, Launched
  <2>5. stream'[i].ev = e
    BY <2>2
  <2>6. k = IdempotencyKey(w, e, i)
    OBVIOUS
  <2>. HIDE DEF k, e, i
  <2>7. CASE rows' = rows
    BY <1>1, <2>1, <2>7, SameTable, KeysRewritten
  <2>8. CASE Inserted(Suppressed(w, e))
    BY <1>1, <2>3, <2>8, KeysInserted
  <2>9. CASE Inserted(NewRow(w, e, k)) /\ ~KeyTaken(k)
    <3>1. \A r \in DOMAIN rows : rows[r].key # k
      BY <2>1, <2>9 DEF KeyTaken
    <3>. QED
      BY <1>1, <2>1, <2>2, <2>3, <2>5, <2>6, <2>9, <3>1, KeysInserted
  <2>. QED
    BY <2>4, <2>7, <2>8, <2>9
<1>3. ASSUME NEW h \in Handlers, RunByHand(h) PROVE KeyInv'
  BY <1>1, <1>3, ByHandTable, NewRowFields, KeysInserted DEF QueueInv
<1>. QED
  BY <1>1, <1>2, <1>3, KeysRewritten DEF Begins

\* So they always are.
LEMMA KeyInvAlways == Spec => []KeyInv
<1>1. Init => KeyInv
  BY DEF Init, RunsInit, KeyInv, RowsKeyed, KeysUnique
<1>2. QueueInv /\ KeyInv /\ [Next]_vars => KeyInv'
  BY KeyInvNext
<1>. QED
  BY <1>1, <1>2, QueueInvAlways, PTL DEF Spec

\* Rows of one trigger that have their keys are one row.
LEMMA OneKeyed ==
    ASSUME KeyInv, NEW r \in DOMAIN rows, NEW s \in DOMAIN rows,
           SameTrigger(rows[r], rows[s]), rows[r].ev \in NaturalEvents,
           rows[r].key # NoKey, rows[s].key # NoKey
    PROVE  r = s
<1>1. PICK i \in Entries, j \in Entries : KeyOf(r, i) /\ KeyOf(s, j)
  BY DEF KeyInv, RowsKeyed
<1>2. rows[r].key = rows[s].key
  BY <1>1 DEF KeyOf, IdempotencyKey, SameTrigger
<1>. QED
  BY <1>2 DEF KeyInv, KeysUnique
-----------------------------------------------------------------------------
(* How a consumer's work and the stream advance.                           *)

JobStep(c) ==
    \/ job'[c] \in {job[c], NoJob}
    \/ \E i \in Entries : job'[c] = [entry |-> i, todo |-> Workflows]
    \/ \E w \in Workflows : RunNext(c, w)
    \/ /\ job[c].entry \in Entries /\ stream'[job[c].entry].lost
       /\ job'[c].entry = job[c].entry

EntryStep(i) ==
    \/ i \notin Entries /\ stream'[i].state = "new"
    \/ i \in Entries /\ stream'[i].state \in {stream[i].state, "pending"}
    \/ /\ i \in Entries /\ stream'[i].lost = stream[i].lost
       /\ \E c \in Consumers : job[c].entry = i /\ job[c].todo = {}

\* Only its own step moves a consumer, and only an acknowledgement settles an entry.
LEMMA ConsumerSteps ==
    ASSUME QueueInv, NEW c \in Consumers, ConsumerOther(c)
    PROVE  (\A d \in Consumers : JobStep(d)) /\ (\A i \in Entries' : EntryStep(i))
<1>. DEFINE Goal == (\A d \in Consumers : JobStep(d)) /\ (\A i \in Entries' : EntryStep(i))
<1>1. job \in [Consumers -> [entry : Entries \union {0}, todo : SUBSET Workflows]]
      /\ stream \in Seq(EntryType)
  BY DEF QueueInv, QueueTypeOK, JobsTyped, StreamTyped
<1>2. ASSUME NEW i \in Entries, Deliver(c, i) PROVE Goal
  <2>1. /\ job' = [job EXCEPT ![c] = [entry |-> i, todo |-> Workflows]]
        /\ stream' = [stream EXCEPT ![i] = [stream[i] EXCEPT !.state = "pending"]]
    BY <1>2 DEF Deliver, Take
  <2>2. \A d \in Consumers : JobStep(d)
    BY <1>1, <2>1 DEF JobStep
  <2>3. [stream[i] EXCEPT !.state = "pending"].state = "pending"
    BY <1>1 DEF Entries, EntryType
  <2>4. \A j \in Entries' : j \in Entries /\ stream'[j].state \in {stream[j].state, "pending"}
    BY <1>1, <2>1, <2>3 DEF Entries
  <2>. QED
    BY <2>2, <2>4 DEF EntryStep
<1>3. ASSUME NEW i \in Entries, Reclaim(c, i) PROVE Goal
  <2>1. /\ job' = [job EXCEPT ![c] = [entry |-> i, todo |-> Workflows]]
        /\ stream' = stream
    BY <1>3 DEF Reclaim, Take
  <2>. QED
    BY <1>1, <2>1 DEF JobStep, EntryStep, Entries
<1>4. CASE EvaluationThrows(c)
  <2>. DEFINE i == job[c].entry
              x == [stream[i] EXCEPT !.lost = TRUE]
  <2>1. /\ i \in Entries /\ stream' = [stream EXCEPT ![i] = [@ EXCEPT !.lost = TRUE]]
        /\ \E todo \in SUBSET job[c].todo : job'[c] = [entry |-> i, todo |-> todo]
        /\ \A d \in Consumers \ {c} : job'[d] = job[d]
    BY <1>4, ThrowStep
  <2>2. stream' = [stream EXCEPT ![i] = x]
    BY <2>1
  <2>. HIDE DEF i
  <2>3. x.lost /\ x.state = stream[i].state
    BY <1>1, <2>1 DEF Entries, EntryType
  <2>. HIDE DEF x
  <2>4. /\ stream'[i] = x /\ Entries' = Entries
        /\ \A j \in Entries \ {i} : stream'[j] = stream[j]
    BY <1>1, <2>2, <2>1 DEF Entries
  <2>5. \A d \in Consumers : JobStep(d)
    BY <2>1, <2>3, <2>4 DEF JobStep, i
  <2>6. \A j \in Entries' : EntryStep(j)
    BY <2>3, <2>4 DEF EntryStep
  <2>. QED
    BY <2>5, <2>6
<1>5. CASE Ack(c)
  <2>. DEFINE i == job[c].entry
              x == [stream[i] EXCEPT !.state = "acked"]
  <2>1. /\ i \in Entries /\ stream' = [stream EXCEPT ![i] = x] /\ job[c].todo = {}
        /\ job'[c] = NoJob /\ \A d \in Consumers \ {c} : job'[d] = job[d]
    BY <1>5, AckStep
  <2>. HIDE DEF i
  <2>2. x.lost = stream[i].lost
    BY <1>1, <2>1 DEF Entries, EntryType
  <2>. HIDE DEF x
  <2>3. /\ stream'[i] = x /\ Entries' = Entries
        /\ \A j \in Entries \ {i} : stream'[j] = stream[j]
    BY <1>1, <2>1 DEF Entries
  <2>4. \A d \in Consumers : JobStep(d)
    BY <2>1 DEF JobStep
  <2>5. \A j \in Entries' : EntryStep(j)
    BY <2>1, <2>2, <2>3 DEF EntryStep, i
  <2>. QED
    BY <2>4, <2>5
<1>6. CASE Crash(c)
  <2>1. /\ stream' = stream /\ job'[c] = NoJob
        /\ \A d \in Consumers \ {c} : job'[d] = job[d]
    BY <1>6, CrashStep
  <2>. QED
    BY <2>1 DEF JobStep, EntryStep, Entries
<1>. QED
  BY <1>2, <1>3, <1>4, <1>5, <1>6 DEF ConsumerOther

\* Of all steps these are the ones that move a consumer or settle an entry.
LEMMA QueueSteps ==
    ASSUME QueueInv, [Next]_vars
    PROVE  (\A d \in Consumers : JobStep(d)) /\ (\A i \in Entries' : EntryStep(i))
<1>. DEFINE Goal == (\A d \in Consumers : JobStep(d)) /\ (\A i \in Entries' : EntryStep(i))
<1>1. stream' = stream => \A i \in Entries' : EntryStep(i)
  BY DEF EntryStep, Entries
<1>2. job' = job => \A d \in Consumers : JobStep(d)
  BY DEF JobStep
<1>3. ASSUME NEW e \in Events, NEW r \in DOMAIN rows \union {0}, Enqueue(e, r)
      PROVE  \A i \in Entries' : EntryStep(i)
  <2>1. /\ Entries' = Entries \union {Len(stream) + 1} /\ Len(stream) + 1 \notin Entries
        /\ stream'[Len(stream) + 1] = NewEntry(e, r)
        /\ \A i \in Entries : stream'[i] = stream[i]
    BY <1>3, EntryAdded
  <2>. QED
    BY <2>1 DEF EntryStep, NewEntry
<1>4. ASSUME NEW e \in Events, Publish(e) PROVE Goal
  BY <1>2, <1>3, <1>4 DEF Publish
<1>5. ASSUME NEW c \in Consumers, NEW w \in Workflows, RunNext(c, w) PROVE Goal
  <2>1. stream' = stream /\ \A d \in Consumers \ {c} : job'[d] = job[d]
    BY <1>5, RunNextStep
  <2>. QED
    BY <1>1, <1>5, <2>1 DEF JobStep
<1>6. ASSUME NEW s \in Sweepers, SweeperOther(s) PROVE Goal
  <2>1. ASSUME NEW r \in DOMAIN rows, Republish(s, r) PROVE Goal
    <3>1. rows[r] \in RowType /\ job' = job /\ Enqueue(rows[r].ev, r)
      BY <2>1 DEF Republish, QueueInv, TableOK, RunsTypeOK
    <3>. QED
      BY <1>2, <1>3, <3>1 DEF RowType
  <2>2. CASE \A r \in DOMAIN rows : ~Republish(s, r)
    BY <1>1, <1>2, <1>6, <2>2, SelectDueStep, SettleStep, ReaperStep DEF SweeperOther
  <2>. QED
    BY <2>1, <2>2
<1>7. CASE RunsNext /\ UNCHANGED queueVars
  BY <1>1, <1>2, <1>7 DEF queueVars
<1>8. ASSUME NEW r \in DOMAIN rows, Age(r) PROVE Goal
  BY <1>1, <1>2, <1>8 DEF Age, queueVars
<1>9. CASE UNCHANGED vars
  BY <1>1, <1>2, <1>9 DEF vars, queueVars
<1>10. ASSUME NEW c \in Consumers, ConsumerOther(c) PROVE Goal
  BY <1>10, ConsumerSteps
<1>. QED
  BY <1>4, <1>5, <1>6, <1>7, <1>8, <1>9, <1>10
  DEF Next, ConsumerStep, SweepStep, ConsumerOther, SweeperOther
-----------------------------------------------------------------------------
(* No evaluation is lost.                                                  *)

\* Each event with an id has one of its own.
FieldsApart == \A d, e \in NaturalEvents : Field[d] = Field[e] => d = e

\* Then a key belongs to one trigger.
LEMMA KeyDetermines ==
    ASSUME FieldsApart, NEW w, NEW v, NEW e \in Events, NEW d \in Events,
           NEW i \in Nat \ {0}, NEW j \in Nat \ {0},
           IdempotencyKey(w, e, i) = IdempotencyKey(v, d, j)
    PROVE  w = v /\ e = d /\ (e \notin NaturalEvents => i = j)
BY DEF FieldsApart, IdempotencyKey

HasRow(table, w, e) == \E r \in DOMAIN table : table[r].wf = w /\ table[r].ev = e

\* The workflows a consumer is done with have an execution for the event.
JobEvaluates(c) ==
    job[c].entry # 0 /\ ~stream[job[c].entry].lost =>
        \A w \in Workflows \ job[c].todo : HasRow(rows, w, stream[job[c].entry].ev)

AckInv == AckedMeansEvaluated /\ \A c \in Consumers : JobEvaluates(c)

\* An evaluation leaves an execution for good.
LEMMA EvaluatedStays ==
    ASSUME QueueInv, [Next]_vars, NEW i \in Entries, NEW w, HasRow(rows, w, stream[i].ev)
    PROVE  HasRow(rows', w, stream'[i].ev)
<1>1. PICK r \in DOMAIN rows : rows[r].wf = w /\ rows[r].ev = stream[i].ev
  BY DEF HasRow
<1>2. stream'[i].ev = stream[i].ev
  BY QueueInvNext DEF StreamGrown
<1>3. r \in DOMAIN rows' /\ rows'[r].wf = w /\ rows'[r].ev = stream'[i].ev
  BY <1>1, <1>2, TriggersKept
<1>. QED
  BY <1>3 DEF HasRow

\* A run that is started, suppressed or finds its key taken leaves an execution.
LEMMA RunEvaluates ==
    ASSUME FieldsApart, QueueInv, KeyInv, [Next]_vars,
           NEW c \in Consumers, NEW w \in Workflows, RunNext(c, w)
    PROVE  HasRow(rows', w, stream'[job[c].entry].ev)
<1>. DEFINE i == job[c].entry
            e == stream[i].ev
            k == IdempotencyKey(w, e, i)
<1>1. /\ i \in Entries /\ i \in Nat \ {0} /\ e \in Events /\ k \in Keys /\ k # NoKey
      /\ c \in Runners /\ IsIdle(c) /\ Launch(c, w, e, k) /\ TableOK
  <2>1. Entries \subseteq Nat \ {0}
    BY JobOf
  <2>. QED
    BY <2>1, RunNextLaunches, KeyTyped DEF QueueInv
<1>2. stream' = stream
  BY RunNextStep
<1>3. /\ NewRow(w, e, k).wf = w /\ NewRow(w, e, k).ev = e
      /\ Suppressed(w, e).wf = w /\ Suppressed(w, e).ev = e
  BY NewRowFields
<1>4. \/ rows' = rows /\ KeyTaken(k)
      \/ Inserted(Suppressed(w, e))
      \/ Inserted(NewRow(w, e, k))
  BY <1>1, Launched
<1>5. CASE rows' = rows /\ KeyTaken(k)
  <2>1. PICK r \in DOMAIN rows : rows[r].key = k
    BY <1>5 DEF KeyTaken
  <2>2. PICK j \in Entries : k = IdempotencyKey(rows[r].wf, rows[r].ev, j)
    BY <1>1, <2>1 DEF KeyInv, RowsKeyed, KeyOf
  <2>3. rows[r].ev \in Events /\ j \in Nat \ {0}
    <3>1. rows[r] \in RowType /\ j \in Nat \ {0}
      BY <1>1 DEF TableOK, RunsTypeOK, QueueInv, QueueTypeOK, StreamTyped, Entries
    <3>. QED
      BY <3>1 DEF RowType
  <2>4. rows[r].wf = w /\ rows[r].ev = e
    BY <1>1, <2>2, <2>3, KeyDetermines
  <2>. QED
    BY <1>2, <1>5, <2>4 DEF HasRow
<1>6. CASE Inserted(Suppressed(w, e)) \/ Inserted(NewRow(w, e, k))
  <2>1. \E r \in DOMAIN rows' : rows'[r].wf = w /\ rows'[r].ev = e
    <3>. HIDE DEF e, k
    <3>. QED
      BY <1>3, <1>6 DEF Inserted
  <2>. QED
    BY <1>2, <2>1 DEF HasRow
<1>. QED
  BY <1>4, <1>5, <1>6

\* Every step keeps the evaluations of the entries in hand and acknowledged.
LEMMA AckInvNext ==
    ASSUME FieldsApart, QueueInv, KeyInv, AckInv, [Next]_vars
    PROVE  AckInv'
<1>1. StreamGrown /\ QueueInv'
  BY QueueInvNext
<1>2. ASSUME NEW c \in Consumers, job'[c].entry # 0, ~stream'[job'[c].entry].lost,
             NEW w \in Workflows \ job'[c].todo
      PROVE  HasRow(rows', w, stream'[job'[c].entry].ev)
  <2>. DEFINE i == job[c].entry
  <2>1. JobStep(c)
    BY QueueSteps
  <2>2. i \in Entries \union {0} /\ (i \in Entries => i # 0)
    BY JobOf
  <2>3. ASSUME i \in Entries, ~stream'[i].lost, w \notin job[c].todo
        PROVE  HasRow(rows', w, stream'[i].ev)
    BY <1>1, <2>2, <2>3, EvaluatedStays DEF AckInv, JobEvaluates, StreamGrown
  <2>4. CASE job'[c] = job[c]
    BY <1>2, <2>2, <2>3, <2>4
  <2>5. CASE job'[c] = NoJob
    BY <1>2, <2>5 DEF NoJob
  <2>6. CASE \E j \in Entries : job'[c] = [entry |-> j, todo |-> Workflows]
    BY <1>2, <2>6
  <2>7. ASSUME NEW v \in Workflows, RunNext(c, v) PROVE HasRow(rows', w, stream'[job'[c].entry].ev)
    <3>1. job'[c].entry = i /\ job'[c].todo = job[c].todo \ {v} /\ i \in Entries
      <4>1. job'[c] = [entry |-> i, todo |-> job[c].todo \ {v}]
        BY <2>7, RunNextStep
      <4>2. i \in Entries
        BY <2>7, RunNextLaunches
      <4>. HIDE DEF i
      <4>. QED
        BY <4>1, <4>2
    <3>2. CASE w = v
      BY <2>7, <3>1, <3>2, RunEvaluates
    <3>3. CASE w # v
      BY <1>2, <2>3, <3>1, <3>3
    <3>. QED
      BY <3>2, <3>3
  <2>8. CASE i \in Entries /\ stream'[i].lost /\ job'[c].entry = i
    BY <1>2, <2>8
  <2>. QED
    BY <2>1, <2>4, <2>5, <2>6, <2>7, <2>8 DEF JobStep
<1>3. ASSUME NEW i \in Entries', stream'[i].state = "acked", ~stream'[i].lost,
             NEW w \in Workflows
      PROVE  HasRow(rows', w, stream'[i].ev)
  <2>1. EntryStep(i)
    BY QueueSteps
  <2>2. i \in Entries
    BY <1>3, <2>1 DEF EntryStep
  <2>3. ~stream[i].lost
    BY <1>1, <1>3, <2>2 DEF StreamGrown
  <2>4. HasRow(rows, w, stream[i].ev)
    <3>1. CASE stream[i].state = "acked"
      BY <2>2, <2>3, <3>1 DEF AckInv, AckedMeansEvaluated, Evaluated, HasRow
    <3>2. CASE \E c \in Consumers : job[c].entry = i /\ job[c].todo = {}
      <4>1. i # 0
        BY <2>2, <3>2, JobOf
      <4>. QED
        BY <2>3, <3>2, <4>1 DEF AckInv, JobEvaluates
    <3>. QED
      BY <1>3, <2>1, <2>2, <3>1, <3>2 DEF EntryStep
  <2>. QED
    BY <2>2, <2>4, EvaluatedStays
<1>. QED
  BY <1>2, <1>3 DEF AckInv, AckedMeansEvaluated, Evaluated, JobEvaluates, HasRow

\* Whether or not ON CONFLICT finds its index: if no two events share an id, an
\* acknowledged event has an execution of every workflow unless a statement of
\* its evaluation threw, whatever consumers crash and sweepers republish.
THEOREM NothingIsLost ==
    ASSUME FieldsApart
    PROVE  Spec => []AckedMeansEvaluated
<1>1. Init => AckInv
  BY DEF Init, Entries, NoJob, AckInv, AckedMeansEvaluated, JobEvaluates
<1>2. QueueInv /\ KeyInv /\ AckInv /\ [Next]_vars => AckInv'
  BY AckInvNext
<1>3. AckInv => AckedMeansEvaluated
  BY DEF AckInv
<1>. QED
  BY <1>1, <1>2, <1>3, QueueInvAlways, KeyInvAlways, PTL DEF Spec
-----------------------------------------------------------------------------
(* The republish of a failure leads to a newer execution.                  *)

NoHandRuns == MaxRows = 0

\* A failure to be retried has given its key up, unless the reaper found it.
RetryFreed(r) == rows[r].retry => rows[r].key = NoKey \/ rows[r].reaped

SuppressedKeyless(r) == rows[r].status = "suppressed" => rows[r].key = NoKey

\* Of the executions of a trigger only the newest has its key.
NewestKeyed(r, q) ==
    r < q /\ SameTrigger(rows[r], rows[q]) /\ rows[r].ev \in NaturalEvents
        /\ rows[q].status # "suppressed" => rows[r].key = NoKey

FreedInv ==
    /\ \A r \in DOMAIN rows : RetryFreed(r) /\ SuppressedKeyless(r)
    /\ \A r, q \in DOMAIN rows : NewestKeyed(r, q)

\* Rows that are rewritten.
LEMMA FreedRewritten ==
    ASSUME FreedInv, TableKept
    PROVE  FreedInv'
<1>1. DOMAIN rows' = DOMAIN rows
  BY DEF TableKept
<1>2. ASSUME NEW r \in DOMAIN rows PROVE RetryFreed(r)' /\ SuppressedKeyless(r)'
  BY RowsRewritten DEF FreedInv, RetryFreed, SuppressedKeyless
<1>3. ASSUME NEW r \in DOMAIN rows, NEW q \in DOMAIN rows PROVE NewestKeyed(r, q)'
  BY RowsRewritten DEF FreedInv, NewestKeyed, SameTrigger
<1>. QED
  BY <1>1, <1>2, <1>3 DEF FreedInv

\* A row that is added.
LEMMA FreedInserted ==
    ASSUME FreedInv, NEW x, Inserted(x), ~x.retry, x.status = "suppressed" => x.key = NoKey,
           x.status # "suppressed" =>
             \A r \in DOMAIN rows :
               SameTrigger(rows[r], x) /\ rows[r].ev \in NaturalEvents => rows[r].key = NoKey
    PROVE  FreedInv'
<1>1. PICK n : n = Len(rows) + 1
  OBVIOUS
<1>2. /\ DOMAIN rows' = DOMAIN rows \union {n} /\ rows'[n] = x
      /\ \A r \in DOMAIN rows : r < n /\ rows'[r] = rows[r]
  BY <1>1 DEF Inserted
<1>3. DOMAIN rows' \subseteq Nat
  BY DEF Inserted
<1>4. RetryFreed(n)' /\ SuppressedKeyless(n)' /\ \A r \in DOMAIN rows : NewestKeyed(r, n)'
  BY <1>2 DEF RetryFreed, SuppressedKeyless, NewestKeyed
<1>5. ASSUME NEW r \in DOMAIN rows
      PROVE  /\ RetryFreed(r)' /\ SuppressedKeyless(r)'
             /\ \A q \in DOMAIN rows : NewestKeyed(r, q)'
  BY <1>2 DEF FreedInv, RetryFreed, SuppressedKeyless, NewestKeyed
<1>6. \A q \in DOMAIN rows' : NewestKeyed(n, q)'
  <2>1. \A q \in DOMAIN rows' : ~(n < q)
    BY <1>2, <1>3
  <2>. QED
    BY <2>1 DEF NewestKeyed
<1>. QED
  BY <1>2, <1>4, <1>5, <1>6 DEF FreedInv

\* A run of the queue finds its key taken or leaves a row whose key nobody of
\* its trigger has.
LEMMA FreedRun ==
    ASSUME QueueInv, KeyInv, FreedInv, NEW c \in Consumers, NEW w \in Workflows, RunNext(c, w)
    PROVE  FreedInv'
<1>. DEFINE i == job[c].entry
            e == stream[i].ev
            k == IdempotencyKey(w, e, i)
            new == NewRow(w, e, k)
            kept == Suppressed(w, e)
<1>1. /\ i \in Entries /\ e \in Events /\ k \in Keys /\ k # NoKey
      /\ c \in Runners /\ Launch(c, w, e, k) /\ TableOK
  <2>1. Entries \subseteq Nat
    BY JobOf
  <2>. QED
    BY <2>1, RunNextLaunches, KeyTyped DEF QueueInv
<1>2. \/ rows' = rows
      \/ Inserted(kept)
      \/ Inserted(new) /\ ~KeyTaken(k)
  BY <1>1, Launched
<1>3. /\ new.wf = w /\ new.ev = e /\ new.key = k /\ new.status = "executing"
      /\ kept.key = NoKey /\ kept.status = "suppressed" /\ ~new.retry /\ ~kept.retry
  BY NewRowFields
<1>4. \A r \in DOMAIN rows :
        SameTrigger(rows[r], new) /\ rows[r].ev \in NaturalEvents /\ rows[r].key # NoKey
          => rows[r].key = k
  <2>. SUFFICES ASSUME NEW r \in DOMAIN rows, SameTrigger(rows[r], new),
                       rows[r].ev \in NaturalEvents, rows[r].key # NoKey
                PROVE  rows[r].key = k
    OBVIOUS
  <2>. HIDE DEF new, e
  <2>1. PICK j \in Entries : KeyOf(r, j)
    BY DEF KeyInv, RowsKeyed
  <2>2. rows[r].wf = w /\ rows[r].ev = e
    BY <1>3 DEF SameTrigger
  <2>. QED
    BY <2>1, <2>2 DEF KeyOf, IdempotencyKey
<1>. HIDE DEF new, kept, k, e, i
<1>5. CASE rows' = rows
  BY <1>1, <1>5, SameTable, FreedRewritten
<1>6. CASE Inserted(kept)
  BY <1>3, <1>6, FreedInserted
<1>7. CASE Inserted(new) /\ ~KeyTaken(k)
  <2>1. \A r \in DOMAIN rows : rows[r].key # k
    BY <1>1, <1>7 DEF KeyTaken
  <2>. QED
    BY <1>3, <1>4, <1>7, <2>1, FreedInserted
<1>. QED
  BY <1>2, <1>5, <1>6, <1>7

\* So it is of all executions the queue starts.
LEMMA FreedInvAlways == ASSUME NoHandRuns PROVE Spec => []FreedInv
<1>1. Init => FreedInv
  BY DEF Init, RunsInit, FreedInv
<1>2. ASSUME QueueInv, KeyInv, FreedInv, [Next]_vars PROVE FreedInv'
  <2>1. TableKept \/ Begins
    BY <1>2, QueueInvNext
  <2>2. ASSUME NEW h \in Handlers, RunByHand(h) PROVE FALSE
    BY <1>2, <2>2, ByHandTable DEF NoHandRuns, QueueInv
  <2>. QED
    BY <1>2, <2>1, <2>2, FreedRewritten, FreedRun DEF Begins
<1>. QED
  BY <1>1, <1>2, QueueInvAlways, KeyInvAlways, PTL DEF Spec

\* A row that is swept was reaped, or has given its key up.
Retried(q) == rows[q].reaped \/ (rows[q].key = NoKey /\ rows[q].status # "suppressed")

HasRerun(table, q) == \E r \in DOMAIN table : r > q /\ SameTrigger(table[r], table[q])

\* A consumer that is done with the workflow of a republished row has rerun it.
JobReruns(c) ==
    LET i == job[c].entry
        q == stream[i].of
    IN i # 0 /\ ~stream[i].lost /\ q # 0 /\ rows[q].wf \notin job[c].todo
         => rows[q].reaped \/ HasRerun(rows, q)

RerunInv ==
    /\ \A s \in Sweepers : \A q \in sweep[s].todo : Retried(q)
    /\ \A i \in Entries :
         stream[i].of # 0 => Retried(stream[i].of) /\ stream[i].ev = rows[stream[i].of].ev
    /\ \A c \in Consumers : JobReruns(c)
    /\ SweptFailureReruns

\* What was retried stays so.
LEMMA RetriedStays ==
    ASSUME QueueInv, [Next]_vars, NEW q \in DOMAIN rows, Retried(q)
    PROVE  Retried(q)'
<1>1. CASE TableKept
  BY <1>1, RowsRewritten DEF Retried
<1>2. CASE Begins
  BY <1>2, BeginsTable DEF Inserted, Retried
<1>. QED
  BY <1>1, <1>2, QueueInvNext

\* What was rerun stays so.
LEMMA RerunStays ==
    ASSUME QueueInv, [Next]_vars, NEW q \in DOMAIN rows, HasRerun(rows, q)
    PROVE  HasRerun(rows', q)
<1>1. PICK r \in DOMAIN rows : r > q /\ SameTrigger(rows[r], rows[q])
  BY DEF HasRerun
<1>2. r \in DOMAIN rows' /\ SameTrigger(rows'[r], rows'[q])
  BY <1>1, TriggersKept DEF SameTrigger
<1>. QED
  BY <1>1, <1>2 DEF HasRerun

\* A sweep takes up failures that are due and publishes only those.
SweepMoves(s) ==
    \/ sweep'[s].todo \subseteq sweep[s].todo
    \/ sweep'[s].todo \subseteq Retryable

Republished(i) ==
    \/ stream'[i].of = 0
    \/ \E s \in Sweepers : \E r \in sweep[s].todo :
         rows' = rows /\ stream'[i].of = r /\ stream'[i].ev = rows[r].ev

\* Of all steps these are the ones that move a sweep or add an entry.
LEMMA SweepSteps ==
    ASSUME QueueInv, [Next]_vars
    PROVE  /\ \A s \in Sweepers : SweepMoves(s)
           /\ \A i \in Entries' \ Entries : Republished(i)
<1>. DEFINE Goal == /\ \A s \in Sweepers : SweepMoves(s)
                    /\ \A i \in Entries' \ Entries : Republished(i)
<1>1. sweep' = sweep => \A s \in Sweepers : SweepMoves(s)
  BY DEF SweepMoves
<1>2. stream' = stream => Entries' \ Entries = {}
  BY DEF Entries
<1>3. ASSUME NEW e \in Events, Publish(e) PROVE Goal
  <2>1. /\ Entries' = Entries \union {Len(stream) + 1} /\ sweep' = sweep
        /\ stream'[Len(stream) + 1] = NewEntry(e, 0)
    BY <1>3, EntryAdded DEF Publish
  <2>. QED
    BY <1>1, <2>1 DEF Republished, NewEntry
<1>4. ASSUME NEW c \in Consumers, ConsumerOther(c) PROVE Goal
  <2>1. sweep' = sweep
    BY <1>4 DEF ConsumerOther, Deliver, Reclaim, EvaluationThrows, Ack, Crash
  <2>2. Entries' \subseteq Entries
    <3>1. Entries' = DOMAIN stream'
      BY DEF Entries
    <3>2. CASE stream' = stream
      BY <3>2 DEF Entries
    <3>3. ASSUME NEW i, NEW x, stream' = [stream EXCEPT ![i] = x] PROVE Entries' \subseteq Entries
      BY <3>3 DEF QueueInv, QueueTypeOK, StreamTyped, Entries
    <3>4. stream' = stream \/ \E i, x : stream' = [stream EXCEPT ![i] = x]
      BY <1>4, Zenon DEF ConsumerOther, Deliver, Reclaim, EvaluationThrows, Ack, Crash
    <3>. QED
      BY <3>2, <3>3, <3>4
  <2>. QED
    BY <1>1, <2>1, <2>2
<1>5. ASSUME NEW c \in Consumers, NEW w \in Workflows, RunNext(c, w) PROVE Goal
  BY <1>1, <1>2, <1>5 DEF RunNext
<1>6. ASSUME NEW s \in Sweepers, SweeperOther(s) PROVE Goal
  <2>1. ASSUME NEW due \in SUBSET DOMAIN rows, SelectDue(s, due) PROVE Goal
    <3>1. /\ due \subseteq Retryable /\ stream' = stream /\ sweep'[s].todo = due
          /\ \A t \in Sweepers \ {s} : sweep'[t] = sweep[t]
      BY <2>1, SelectDueStep DEF SelectDue
    <3>. QED
      BY <1>2, <3>1 DEF SweepMoves
  <2>2. ASSUME NEW r \in DOMAIN rows, Republish(s, r) PROVE Goal
    <3>1. /\ rows' = rows /\ r \in sweep[s].todo
          /\ Entries' = Entries \union {Len(stream) + 1}
          /\ stream'[Len(stream) + 1] = NewEntry(rows[r].ev, r)
          /\ sweep'[s].todo \subseteq sweep[s].todo
          /\ \A t \in Sweepers \ {s} : sweep'[t] = sweep[t]
      BY <2>2, RepublishStep
    <3>2. \A i \in Entries' \ Entries : Republished(i)
      BY <3>1 DEF Republished, NewEntry
    <3>. QED
      BY <3>1, <3>2 DEF SweepMoves
  <2>3. CASE ClearRetry(s) \/ SweepFails(s) \/ \E r \in DOMAIN rows : PublishUnavailable(s, r)
    <3>1. /\ stream' = stream /\ sweep'[s].todo \subseteq sweep[s].todo
          /\ \A t \in Sweepers \ {s} : sweep'[t] = sweep[t]
      BY <2>3, SettleStep
    <3>. QED
      BY <1>2, <3>1 DEF SweepMoves
  <2>4. CASE ReapStep(s)
    BY <1>1, <1>2, <2>4, ReaperStep
  <2>. QED
    BY <1>6, <2>1, <2>2, <2>3, <2>4 DEF SweeperOther
<1>7. CASE (RunsNext /\ UNCHANGED queueVars) \/ (\E r \in DOMAIN rows : Age(r)) \/ UNCHANGED vars
  <2>1. stream' = stream /\ sweep' = sweep
    BY <1>7 DEF Age, queueVars, vars
  <2>. QED
    BY <1>1, <1>2, <2>1
<1>. QED
  BY <1>3, <1>4, <1>5, <1>6, <1>7
  DEF Next, ConsumerStep, SweepStep, ConsumerOther, SweeperOther

\* The run of a republished entry: the row it retries has no key, so the key is
\* free or that of a newer row.
LEMMA RunReruns ==
    ASSUME FieldsApart, QueueInv, KeyInv, FreedInv,
           NEW c \in Consumers, NEW w \in Workflows, RunNext(c, w),
           NEW i, i = job[c].entry, NEW q \in DOMAIN rows, q = stream[i].of, rows[q].wf = w,
           stream[i].ev = rows[q].ev, rows[q].key = NoKey, rows[q].status # "suppressed"
    PROVE  HasRerun(rows', q)
<1>. DEFINE e == stream[i].ev
            k == IdempotencyKey(w, e, i)
<1>1. /\ i \in Entries /\ i \in Nat \ {0} /\ e \in Events /\ k \in Keys /\ k # NoKey
      /\ c \in Runners /\ IsIdle(c) /\ Launch(c, w, e, k) /\ TableOK
  <2>1. Entries \subseteq Nat \ {0}
    BY JobOf
  <2>. QED
    BY <2>1, RunNextLaunches, KeyTyped DEF QueueInv
<1>2. /\ NewRow(w, e, k).wf = w /\ NewRow(w, e, k).ev = e
      /\ Suppressed(w, e).wf = w /\ Suppressed(w, e).ev = e
  BY NewRowFields
<1>3. \/ rows' = rows /\ KeyTaken(k)
      \/ Inserted(Suppressed(w, e))
      \/ Inserted(NewRow(w, e, k))
  BY <1>1, Launched
<1>4. CASE rows' = rows /\ KeyTaken(k)
  <2>1. PICK r \in DOMAIN rows : rows[r].key = k
    BY <1>4 DEF KeyTaken
  <2>2. PICK j \in Entries : k = IdempotencyKey(rows[r].wf, rows[r].ev, j) /\ stream[j].of < r
    BY <1>1, <2>1 DEF KeyInv, RowsKeyed, KeyOf
  <2>3. rows[r].ev \in Events /\ j \in Nat \ {0}
    <3>1. rows[r] \in RowType /\ j \in Nat \ {0}
      BY <1>1 DEF TableOK, RunsTypeOK, QueueInv, QueueTypeOK, StreamTyped, Entries
    <3>. QED
      BY <3>1 DEF RowType
  <2>4. rows[r].wf = w /\ rows[r].ev = e /\ (e \notin NaturalEvents => i = j)
    BY <1>1, <2>2, <2>3, KeyDetermines
  <2>5. r \in Nat /\ q \in Nat /\ r # q
    BY <1>1, <2>1 DEF TableOK, RunsTypeOK
  <2>6. SameTrigger(rows[r], rows[q])
    BY <2>4 DEF SameTrigger
  <2>7. CASE e \notin NaturalEvents
    BY <1>4, <2>2, <2>4, <2>5, <2>6, <2>7 DEF HasRerun
  <2>8. CASE e \in NaturalEvents
    <3>1. NewestKeyed(r, q) /\ rows[r].key # NoKey
      BY <1>1, <2>1 DEF FreedInv
    <3>2. ~(r < q)
      BY <2>4, <2>6, <2>8, <3>1 DEF NewestKeyed
    <3>. QED
      BY <1>4, <2>5, <2>6, <3>2 DEF HasRerun
  <2>. QED
    BY <2>7, <2>8
<1>5. CASE Inserted(Suppressed(w, e)) \/ Inserted(NewRow(w, e, k))
  <2>1. PICK x : Inserted(x) /\ x.wf = w /\ x.ev = e
    BY <1>2, <1>5
  <2>. HIDE DEF e, k
  <2>2. /\ Len(rows) + 1 \in DOMAIN rows' /\ rows'[Len(rows) + 1] = x
        /\ q < Len(rows) + 1 /\ rows'[q] = rows[q]
    BY <2>1 DEF Inserted
  <2>3. SameTrigger(x, rows[q])
    BY <2>1 DEF SameTrigger, e
  <2>. QED
    BY <1>1, <2>2, <2>3 DEF HasRerun, TableOK, RunsTypeOK
<1>. QED
  BY <1>3, <1>4, <1>5

\* A row that may be swept has no key, or was reaped with it.
LEMMA DueRetried ==
    ASSUME FreedInv, NEW q \in Retryable
    PROVE  q \in DOMAIN rows /\ Retried(q)
BY DEF Retryable, FreedInv, RetryFreed, Retried

\* The rows a sweep is about to publish.
LEMMA SweepsKeep ==
    ASSUME QueueInv, FreedInv, RerunInv, [Next]_vars,
           NEW s \in Sweepers, NEW q \in sweep'[s].todo
    PROVE  Retried(q)'
<1>1. q \in DOMAIN rows /\ Retried(q)
  <2>1. CASE q \in sweep[s].todo
    BY <2>1, SweepOf DEF RerunInv, SweepType
  <2>2. CASE q \in Retryable
    BY <2>2, DueRetried
  <2>. QED
    BY <2>1, <2>2, SweepSteps DEF SweepMoves
<1>. QED
  BY <1>1, RetriedStays

\* The row an entry retries.
LEMMA EntriesKeep ==
    ASSUME QueueInv, FreedInv, RerunInv, [Next]_vars,
           NEW i \in Entries', NEW q, q = stream'[i].of, q # 0
    PROVE  Retried(q)' /\ stream'[i].ev = rows'[q].ev
<1>1. q \in DOMAIN rows /\ Retried(q) /\ stream'[i].ev = rows[q].ev
  <2>1. CASE i \in Entries
    <3>1. stream'[i].of = stream[i].of /\ stream'[i].ev = stream[i].ev
      BY <2>1, QueueInvNext DEF StreamGrown
    <3>. QED
      BY <2>1, <3>1 DEF RerunInv, QueueInv, QueueTypeOK, StreamTyped
  <2>2. CASE i \notin Entries
    <3>1. PICK s \in Sweepers : \E r \in sweep[s].todo :
            rows' = rows /\ q = r /\ stream'[i].ev = rows[r].ev
      BY <2>2, SweepSteps DEF Republished
    <3>. QED
      BY <3>1, SweepOf DEF RerunInv, SweepType
  <2>. QED
    BY <2>1, <2>2
<1>. QED
  BY <1>1, RetriedStays, TriggersKept

\* The rerun a consumer is done with.
LEMMA JobsKeep ==
    ASSUME FieldsApart, QueueInv, KeyInv, FreedInv, RerunInv,
           [Next]_vars, NEW c \in Consumers, NEW i, i = job'[c].entry, i # 0,
           ~stream'[i].lost, NEW q, q = stream'[i].of, q # 0, rows'[q].wf \notin job'[c].todo
    PROVE  rows'[q].reaped \/ HasRerun(rows', q)
<1>1. StreamGrown /\ QueueInv'
  BY QueueInvNext
<1>2. JobStep(c)
  BY QueueSteps
<1>3. ASSUME i \in Entries, i = job[c].entry
      PROVE  /\ q = stream[i].of /\ q \in DOMAIN rows /\ ~stream[i].lost
             /\ rows'[q].wf = rows[q].wf /\ stream[i].ev = rows[q].ev /\ Retried(q)
             /\ rows[q].wf \notin job[c].todo => rows[q].reaped \/ HasRerun(rows, q)
  <2>1. q = stream[i].of /\ ~stream[i].lost
    BY <1>1, <1>3 DEF StreamGrown
  <2>2. q \in DOMAIN rows
    BY <1>3, <2>1 DEF QueueInv, QueueTypeOK, StreamTyped
  <2>3. stream[i].ev = rows[q].ev /\ Retried(q)
    BY <1>3, <2>1 DEF RerunInv
  <2>4. rows[q].wf \notin job[c].todo => rows[q].reaped \/ HasRerun(rows, q)
    BY <1>3, <2>1 DEF RerunInv, JobReruns
  <2>. QED
    BY <2>1, <2>2, <2>3, <2>4, TriggersKept
<1>4. ASSUME i \in Entries, i = job[c].entry, rows'[q].wf \notin job[c].todo
      PROVE  rows'[q].reaped \/ HasRerun(rows', q)
  BY <1>3, <1>4, TriggersKept, RerunStays
<1>5. CASE job'[c] = job[c]
  BY <1>4, <1>5, JobOf
<1>6. CASE job'[c] = NoJob
  BY <1>6 DEF NoJob
<1>7. CASE \E j \in Entries : job'[c] = [entry |-> j, todo |-> Workflows]
  <2>1. i \in Entries'
    BY <1>1, <1>7 DEF StreamGrown
  <2>2. q \in DOMAIN rows'
    BY <1>1, <2>1 DEF QueueInv, QueueTypeOK, StreamTyped
  <2>3. rows'[q] \in RowType
    BY <1>1, <2>2 DEF QueueInv, TableOK, RunsTypeOK
  <2>. QED
    BY <1>7, <2>3 DEF RowType
<1>8. ASSUME NEW w \in Workflows, RunNext(c, w)
      PROVE  rows'[q].reaped \/ HasRerun(rows', q)
  <2>1. job'[c] = [entry |-> job[c].entry, todo |-> job[c].todo \ {w}]
    BY <1>8, RunNextStep
  <2>2. i = job[c].entry /\ i \in Entries /\ job'[c].todo = job[c].todo \ {w}
    BY <1>8, <2>1, RunNextLaunches
  <2>3. CASE rows'[q].wf \notin job[c].todo
    BY <1>4, <2>2, <2>3
  <2>4. CASE rows'[q].wf = w
    <3>1. /\ q = stream[i].of /\ q \in DOMAIN rows /\ rows[q].wf = w
          /\ stream[i].ev = rows[q].ev /\ Retried(q)
      BY <1>3, <2>2, <2>4
    <3>2. CASE rows[q].reaped
      BY <3>1, <3>2, TriggersKept
    <3>3. CASE rows[q].key = NoKey /\ rows[q].status # "suppressed"
      BY <1>8, <2>2, <3>1, <3>3, RunReruns
    <3>. QED
      BY <3>1, <3>2, <3>3 DEF Retried
  <2>. QED
    BY <2>2, <2>3, <2>4
<1>9. CASE /\ job[c].entry \in Entries /\ stream'[job[c].entry].lost
           /\ job'[c].entry = job[c].entry
  BY <1>9
<1>. QED
  BY <1>2, <1>5, <1>6, <1>7, <1>8, <1>9 DEF JobStep

\* An acknowledged republish.
LEMMA HandledKeep ==
    ASSUME QueueInv, RerunInv, [Next]_vars, NEW i \in Entries', Handled(i)',
           NEW q, q = stream'[i].of, ~rows'[q].reaped
    PROVE  HasRerun(rows', q)
<1>1. StreamGrown
  BY QueueInvNext
<1>2. EntryStep(i) /\ stream'[i].state = "acked" /\ ~stream'[i].lost /\ q # 0
  BY QueueSteps DEF Handled
<1>3. i \in Entries
  BY <1>2 DEF EntryStep
<1>4. q = stream[i].of /\ ~stream[i].lost
  BY <1>1, <1>2, <1>3 DEF StreamGrown
<1>5. q \in DOMAIN rows
  BY <1>2, <1>3, <1>4 DEF QueueInv, QueueTypeOK, StreamTyped
<1>6. ~rows[q].reaped
  BY <1>5, TriggersKept
<1>7. HasRerun(rows, q)
  <2>1. CASE stream[i].state = "acked"
    BY <1>2, <1>3, <1>4, <1>6, <2>1 DEF RerunInv, SweptFailureReruns, Handled, RetryDone, HasRerun
  <2>2. CASE \E c \in Consumers : job[c].entry = i /\ job[c].todo = {}
    <3>1. PICK c \in Consumers : job[c].entry = i /\ job[c].todo = {}
      BY <2>2
    <3>2. i # 0
      BY <1>3, <3>1, JobOf
    <3>. QED
      BY <1>2, <1>4, <1>6, <3>1, <3>2 DEF RerunInv, JobReruns
  <2>. QED
    BY <1>2, <1>3, <2>1, <2>2 DEF EntryStep
<1>. QED
  BY <1>5, <1>7, RerunStays

\* Every step keeps the reruns.
LEMMA RerunInvNext ==
    ASSUME FieldsApart, QueueInv, KeyInv, FreedInv, RerunInv,
           [Next]_vars
    PROVE  RerunInv'
<1>1. \A c \in Consumers : JobReruns(c)'
  BY JobsKeep DEF JobReruns
<1>2. SweptFailureReruns'
  <2>. SUFFICES ASSUME NEW i \in Entries', Handled(i)', ~rows'[stream'[i].of].reaped
                PROVE  RetryDone(i)'
    BY DEF SweptFailureReruns
  <2>1. HasRerun(rows', stream'[i].of)
    BY HandledKeep
  <2>. QED
    BY <2>1 DEF RetryDone, HasRerun
<1>3. \A s \in Sweepers : \A q \in sweep'[s].todo : Retried(q)'
  BY SweepsKeep
<1>4. \A i \in Entries' : \A q : q = stream'[i].of /\ q # 0
        => Retried(q)' /\ stream'[i].ev = rows'[q].ev
  BY EntriesKeep
<1>. QED
  BY <1>1, <1>2, <1>3, <1>4 DEF RerunInv, Retried

\* workflowEngine.ts:573-582: once the republish of a failure is acknowledged there
\* is a newer execution of its trigger: the key the failure gave up lets the
\* republish in, whatever crashes, reclaims and other sweeps come between.
THEOREM FailuresRerun ==
    ASSUME NoHandRuns, FieldsApart
    PROVE  Spec => []SweptFailureReruns
<1>1. Init => RerunInv
  BY DEF Init, Entries, NoJob, NoSweep, RerunInv, JobReruns, SweptFailureReruns
<1>2. QueueInv /\ KeyInv /\ FreedInv /\ RerunInv /\ [Next]_vars => RerunInv'
  BY RerunInvNext
<1>3. RerunInv => SweptFailureReruns
  BY DEF RerunInv
<1>. QED
  BY <1>1, <1>2, <1>3, QueueInvAlways, KeyInvAlways, FreedInvAlways, PTL DEF Spec
-----------------------------------------------------------------------------
(* The consumer group.                                                     *)

\* Queue consumers answer no requests and run no timer.
RolesApart == \A c \in Consumers : c \notin Handlers /\ c \notin Timers

\* An entry without a workflow to evaluate would be done as soon as delivered.
SomeWorkflow == Workflows # {}

AtEnd(c) == job[c].entry # 0 /\ job[c].todo = {} /\ IsIdle(c)
BarEntries == [i \in Entries |-> stream[i].state]
BarHold == [c \in Consumers |->
              [at |-> job[c].entry, last |-> job[c].entry, done |-> AtEnd(c)]]

\* What a consumer holds in the group; nothing when it has no job.
LEMMA HoldOf ==
    ASSUME QueueInv, NEW c \in Consumers
    PROVE  /\ BarHold[c] = Group!Holding(job[c].entry, job[c].entry, AtEnd(c))
           /\ job[c] = NoJob <=> BarHold[c] = Group!Nothing
           /\ job[c] = NoJob <=> job[c].entry = 0
<1>1. BarHold[c] = Group!Holding(job[c].entry, job[c].entry, AtEnd(c))
  BY DEF BarHold, Group!Holding
<1>2. job[c] = NoJob <=> job[c].entry = 0
  <2>1. job[c] = NoJob => job[c].entry = 0
    BY DEF NoJob
  <2>2. ASSUME job[c].entry = 0 PROVE job[c] = NoJob
    <3>1. job[c].todo = {} /\ job[c] = [entry |-> job[c].entry, todo |-> job[c].todo]
      BY <2>2, JobOf
    <3>. QED
      BY <2>2, <3>1, Zenon DEF NoJob
  <2>. QED
    BY <2>1, <2>2
<1>3. job[c].entry = 0 => Group!Holding(job[c].entry, job[c].entry, AtEnd(c)) = Group!Nothing
  <2>1. job[c].entry = 0 => AtEnd(c) = FALSE
    BY DEF AtEnd
  <2>. QED
    BY <2>1 DEF Group!Nothing
<1>4. job[c].entry # 0 => Group!Holding(job[c].entry, job[c].entry, AtEnd(c)) # Group!Nothing
  BY DEF Group!Nothing, Group!Holding
<1>. QED
  BY <1>1, <1>2, <1>3, <1>4

\* Adding an entry is the group's Add.
LEMMA AddIsGroup ==
    ASSUME BarEntries' = Append(BarEntries, "new"), BarHold' = BarHold PROVE Group!Add
BY DEF BarEntries, BarHold, AtEnd, Group!Add

\* Handing the oldest new entry out is its Hand, one entry at a time.
LEMMA HandIsGroup ==
    ASSUME NEW c, NEW i, i <= i, BarHold[c] = Group!Nothing, BarEntries[i] = "new",
           \A j \in 1..(i - 1) : BarEntries[j] # "new",
           BarEntries' = [j \in DOMAIN BarEntries |->
             IF j \in i..i THEN "pending" ELSE BarEntries[j]],
           BarHold' = [BarHold EXCEPT ![c] = Group!Holding(i, i, FALSE)]
    PROVE  Group!Hand(c, i, i)
BY DEF BarEntries, BarHold, AtEnd, Group!Hand

\* Reclaiming a pending entry is its HandAgain.
LEMMA AgainIsGroup ==
    ASSUME NEW c, NEW i, BarHold[c] = Group!Nothing, BarEntries[i] = "pending",
           BarHold' = [BarHold EXCEPT ![c] = Group!Holding(i, i, FALSE)], BarEntries' = BarEntries
    PROVE  Group!HandAgain(c, i)
BY DEF BarEntries, BarHold, AtEnd, Group!HandAgain

\* Coming to the end of the loop over the workflows is its Finish.
LEMMA FinishIsGroup ==
    ASSUME NEW c, BarHold[c] # Group!Nothing, ~BarHold[c].done, BarEntries' = BarEntries,
           BarHold' = [BarHold EXCEPT ![c] = Group!Holding(BarHold[c].at, BarHold[c].last, TRUE)]
    PROVE  Group!Finish(c)
BY DEF BarEntries, BarHold, AtEnd, Group!Finish

\* The acknowledgement is its Settle.
LEMMA SettleIsGroup ==
    ASSUME NEW c, BarHold[c] # Group!Nothing, BarHold[c].done,
           BarEntries' = [BarEntries EXCEPT ![BarHold[c].at] = "acked"],
           BarHold' = [BarHold EXCEPT ![c] = Group!AfterSettling(BarHold[c])]
    PROVE  Group!Settle(c)
BY DEF BarEntries, BarHold, AtEnd, Group!Settle

\* A crash is its Drop.
LEMMA DropIsGroup ==
    ASSUME NEW c, BarHold[c] # Group!Nothing, BarHold' = [BarHold EXCEPT ![c] = Group!Nothing],
           BarEntries' = BarEntries
    PROVE  Group!Drop(c)
BY DEF BarEntries, BarHold, AtEnd, Group!Drop

\* Everything else is not the group's business.
LEMMA StutterIsGroup ==
    ASSUME BarEntries' = BarEntries, BarHold' = BarHold PROVE UNCHANGED Group!groupVars
BY DEF BarEntries, BarHold, AtEnd, Group!groupVars

\* A step of the group by one of the consumers.
LEMMA ConsumerIsGroup ==
    ASSUME NEW c \in Consumers,
           \/ \E i \in DOMAIN BarEntries : Group!Hand(c, i, i)
           \/ \E i \in DOMAIN BarEntries : Group!HandAgain(c, i)
           \/ Group!Finish(c) \/ Group!Settle(c) \/ Group!Drop(c)
    PROVE  Group!GroupNext
BY DEF BarEntries, Group!GroupNext

\* One consumer's job is written, or it comes to rest.
LEMMA HoldSet ==
    ASSUME QueueInv, QueueInv', NEW c \in Consumers,
           \A d \in Consumers \ {c} : job'[d] = job[d] /\ runner'[d] = runner[d]
    PROVE  BarHold' = [BarHold EXCEPT
             ![c] = Group!Holding(job'[c].entry, job'[c].entry, AtEnd(c)')]
<1>. DEFINE Bar(d) == [at |-> job[d].entry, last |-> job[d].entry, done |-> AtEnd(d)]
<1>1. \A d \in Consumers \ {c} : Bar(d)' = Bar(d)
  BY DEF AtEnd, IsIdle
<1>2. Bar(c)' = Group!Holding(job'[c].entry, job'[c].entry, AtEnd(c)')
  BY DEF Group!Holding
<1>3. BarHold = [d \in Consumers |-> Bar(d)] /\ BarHold' = [d \in Consumers |-> Bar(d)']
  BY DEF BarHold
<1>. HIDE DEF Bar
<1>. QED
  BY <1>1, <1>2, <1>3

\* No delivery state changes.
LEMMA EntriesSame ==
    ASSUME Entries' = Entries, \A k \in Entries : stream'[k].state = stream[k].state
    PROVE  BarEntries' = BarEntries
BY DEF BarEntries

\* A consumer gets on with its entry and comes to its end, or does not yet.
LEMMA WorkIsGroup ==
    ASSUME QueueInv, QueueInv', NEW c \in Consumers,
           \A d \in Consumers \ {c} : job'[d] = job[d] /\ runner'[d] = runner[d],
           job'[c].entry = job[c].entry, ~AtEnd(c), BarEntries' = BarEntries
    PROVE  Group!GroupNext \/ UNCHANGED Group!groupVars
<1>1. BarHold' = [BarHold EXCEPT ![c] = Group!Holding(job[c].entry, job[c].entry, AtEnd(c)')]
  BY HoldSet
<1>2. BarHold[c] = Group!Holding(job[c].entry, job[c].entry, AtEnd(c))
  BY HoldOf
<1>3. CASE AtEnd(c)'
  <2>1. AtEnd(c)' = TRUE /\ AtEnd(c) = FALSE /\ job[c].entry # 0
    BY <1>3 DEF AtEnd
  <2>2. BarHold[c] # Group!Nothing
    BY <2>1, HoldOf
  <2>3. ~BarHold[c].done /\ BarHold[c].at = job[c].entry /\ BarHold[c].last = job[c].entry
    BY <1>2, <2>1 DEF Group!Holding
  <2>4. BarHold' = [BarHold EXCEPT ![c] = Group!Holding(BarHold[c].at, BarHold[c].last, TRUE)]
    BY <1>1, <2>1, <2>3
  <2>5. Group!Finish(c)
    BY <2>2, <2>3, <2>4, FinishIsGroup
  <2>. QED
    BY <2>5, ConsumerIsGroup
<1>4. CASE ~AtEnd(c)'
  <2>1. AtEnd(c)' = FALSE /\ AtEnd(c) = FALSE
    BY <1>4 DEF AtEnd
  <2>2. BarHold' = [BarHold EXCEPT ![c] = BarHold[c]]
    BY <1>1, <1>2, <2>1
  <2>3. BarHold' = BarHold
    BY <2>2 DEF BarHold
  <2>. QED
    BY <2>3, StutterIsGroup
<1>. QED
  BY <1>3, <1>4

\* An entry is published.
LEMMA EnqueueAdds ==
    ASSUME QueueInv, NEW e \in Events, NEW r \in DOMAIN rows \union {0}, Enqueue(e, r),
           job' = job, runner' = runner
    PROVE  Group!GroupNext
<1>. DEFINE n == Len(stream)
            Marks == {"new", "pending", "acked"}
<1>1. /\ Entries' = Entries \union {n + 1} /\ stream'[n + 1] = NewEntry(e, r)
      /\ \A k \in Entries : stream'[k] = stream[k]
  BY EntryAdded
<1>2. Entries = 1..n /\ n \in Nat /\ \A k \in Entries : stream[k] \in EntryType
  BY DEF QueueInv, QueueTypeOK, StreamTyped, Entries
<1>3. \A k \in Entries : stream[k].state \in Marks
  BY <1>2 DEF EntryType
<1>. HIDE DEF n
<1>4. BarEntries = [k \in 1..n |-> stream[k].state] /\ BarEntries \in Seq(Marks)
  <2>1. BarEntries = [k \in 1..n |-> stream[k].state]
    BY <1>2 DEF BarEntries
  <2>. QED
    BY <1>2, <1>3, <2>1
<1>5. BarEntries' = [k \in 1..(n + 1) |-> IF k = n + 1 THEN "new" ELSE stream[k].state]
  <2>1. Entries' = 1..(n + 1)
    BY <1>1, <1>2
  <2>2. \A k \in 1..(n + 1) : k = n + 1 \/ k \in Entries
    BY <1>2
  <2>3. NewEntry(e, r).state = "new"
    BY DEF NewEntry
  <2>. QED
    BY <1>1, <2>1, <2>2, <2>3 DEF BarEntries
<1>6. Len(BarEntries) = n
  BY <1>2, <1>4
<1>7. Append(BarEntries, "new") = BarEntries'
  <2>1. Append(BarEntries, "new") =
          [k \in 1..(n + 1) |-> IF k = n + 1 THEN "new" ELSE BarEntries[k]]
    BY <1>2, <1>4, <1>6
  <2>. QED
    BY <1>2, <1>4, <1>5, <2>1
<1>8. BarHold' = BarHold
  BY DEF BarHold, AtEnd, IsIdle
<1>9. Group!Add
  BY <1>7, <1>8, AddIsGroup
<1>. QED
  BY <1>9 DEF Group!GroupNext

\* An entry is delivered or reclaimed.
LEMMA DeliverHands ==
    ASSUME SomeWorkflow, QueueInv, QueueInv', NEW c \in Consumers, NEW i \in Entries,
           Deliver(c, i) \/ Reclaim(c, i)
    PROVE  Group!GroupNext
<1>1. /\ job[c] = NoJob /\ runner' = runner
      /\ job' = [job EXCEPT ![c] = [entry |-> i, todo |-> Workflows]]
  BY DEF Deliver, Reclaim, Take, runVars
<1>2. BarHold[c] = Group!Nothing
  BY <1>1, HoldOf
<1>3. /\ job'[c].entry = i /\ job'[c].todo = Workflows
      /\ \A d \in Consumers \ {c} : job'[d] = job[d] /\ runner'[d] = runner[d]
  BY <1>1 DEF QueueInv, QueueTypeOK, JobsTyped
<1>4. AtEnd(c)' = FALSE
  BY <1>3 DEF AtEnd, SomeWorkflow
<1>5. BarHold' = [BarHold EXCEPT ![c] = Group!Holding(i, i, FALSE)]
  BY <1>3, <1>4, HoldSet
<1>6. i \in DOMAIN BarEntries /\ i \in Nat /\ stream \in Seq(EntryType)
  BY JobOf DEF BarEntries, QueueInv, QueueTypeOK, StreamTyped
<1>7. CASE Deliver(c, i)
  <2>1. /\ stream[i].state = "new" /\ \A j \in 1..(i - 1) : stream[j].state # "new"
        /\ stream' = [stream EXCEPT ![i] = [stream[i] EXCEPT !.state = "pending"]]
    BY <1>7 DEF Deliver
  <2>2. BarEntries[i] = "new" /\ \A j \in 1..(i - 1) : BarEntries[j] # "new"
    BY <1>6, <2>1 DEF BarEntries, Entries
  <2>3. [stream[i] EXCEPT !.state = "pending"].state = "pending"
    BY <1>6 DEF Entries, EntryType
  <2>4. /\ Entries' = Entries /\ stream'[i].state = "pending"
        /\ \A j \in Entries \ {i} : stream'[j] = stream[j]
    BY <1>6, <2>1, <2>3 DEF Entries
  <2>5. \A j \in Entries : j \in i..i <=> j = i
    BY <1>6, JobOf
  <2>6. BarEntries' = [j \in DOMAIN BarEntries |->
          IF j \in i..i THEN "pending" ELSE BarEntries[j]]
    BY <2>4, <2>5 DEF BarEntries
  <2>7. i <= i
    BY <1>6
  <2>8. Group!Hand(c, i, i)
    BY <1>2, <1>5, <2>2, <2>6, <2>7, HandIsGroup
  <2>. QED
    BY <1>6, <2>8, ConsumerIsGroup
<1>8. CASE Reclaim(c, i)
  <2>1. stream[i].state = "pending" /\ stream' = stream
    BY <1>8 DEF Reclaim
  <2>2. BarEntries[i] = "pending" /\ BarEntries' = BarEntries
    BY <2>1 DEF BarEntries, Entries
  <2>3. Group!HandAgain(c, i)
    BY <1>2, <1>5, <2>2, AgainIsGroup
  <2>. QED
    BY <1>6, <2>3, ConsumerIsGroup
<1>. QED
  BY <1>7, <1>8

\* An entry is acknowledged.
LEMMA AckSettles ==
    ASSUME QueueInv, QueueInv', NEW c \in Consumers, Ack(c) PROVE Group!GroupNext
<1>. DEFINE i == job[c].entry
            x == [stream[i] EXCEPT !.state = "acked"]
<1>1. /\ i \in Entries /\ stream' = [stream EXCEPT ![i] = x] /\ job'[c] = NoJob
      /\ runner' = runner /\ \A d \in Consumers \ {c} : job'[d] = job[d]
  BY AckStep DEF Ack, runVars
<1>2. AtEnd(c) = TRUE /\ i # 0
  BY DEF Ack, AtEnd
<1>3. BarHold[c] = Group!Holding(i, i, TRUE)
  BY <1>2, HoldOf
<1>4. /\ BarHold[c] # Group!Nothing /\ BarHold[c].done /\ BarHold[c].at = i
      /\ Group!AfterSettling(BarHold[c]) = Group!Nothing
  <2>1. i \in Nat
    BY <1>1, JobOf
  <2>. HIDE DEF i
  <2>. QED
    BY <1>2, <1>3, <2>1 DEF Group!Holding, Group!Nothing, Group!AfterSettling
<1>5. BarHold' = [BarHold EXCEPT ![c] = Group!Nothing]
  <2>1. job'[c].entry = 0 /\ AtEnd(c)' = FALSE
    BY <1>1 DEF NoJob, AtEnd
  <2>. QED
    BY <1>1, <2>1, HoldSet DEF Group!Nothing
<1>6. BarEntries' = [BarEntries EXCEPT ![i] = "acked"]
  <2>. HIDE DEF i
  <2>1. stream \in Seq(EntryType)
    BY DEF QueueInv, QueueTypeOK, StreamTyped
  <2>2. x.state = "acked"
    BY <1>1, <2>1 DEF EntryType, Entries
  <2>. HIDE DEF x
  <2>3. /\ Entries' = Entries /\ stream'[i].state = "acked"
        /\ \A j \in Entries \ {i} : stream'[j] = stream[j]
    BY <1>1, <2>1, <2>2 DEF Entries
  <2>. QED
    BY <2>3 DEF BarEntries
<1>7. Group!Settle(c)
  BY <1>4, <1>5, <1>6, SettleIsGroup
<1>. QED
  BY <1>7, ConsumerIsGroup

\* A consumer's process dies.
LEMMA CrashDrops ==
    ASSUME QueueInv, QueueInv', NEW c \in Consumers, Crash(c) PROVE Group!GroupNext
<1>1. /\ stream' = stream /\ job'[c] = NoJob /\ job[c] # NoJob
      /\ \A d \in Consumers \ {c} : job'[d] = job[d] /\ runner'[d] = runner[d]
  BY CrashStep DEF Crash, Goto, QueueInv, TableOK, RunsTypeOK, Runners
<1>2. BarHold[c] # Group!Nothing
  BY <1>1, HoldOf
<1>3. BarHold' = [BarHold EXCEPT ![c] = Group!Nothing]
  <2>1. job'[c].entry = 0 /\ AtEnd(c)' = FALSE
    BY <1>1 DEF NoJob, AtEnd
  <2>. QED
    BY <1>1, <2>1, HoldSet DEF Group!Nothing
<1>4. BarEntries' = BarEntries
  BY <1>1 DEF BarEntries, Entries
<1>5. Group!Drop(c)
  BY <1>2, <1>3, <1>4, DropIsGroup
<1>. QED
  BY <1>5, ConsumerIsGroup

\* A workflow is evaluated, or fails to be.
LEMMA EvaluationIsGroup ==
    ASSUME QueueInv, QueueInv', NEW c \in Consumers,
           EvaluationThrows(c) \/ \E w \in Workflows : RunNext(c, w)
    PROVE  Group!GroupNext \/ UNCHANGED Group!groupVars
<1>1. ~AtEnd(c)
  BY DEF EvaluationThrows, RunNext, AtEnd
<1>2. CASE EvaluationThrows(c)
  <2>. DEFINE i == job[c].entry
              x == [stream[i] EXCEPT !.lost = TRUE]
  <2>1. /\ i \in Entries /\ stream' = [stream EXCEPT ![i] = [@ EXCEPT !.lost = TRUE]]
        /\ \E todo \in SUBSET job[c].todo : job'[c] = [entry |-> i, todo |-> todo]
        /\ \A d \in Consumers \ {c} : job'[d] = job[d]
    BY <1>2, ThrowStep
  <2>2. stream' = [stream EXCEPT ![i] = x] /\ job'[c].entry = i /\ runner' = runner
    BY <1>2, <2>1 DEF EvaluationThrows
  <2>3. BarEntries' = BarEntries
    <3>. HIDE DEF i
    <3>1. stream \in Seq(EntryType)
      BY DEF QueueInv, QueueTypeOK, StreamTyped
    <3>2. x.state = stream[i].state
      BY <2>1, <3>1 DEF EntryType, Entries
    <3>. HIDE DEF x
    <3>3. Entries' = Entries /\ \A j \in Entries : stream'[j].state = stream[j].state
      BY <2>1, <2>2, <3>1, <3>2 DEF Entries
    <3>. QED
      BY <3>3, EntriesSame
  <2>. QED
    BY <1>1, <2>1, <2>2, <2>3, WorkIsGroup
<1>3. ASSUME NEW w \in Workflows, RunNext(c, w)
      PROVE  Group!GroupNext \/ UNCHANGED Group!groupVars
  <2>1. /\ stream' = stream /\ job'[c].entry = job[c].entry
        /\ \A d \in Consumers \ {c} : job'[d] = job[d]
    <3>1. /\ stream' = stream /\ \A d \in Consumers \ {c} : job'[d] = job[d]
          /\ job'[c] = [entry |-> job[c].entry, todo |-> job[c].todo \ {w}]
      BY <1>3, RunNextStep
    <3>. QED
      BY <3>1
  <2>2. \A d \in Consumers \ {c} : runner'[d] = runner[d]
    BY <1>3 DEF RunNext, Launch, Insert, Suppress, Goto, QueueInv, TableOK, RunsTypeOK, Runners
  <2>3. BarEntries' = BarEntries
    BY <2>1 DEF BarEntries, Entries
  <2>. QED
    BY <1>1, <2>1, <2>2, <2>3, WorkIsGroup
<1>. QED
  BY <1>2, <1>3

\* A run gets on: only a consumer's own run concerns the group, when it ends.
LEMMA RunIsGroup ==
    ASSUME RolesApart, QueueInv, QueueInv', RunsNext, UNCHANGED queueVars
    PROVE  Group!GroupNext \/ UNCHANGED Group!groupVars
<1>1. stream' = stream /\ job' = job /\ runner \in [Runners -> RunnerType]
  BY DEF queueVars, QueueInv, TableOK, RunsTypeOK
<1>2. BarEntries' = BarEntries
  BY <1>1 DEF BarEntries, Entries
<1>3. ASSUME \A d \in Consumers : runner'[d] = runner[d]
      PROVE  UNCHANGED Group!groupVars
  <2>1. BarHold' = BarHold
    BY <1>1, <1>3 DEF BarHold, AtEnd, IsIdle
  <2>. QED
    BY <1>2, <2>1, StutterIsGroup
<1>4. ASSUME NEW p \in Runners, RunStep(p) \/ Abandon(p)
      PROVE  Group!GroupNext \/ UNCHANGED Group!groupVars
  <2>1. ~IsIdle(p) /\ \E state : Goto(p, state)
    <3>1. runner[p].pc # "idle" \/ Abandon(p)
      BY <1>4 DEF RunStep, Finalize, ReadAttempt, StampFailure, PersistPause, InsertApproval, Ends
    <3>2. \E state : Goto(p, state)
      <4>1. CASE RunStep(p)
        BY <4>1 DEF RunStep, Finalize, ReadAttempt, StampFailure, PersistPause, InsertApproval
      <4>2. CASE Abandon(p)
        BY <4>2 DEF Abandon
      <4>. QED
        BY <1>4, <4>1, <4>2
    <3>. QED
      BY <3>1, <3>2 DEF IsIdle, Idle, At, Abandon
  <2>2. \A d \in Consumers \ {p} : runner'[d] = runner[d]
    BY <1>1, <2>1 DEF Goto, Runners
  <2>3. CASE p \in Consumers
    <3>1. ~AtEnd(p)
      BY <2>1 DEF AtEnd
    <3>. QED
      BY <1>1, <1>2, <2>2, <2>3, <3>1, WorkIsGroup
  <2>4. CASE p \notin Consumers
    BY <1>3, <2>2, <2>4
  <2>. QED
    BY <2>3, <2>4
<1>5. ASSUME NEW h \in Handlers, HandlerStep(h)
      PROVE  UNCHANGED Group!groupVars
  <2>1. runner' = runner \/ \E state : Goto(h, state)
    BY <1>5
    DEF HandlerStep, RunByHand, Click, Decide, Launch, Insert, Suppress
  <2>. QED
    BY <1>1, <1>3, <2>1 DEF Goto, Runners, RolesApart
<1>6. ASSUME NEW t \in Timers, NEW r \in DOMAIN rows, ClaimDelayed(t, r)
      PROVE  UNCHANGED Group!groupVars
  <2>1. \E state : Goto(t, state)
    BY <1>6 DEF ClaimDelayed
  <2>. QED
    BY <1>1, <1>3, <2>1 DEF Goto, Runners, RolesApart
<1>. QED
  BY <1>4, <1>5, <1>6 DEF RunsNext

\* A sweep, the reaper and time do not concern the group, except for a republish.
LEMMA SweepIsGroup ==
    ASSUME QueueInv, QueueInv', NEW s \in Sweepers, SweeperOther(s)
    PROVE  Group!GroupNext \/ UNCHANGED Group!groupVars
<1>1. ASSUME NEW r \in DOMAIN rows, Republish(s, r) PROVE Group!GroupNext
  <2>1. rows[r] \in RowType /\ job' = job /\ runner' = runner /\ Enqueue(rows[r].ev, r)
    BY <1>1 DEF Republish, runVars, QueueInv, TableOK, RunsTypeOK
  <2>. QED
    BY <2>1, EnqueueAdds DEF RowType
<1>2. CASE UNCHANGED <<stream, job, runner>>
  BY <1>2, StutterIsGroup DEF BarEntries, BarHold, AtEnd, IsIdle, Entries
<1>3. CASE \A r \in DOMAIN rows : ~Republish(s, r)
  <2>1. UNCHANGED <<stream, job, runner>>
    BY <1>3 DEF SweeperOther, SelectDue, PublishUnavailable, ClearRetry, SweepFails, ReapStep,
         SelectStuck, Reap, runVars
  <2>. QED
    BY <1>2, <2>1
<1>. QED
  BY <1>1, <1>3

\* The trigger queue implements the consumer group: whatever crashes, reclaims, sweeps
\* and reaps happen, entries are handed out in order and acknowledged only by a
\* consumer whose last run for the entry is over.
THEOREM QueueImplementsGroup ==
    ASSUME RolesApart, SomeWorkflow
    PROVE  Spec => Group!GroupSafety
<1>1. Init => Group!GroupInit
  <2>. SUFFICES ASSUME Init PROVE Group!GroupInit
    OBVIOUS
  <2>1. BarEntries = <<>>
    BY DEF Init, BarEntries, Entries
  <2>2. \A c \in Consumers : BarHold[c] = Group!Nothing
    BY QueueInvInit, HoldOf DEF Init
  <2>3. BarHold = [c \in Consumers |-> Group!Nothing]
    BY <2>2 DEF BarHold
  <2>. QED
    BY <2>1, <2>3 DEF BarEntries, BarHold, AtEnd, Group!GroupInit
<1>2. QueueInv /\ QueueInv' /\ [Next]_vars => [Group!GroupNext]_Group!groupVars
  <2>. SUFFICES ASSUME QueueInv, QueueInv', [Next]_vars
                PROVE  Group!GroupNext \/ UNCHANGED Group!groupVars
    OBVIOUS
  <2>1. ASSUME NEW e \in Events, Publish(e) PROVE Group!GroupNext
    <3>1. Enqueue(e, 0) /\ job' = job /\ runner' = runner
      BY <2>1 DEF Publish, runVars
    <3>. QED
      BY <3>1, EnqueueAdds
  <2>2. ASSUME UNCHANGED <<stream, job, runner>> PROVE UNCHANGED Group!groupVars
    BY <2>2, StutterIsGroup DEF BarEntries, BarHold, AtEnd, IsIdle, Entries
  <2>3. ASSUME NEW c \in Consumers, ConsumerStep(c) \/ EvaluationThrows(c) \/ Crash(c)
        PROVE  Group!GroupNext \/ UNCHANGED Group!groupVars
    BY <2>3, DeliverHands, AckSettles, CrashDrops, EvaluationIsGroup DEF ConsumerStep
  <2>4. ASSUME NEW s \in Sweepers, SweepStep(s) \/ SweepFails(s) \/ ReapStep(s)
        PROVE  Group!GroupNext \/ UNCHANGED Group!groupVars
    BY <2>4, SweepIsGroup DEF SweepStep, SweeperOther
  <2>5. ASSUME NEW r \in DOMAIN rows, Age(r) PROVE UNCHANGED Group!groupVars
    <3>1. UNCHANGED <<stream, job, runner>>
      BY <2>5 DEF Age, queueVars
    <3>. QED
      BY <2>2, <3>1
  <2>6. CASE UNCHANGED vars
    BY <2>2, <2>6 DEF vars, runVars, queueVars
  <2>. QED
    BY <2>1, <2>3, <2>4, <2>5, <2>6, RunIsGroup DEF Next
<1>. QED
  BY <1>1, <1>2, QueueInvAlways, PTL DEF Spec, Group!GroupSafety
-----------------------------------------------------------------------------
(* How the table changes, whoever decides.                                 *)

\* Nothing the queue tells apart changes, or a retry mark goes.
Quiet(row, new) ==
    SameRun(row, new) /\ new.key = row.key /\ new.status = row.status /\ (new.retry => row.retry)

\* A run gets on or ends well,
Worked(row, new) ==
    /\ SameRun(row, new) /\ new.key = row.key
    /\ new.status \in {"executing", "waiting", "completed", "skipped"}

\* ends badly and gives its key up if it is to be retried,
Failed(row, new) ==
    /\ SameRun(row, new) /\ new.status = "failed" /\ new.key \in {row.key, NoKey}
    /\ new.retry => new.key = NoKey

\* or is given up by the reaper, which leaves it its key.
GivenUp(row, new) ==
    SameRun(row, new) /\ row.status = "executing" /\ Reaped(new) /\ new.key = row.key

RowStep(r) ==
    \/ rows[r].late /\ SameRun(rows[r], rows'[r])
    \/ Quiet(rows[r], rows'[r])
    \/ Worked(rows[r], rows'[r]) /\ (Taken(r) \/ rows[r].status = "waiting")
    \/ Failed(rows[r], rows'[r]) /\ Taken(r) /\ ~Taken(r)'
    \/ GivenUp(rows[r], rows'[r])

TableRewritten ==
    /\ rows' \in Seq(RowType) /\ DOMAIN rows' = DOMAIN rows
    /\ \A r \in DOMAIN rows : RowStep(r)

\* A process works on the row it worked on before, on one that waited or on one
\* that a late decision marked.
RunnersMove ==
    \A p \in Runners : \A r \in DOMAIN rows :
        Works(p, r)' => Works(p, r) \/ rows[r].status = "waiting" \/ rows'[r].late

\* One row is rewritten.
LEMMA RowSet ==
    ASSUME RunsInv, NEW r \in DOMAIN rows, NEW x \in RowType, rows' = [rows EXCEPT ![r] = x],
           \/ rows[r].late /\ SameRun(rows[r], x)
           \/ Quiet(rows[r], x)
           \/ Worked(rows[r], x) /\ (Taken(r) \/ rows[r].status = "waiting")
           \/ Failed(rows[r], x) /\ Taken(r) /\ ~Taken(r)'
           \/ GivenUp(rows[r], x)
    PROVE  TableRewritten
<1>1. rows \in Seq(RowType)
  BY DEF RunsInv, RunsTypeOK
<1>2. rows' \in Seq(RowType) /\ DOMAIN rows' = DOMAIN rows /\ rows'[r] = x
      /\ \A q \in DOMAIN rows \ {r} : rows'[q] = rows[q]
  BY <1>1
<1>3. \A q \in DOMAIN rows \ {r} : RowStep(q)
  BY <1>2, Zenon DEF RowStep, Quiet, SameRun
<1>4. RowStep(r)
  BY <1>2 DEF RowStep
<1>. QED
  BY <1>2, <1>3, <1>4 DEF TableRewritten

\* No row is.
LEMMA RowsKept ==
    ASSUME RunsInv, rows' = rows
    PROVE  TableRewritten
<1>1. \A q \in DOMAIN rows : RowStep(q)
  BY Zenon DEF RowStep, Quiet, SameRun
<1>. QED
  BY <1>1 DEF TableRewritten, RunsInv, RunsTypeOK

\* One process moves.
LEMMA RunnerMoves ==
    ASSUME RunsInv, NEW p \in Runners, NEW state, Goto(p, state),
           \/ ~Working(state) \/ Works(p, state.row)
           \/ /\ state.row \in DOMAIN rows
              /\ rows[state.row].status = "waiting" \/ rows'[state.row].late
    PROVE  RunnersMove /\ (~Working(state) => \A r : ~Works(p, r)')
<1>1. runner'[p] = state /\ \A q \in Runners \ {p} : runner'[q] = runner[q]
  BY DEF Goto, RunsInv, RunsTypeOK
<1>. QED
  BY <1>1 DEF RunnersMove, Works, Row

\* A process that goes idle leaves its row to nobody, unless a decision came late.
LEMMA RowFreed ==
    ASSUME RunsInv, NEW p \in Runners, NEW r, Works(p, r), Goto(p, Idle)
    PROVE  Taken(r) /\ (rows[r].late \/ ~Taken(r)') /\ RunnersMove
<1>1. runner'[p] = Idle /\ \A q \in Runners \ {p} : runner'[q] = runner[q]
  BY DEF Goto, RunsInv, RunsTypeOK
<1>3. RunnersMove
  BY Zenon, RunnerMoves, States
<1>2. ASSUME ~rows[r].late, NEW q \in Runners, Works(q, r)' PROVE FALSE
  <2>1. q # p
    BY <1>1, <1>2, States DEF Works
  <2>2. Works(q, r)
    BY <1>1, <1>2, <2>1 DEF Works, Row
  <2>. QED
    BY <1>2, <2>1, <2>2 DEF Works, RunsInv, RowsApart
<1>. QED
  BY <1>2, <1>3 DEF Taken
-----------------------------------------------------------------------------
(* The steps of WorkflowRuns, seen from the table.                         *)

\* A row the process works on.
LEMMA OwnRowTaken ==
    ASSUME RunsInv, NEW p \in Runners, Working(runner[p])
    PROVE  /\ ~IsIdle(p) /\ Works(p, Row(p)) /\ Taken(Row(p))
           /\ Row(p) \in DOMAIN rows /\ rows[Row(p)] \in RowType
<1>1. ~IsIdle(p)
  BY Busy DEF Working
<1>. QED
  BY <1>1, OwnRow DEF Works, Taken

\* The UPDATE of a finished run.
LEMMA FinalizeTable ==
    ASSUME RunsInv, NEW p \in Runners, Finalize(p)
    PROVE  TableRewritten /\ RunnersMove
<1>1. PICK res \in {"completed", "skipped"} : Ends(p, res) /\ EndRow(Row(p), res)
  BY DEF Finalize
<1>2. Working(runner[p])
  BY <1>1 DEF Ends, Working
<1>. DEFINE r == Row(p)
            row == rows[r]
            x == [row EXCEPT !.status = res]
<1>3. x \in RowType /\ Worked(row, x)
  <2>1. row \in RowType
    BY <1>2, OwnRowTaken
  <2>. HIDE DEF row
  <2>. QED
    BY <2>1 DEF RowType, Worked, SameRun
<1>4. rows' = [rows EXCEPT ![r] = x]
  BY <1>1 DEF EndRow
<1>. HIDE DEF x
<1>. QED
  BY <1>2, <1>3, <1>4, OwnRowTaken, RowSet, RowFreed DEF Finalize

\* The UPDATE of a failed one.
LEMMA StampTable ==
    ASSUME RunsInv, NEW p \in Runners, StampFailure(p)
    PROVE  TableRewritten /\ RunnersMove
<1>1. Working(runner[p])
  BY DEF StampFailure, Working
<1>. DEFINE r == Row(p)
            row == rows[r]
            n == runner[p].attempt
            x == FailedRow(row, n)
<1>2. row \in RowType /\ n \in 0..MaxAttempts
  BY <1>1, OwnRow, OwnRowTaken DEF RunnerType
<1>3. x \in RowType /\ Failed(row, x)
  <2>. HIDE DEF row, n
  <2>1. x \in RowType
    BY <1>2, StampedRow
  <2>2. CASE n < MaxAttempts
    BY <1>2, <2>1, <2>2 DEF Failed, FailedRow, Stamped, RowType, SameRun
  <2>3. CASE ~(n < MaxAttempts)
    BY <1>2, <2>1, <2>3 DEF Failed, FailedRow, Stamped, RowType, SameRun
  <2>. QED
    BY <2>1, <2>2, <2>3
<1>4. rows' = [rows EXCEPT ![r] = x] /\ Goto(p, Idle)
  BY DEF StampFailure
<1>. HIDE DEF x
<1>5. PICK q \in DOMAIN rows : q = r
  BY <1>1, OwnRowTaken
<1>6. Taken(q) /\ RunnersMove /\ (row.late \/ ~Taken(q)')
  BY <1>1, <1>4, <1>5, OwnRowTaken, RowFreed
<1>7. SameRun(row, x) /\ rows' = [rows EXCEPT ![q] = x] /\ row = rows[q]
  BY <1>3, <1>4, <1>5 DEF Failed
<1>. HIDE DEF row
<1>. QED
  BY <1>3, <1>6, <1>7, RowSet

\* The UPDATE of a paused one.
LEMMA PauseTable ==
    ASSUME RunsInv, NEW p \in Runners, PersistPause(p)
    PROVE  TableRewritten /\ RunnersMove
<1>1. PICK res \in Pauses :
        /\ Ends(p, res)
        /\ rows' = [rows EXCEPT ![Row(p)] = [@ EXCEPT !.status = "waiting", !.wait = res]]
        /\ Goto(p, IF res = "approval" THEN At("gate", Row(p), "none") ELSE Idle)
  BY DEF PersistPause
<1>2. Working(runner[p])
  BY <1>1 DEF Ends, Working
<1>. DEFINE r == Row(p)
            row == rows[r]
            x == [row EXCEPT !.status = "waiting", !.wait = res]
            state == IF res = "approval" THEN At("gate", r, "none") ELSE Idle
<1>3. x \in RowType /\ Worked(row, x)
  <2>1. row \in RowType
    BY <1>2, OwnRowTaken
  <2>. HIDE DEF row
  <2>. QED
    BY <2>1 DEF RowType, Worked, SameRun
<1>4. rows' = [rows EXCEPT ![r] = x] /\ Goto(p, state)
  BY <1>1
<1>5. ~Working(state) \/ state.row = r
  BY States DEF At
<1>. HIDE DEF x, state
<1>. QED
  BY <1>2, <1>3, <1>4, <1>5, OwnRowTaken, RowSet, RunnerMoves

\* The INSERT of an approval.
LEMMA ApprovalTable ==
    ASSUME RunsInv, NEW p \in Runners, InsertApproval(p)
    PROVE  TableRewritten /\ RunnersMove
<1>. DEFINE r == Row(p)
            row == rows[r]
            x == [row EXCEPT !.approval = "pending"]
<1>1. Working(runner[p]) /\ Goto(p, Idle)
  BY DEF InsertApproval, Working
<1>2. x \in RowType /\ Quiet(row, x)
  <2>1. row \in RowType
    BY <1>1, OwnRowTaken
  <2>. HIDE DEF row
  <2>. QED
    BY <2>1 DEF RowType, Quiet, SameRun
<1>3. rows' = [rows EXCEPT ![r] = x]
  BY DEF InsertApproval
<1>. HIDE DEF x
<1>. QED
  BY <1>1, <1>2, <1>3, OwnRowTaken, RowSet, RunnerMoves, States

\* A decision settles a pending approval of a row that waits, or marks the row.
LEMMA DecideTable ==
    ASSUME RunsInv, NEW h \in Handlers, Decide(h)
    PROVE  TableRewritten /\ RunnersMove
<1>. DEFINE d == runner[h].res
            r == Row(h)
            row == rows[r]
            x == Settle(row, d)
            state == IF d = "approved" THEN At("running", r, "none")
                     ELSE At("ended", r, "skipped")
<1>1. h \in Runners /\ ~IsIdle(h) /\ runner[h].pc = "deciding" /\ Goto(h, state)
  BY Busy DEF Decide, Runners
<1>2. r \in DOMAIN rows /\ row \in RowType /\ d \in {"approved", "rejected"}
  BY <1>1, OwnRow DEF Decides
<1>3. rows' = [rows EXCEPT ![r] = x] /\ state.row = r
  BY DEF Decide, At
<1>4. x \in RowType /\ Quiet(row, x)
  <2>. HIDE DEF row, d
  <2>1. CASE row.approval = "pending"
    BY <1>2, <2>1 DEF Settle, RowType, Quiet, SameRun
  <2>2. CASE row.approval # "pending"
    BY <1>2, <2>2 DEF Settle, RowType, Quiet, SameRun
  <2>. QED
    BY <2>1, <2>2
<1>5. row.status = "waiting" \/ x.late
  <2>1. ~x.late => row.approval = "pending" /\ ~row.late
    <3>. HIDE DEF row, d
    <3>. QED
      BY <1>2, SettledRow
  <2>. HIDE DEF x
  <2>. QED
    BY <1>2, <2>1 DEF RunsInv, ApprovalsMatch, ApprovalMatches, ForApproval
<1>. HIDE DEF x, state
<1>6. rows'[r] = x
  BY <1>2, <1>3 DEF RunsInv, RunsTypeOK
<1>. QED
  BY <1>1, <1>2, <1>3, <1>4, <1>5, <1>6, RowSet, RunnerMoves

\* The claim of a delayed row.
LEMMA ClaimTable ==
    ASSUME RunsInv, NEW t \in Timers, NEW r \in DOMAIN rows, ClaimDelayed(t, r)
    PROVE  TableRewritten /\ RunnersMove
<1>. DEFINE row == rows[r]
            x == [row EXCEPT !.status = "executing"]
            state == At("running", r, "none")
<1>1. t \in Runners /\ rows[r].status = "waiting" /\ row \in RowType
  BY DEF ClaimDelayed, Runners, RunsInv, RunsTypeOK
<1>2. x \in RowType /\ Worked(row, x)
  <2>. HIDE DEF row
  <2>. QED
    BY <1>1 DEF RowType, Worked, SameRun
<1>3. rows' = [rows EXCEPT ![r] = x] /\ Goto(t, state)
  BY DEF ClaimDelayed, EndRow
<1>4. state.row = r
  BY DEF At
<1>. HIDE DEF x, state
<1>. QED
  BY <1>1, <1>2, <1>3, <1>4, RowSet, RunnerMoves

\* The steps without a statement: a process reads, dies, or finds its row.
LEMMA MoveTable ==
    ASSUME RunsInv, NEW p \in Runners, NEW state, rows' = rows, Goto(p, state),
           ~Working(state) \/ Works(p, state.row)
    PROVE  TableRewritten /\ RunnersMove
BY RowsKept, RunnerMoves

\* They move one process.
LEMMA SilentTable ==
    ASSUME RunsInv, NEW p \in Runners,
           ReadAttempt(p) \/ Abandon(p) \/ (p \in Handlers /\ Click(p))
    PROVE  TableRewritten /\ RunnersMove
<1>1. CASE ReadAttempt(p)
  <2>. DEFINE state == [pc |-> "stamping", row |-> Row(p), res |-> "none",
                        attempt |-> rows[Row(p)].attempt + 1]
  <2>1. Working(runner[p]) /\ rows' = rows /\ Goto(p, state)
    BY <1>1 DEF ReadAttempt, Ends, Working
  <2>2. state.row = Row(p)
    OBVIOUS
  <2>. HIDE DEF state
  <2>. QED
    BY <2>1, <2>2, OwnRowTaken, MoveTable
<1>2. CASE Abandon(p)
  BY <1>2, States, MoveTable DEF Abandon
<1>3. CASE p \in Handlers /\ Click(p)
  <2>1. PICK r \in DOMAIN rows, d \in {"approved", "rejected"} : Goto(p, At("deciding", r, d))
    BY <1>3 DEF Click
  <2>2. ~Working(At("deciding", r, d))
    BY DEF Working, At
  <2>. QED
    BY <1>3, <2>1, <2>2, MoveTable DEF Click
<1>. QED
  BY <1>1, <1>2, <1>3

\* All of them but the runs started by hand.
LEMMA RunsTable ==
    ASSUME RunsInv, RunsNext
    PROVE  \/ TableRewritten /\ RunnersMove
           \/ \E h \in Handlers : RunByHand(h)
<1>1. ASSUME NEW p \in Runners, RunStep(p) PROVE TableRewritten /\ RunnersMove
  BY <1>1, FinalizeTable, SilentTable, StampTable, PauseTable, ApprovalTable DEF RunStep
<1>2. ASSUME NEW p \in Runners, Abandon(p) PROVE TableRewritten /\ RunnersMove
  BY <1>2, SilentTable
<1>3. ASSUME NEW h \in Handlers, Click(h) \/ Decide(h)
      PROVE  TableRewritten /\ RunnersMove
  BY <1>3, SilentTable, DecideTable DEF Runners
<1>4. ASSUME NEW t \in Timers, NEW r \in DOMAIN rows, ClaimDelayed(t, r)
      PROVE  TableRewritten /\ RunnersMove
  BY <1>4, ClaimTable
<1>. QED
  BY <1>1, <1>2, <1>3, <1>4 DEF RunsNext, HandlerStep
-----------------------------------------------------------------------------
(* The statements of the sweep and the reaper, and the clock.              *)

\* They leave the processes alone, and what these know of their rows: a row is
\* at most given up.
LEMMA RewriteKeepsRuns ==
    ASSUME RunsInv, rows' \in Seq(RowType), DOMAIN rows' = DOMAIN rows,
           runner' = runner, faults' \in 0..MaxFaults,
           \A r \in DOMAIN rows :
             /\ Quiet(rows[r], rows'[r]) \/ GivenUp(rows[r], rows'[r])
             /\ rows'[r].approval = rows[r].approval /\ rows'[r].wait = rows[r].wait
    PROVE  RunsInv' /\ TableRewritten /\ RunnersMove
<1>1. RunsTypeOK'
  BY DEF RunsInv, RunsTypeOK, IsIdle, Row
<1>2. ASSUME NEW p \in Runners, Working(runner[p]), ~rows'[Row(p)].late
      PROVE  Holds(runner[p], rows'[Row(p)]) /\ ~rows[Row(p)].late
  <2>. DEFINE row == rows[Row(p)]
              new == rows'[Row(p)]
  <2>1. /\ Quiet(row, new) \/ GivenUp(row, new)
        /\ new.approval = row.approval /\ new.wait = row.wait
    BY <1>2, OwnRowTaken
  <2>2. ~row.late
    BY <1>2, <2>1 DEF Quiet, GivenUp, SameRun
  <2>3. Holds(runner[p], row)
    BY <1>2, <2>2 DEF RunsInv, RunnersHold
  <2>. HIDE DEF row, new
  <2>4. Holds(runner[p], new)
    BY <2>1, <2>3 DEF Holds, Quiet, GivenUp, SameRun, ForApproval, Reaped
  <2>. QED
    BY <2>2, <2>4 DEF row, new
<1>3. RunnersHold' /\ DecidersDecide'
  BY <1>2 DEF RunsInv, RunnersHold, DecidersDecide, Row
<1>4. RowsApart'
  BY <1>2 DEF RunsInv, RowsApart, Row
<1>5. ASSUME NEW r \in DOMAIN rows PROVE ApprovalMatches(rows'[r])
  <2>. DEFINE row == rows[r]
              new == rows'[r]
  <2>1. /\ Quiet(row, new) \/ GivenUp(row, new)
        /\ new.approval = row.approval /\ new.wait = row.wait /\ ApprovalMatches(row)
    BY DEF RunsInv, ApprovalsMatch
  <2>. HIDE DEF row, new
  <2>2. ApprovalMatches(new)
    BY <2>1 DEF ApprovalMatches, Quiet, GivenUp, SameRun, ForApproval, ForDelay, Reaped
  <2>. QED
    BY <2>2 DEF new
<1>6. TableRewritten
  BY DEF TableRewritten, RowStep
<1>7. RunnersMove
  BY DEF RunnersMove, Works, Row
<1>. QED
  BY <1>1, <1>3, <1>4, <1>5, <1>6, <1>7 DEF RunsInv, ApprovalsMatch

\* One of them rewrites one row.
LEMMA RowRewrite ==
    ASSUME RunsInv, NEW r \in DOMAIN rows, NEW x \in RowType, rows' = [rows EXCEPT ![r] = x],
           runner' = runner, faults' = faults,
           Quiet(rows[r], x) \/ GivenUp(rows[r], x),
           x.approval = rows[r].approval, x.wait = rows[r].wait
    PROVE  RunsInv' /\ TableRewritten /\ RunnersMove
<1>1. rows \in Seq(RowType)
  BY DEF RunsInv, RunsTypeOK
<1>2. rows' \in Seq(RowType) /\ DOMAIN rows' = DOMAIN rows /\ rows'[r] = x
      /\ \A q \in DOMAIN rows \ {r} : rows'[q] = rows[q]
  BY <1>1
<1>3. \A q \in DOMAIN rows \ {r} : Quiet(rows[q], rows'[q])
  BY <1>2, Zenon DEF Quiet, SameRun
<1>4. faults' \in 0..MaxFaults
  BY DEF RunsInv, RunsTypeOK
<1>. QED
  BY <1>2, <1>3, <1>4, RewriteKeepsRuns

\* None rewrites any.
LEMMA StillTable ==
    ASSUME RunsInv, rows' = rows, runner' = runner, faults' \in 0..MaxFaults
    PROVE  RunsInv' /\ TableRewritten /\ RunnersMove /\ TableGrown
<1>1. \A q \in DOMAIN rows : Quiet(rows[q], rows'[q])
  BY Zenon DEF Quiet, SameRun
<1>2. rows \in Seq(RowType)
  BY DEF RunsInv, RunsTypeOK
<1>. QED
  BY <1>1, <1>2, RewriteKeepsRuns DEF TableGrown

\* The sweep's safety net marks rows dead.
LEMMA SelectDueTable ==
    ASSUME RunsInv, NEW s \in Sweepers, NEW due, SelectDue(s, due)
    PROVE  RunsInv' /\ TableRewritten /\ RunnersMove
<1>. DEFINE Net(r) == rows[r].dead \/ (r \in Retryable /\ rows[r].attempt >= MaxAttempts)
            x(r) == [rows[r] EXCEPT !.dead = Net(r)]
<1>1. rows \in Seq(RowType) /\ rows' = [r \in DOMAIN rows |-> x(r)]
  BY DEF SelectDue, RunsInv, RunsTypeOK
<1>2. ASSUME NEW r \in DOMAIN rows
      PROVE  /\ x(r) \in RowType /\ Quiet(rows[r], x(r))
             /\ x(r).approval = rows[r].approval /\ x(r).wait = rows[r].wait
  <2>. DEFINE row == rows[r]
              b == Net(r)
  <2>1. row \in RowType /\ b \in BOOLEAN
    BY <1>1
  <2>. HIDE DEF row, b
  <2>2. [row EXCEPT !.dead = b] \in RowType /\ Quiet(row, [row EXCEPT !.dead = b])
        /\ [row EXCEPT !.dead = b].approval = row.approval
        /\ [row EXCEPT !.dead = b].wait = row.wait
    BY <2>1 DEF RowType, Quiet, SameRun
  <2>. QED
    BY <2>2 DEF row, b
<1>. HIDE DEF x
<1>3. rows' \in Seq(RowType) /\ DOMAIN rows' = DOMAIN rows
  BY <1>1, <1>2
<1>4. \A r \in DOMAIN rows : rows'[r] = x(r)
  BY <1>1
<1>5. runner' = runner /\ faults' \in 0..MaxFaults
  BY DEF SelectDue, RunsInv, RunsTypeOK
<1>. QED
  BY <1>2, <1>3, <1>4, <1>5, RewriteKeepsRuns

\* A mark is cleared; a row grows old.
LEMMA MarkTable ==
    ASSUME RunsInv, NEW r \in DOMAIN rows, runner' = runner, faults' = faults,
           \/ rows' = [rows EXCEPT ![r].retry = FALSE]
           \/ rows' = [rows EXCEPT ![r].old = TRUE]
    PROVE  RunsInv' /\ TableRewritten /\ RunnersMove
<1>. DEFINE row == rows[r]
            cleared == [row EXCEPT !.retry = FALSE]
            aged == [row EXCEPT !.old = TRUE]
<1>1. row \in RowType
  BY DEF RunsInv, RunsTypeOK
<1>2. rows' = [rows EXCEPT ![r] = cleared] \/ rows' = [rows EXCEPT ![r] = aged]
  OBVIOUS
<1>3. /\ cleared \in RowType /\ Quiet(row, cleared)
      /\ cleared.approval = row.approval /\ cleared.wait = row.wait
  <2>. HIDE DEF row
  <2>. QED
    BY <1>1 DEF RowType, Quiet, SameRun
<1>4. aged \in RowType /\ Quiet(row, aged) /\ aged.approval = row.approval /\ aged.wait = row.wait
  <2>. HIDE DEF row
  <2>. QED
    BY <1>1 DEF RowType, Quiet, SameRun
<1>. HIDE DEF cleared, aged
<1>. QED
  BY <1>2, <1>3, <1>4, RowRewrite

\* A stuck row fails and keeps its key; one that has moved on is left alone.
LEMMA ReapTable ==
    ASSUME QueueInv, RunsInv, NEW s \in Sweepers, NEW x \in reap[s], Reap(s, x)
    PROVE  RunsInv' /\ TableRewritten /\ RunnersMove
<1>1. /\ runner' = runner /\ faults' = faults /\ faults \in 0..MaxFaults
      /\ rows \in Seq(RowType)
  BY DEF RunsInv, RunsTypeOK, Reap
<1>2. CASE rows' = rows
  BY <1>1, <1>2, StillTable
<1>3. ASSUME NEW r \in DOMAIN rows, NEW n \in 0..MaxAttempts, rows[r].status = "executing",
             rows' = [rows EXCEPT ![r] = [Stamped(rows[r], n) EXCEPT !.reaped = TRUE]]
      PROVE  RunsInv' /\ TableRewritten /\ RunnersMove
  <2>. DEFINE row == rows[r]
              dead == [Stamped(row, n) EXCEPT !.reaped = TRUE]
  <2>1. row \in RowType /\ row.status = "executing"
    BY <1>1, <1>3
  <2>2. rows' = [rows EXCEPT ![r] = dead]
    BY <1>3
  <2>3. /\ dead \in RowType /\ dead.status = "failed" /\ dead.reaped /\ SameRun(row, dead)
        /\ dead.key = row.key /\ dead.approval = row.approval /\ dead.wait = row.wait
    <3>. HIDE DEF row
    <3>. QED
      BY <2>1, ReapedRow
  <2>. HIDE DEF dead
  <2>4. GivenUp(row, dead)
    BY <2>1, <2>3 DEF GivenUp, Reaped
  <2>. QED
    BY <1>1, <2>2, <2>3, <2>4, RowRewrite
<1>. QED
  BY <1>2, <1>3, ReapRewrites DEF QueueInv, QueueTypeOK

\* Every step of the queue keeps what its processes know of their rows.
LEMMA TableNext ==
    ASSUME QueueInv, RunsInv, [Next]_vars
    PROVE  RunsInv' /\ ((TableRewritten /\ RunnersMove) \/ Begins)
<1>. DEFINE Goal == RunsInv' /\ TableRewritten /\ RunnersMove
<1>1. ASSUME UNCHANGED runVars PROVE Goal
  BY <1>1, StillTable DEF runVars, RunsInv, RunsTypeOK
<1>2. ASSUME rows' = rows, runner' = runner, Fault PROVE Goal
  BY <1>2, StillTable DEF Fault, RunsInv, RunsTypeOK
<1>3. CASE RunsNext /\ UNCHANGED queueVars
  BY <1>3, RunsInvNext, RunsTable DEF Begins
<1>4. ASSUME NEW e \in Events, Publish(e) PROVE Goal
  BY <1>1, <1>4 DEF Publish
<1>5. ASSUME NEW c \in Consumers, ConsumerOther(c) PROVE Goal
  <2>1. CASE Crash(c)
    <3>1. rows' = rows /\ Goto(c, Idle) /\ Fault /\ c \in Runners
      BY <2>1 DEF Crash, Runners
    <3>2. CASE IsIdle(c)
      <4>1. runner' = runner
        BY <3>1, <3>2 DEF Goto, IsIdle, RunsInv, RunsTypeOK
      <4>. QED
        BY <1>2, <3>1, <4>1
    <3>3. CASE ~IsIdle(c)
      <4>1. Abandon(c)
        BY <3>1, <3>3 DEF Abandon
      <4>. QED
        BY <3>1, <4>1, AbandonStep, SilentTable
    <3>. QED
      BY <3>2, <3>3
  <2>2. CASE EvaluationThrows(c)
    <3>1. rows' = rows /\ runner' = runner /\ (Fault \/ faults' = faults)
      BY <2>2 DEF EvaluationThrows
    <3>. QED
      BY <1>1, <1>2, <3>1 DEF runVars
  <2>3. CASE Ack(c) \/ \E i \in Entries : Deliver(c, i) \/ Reclaim(c, i)
    BY <1>1, <2>3 DEF Ack, Deliver, Reclaim
  <2>. QED
    BY <1>5, <2>1, <2>2, <2>3 DEF ConsumerOther
<1>6. ASSUME NEW c \in Consumers, NEW w \in Workflows, RunNext(c, w)
      PROVE  RunsInv' /\ Begins
  <2>. DEFINE i == job[c].entry
              e == stream[i].ev
              k == IdempotencyKey(w, e, i)
  <2>1. /\ e \in Events /\ k \in Keys /\ c \in Runners /\ IsIdle(c) /\ Launch(c, w, e, k)
        /\ faults' = faults
    BY <1>6, RunNextLaunches DEF RunNext
  <2>. HIDE DEF e, k
  <2>. QED
    BY <1>6, <2>1, LaunchStep DEF Begins
<1>7. ASSUME NEW s \in Sweepers, SweeperOther(s) PROVE Goal
  <2>1. ASSUME NEW due \in SUBSET DOMAIN rows, SelectDue(s, due) PROVE Goal
    BY <2>1, SelectDueTable
  <2>2. ASSUME NEW r \in DOMAIN rows, Republish(s, r) \/ PublishUnavailable(s, r) PROVE Goal
    BY <1>1, <2>2 DEF Republish, PublishUnavailable
  <2>3. CASE ClearRetry(s)
    <3>1. sweep[s].clear \in DOMAIN rows
      BY <2>3, SweepOf DEF ClearRetry
    <3>. QED
      BY <2>3, <3>1, MarkTable DEF ClearRetry
  <2>4. CASE SweepFails(s)
    BY <1>2, <2>4 DEF SweepFails
  <2>5. CASE SelectStuck(s)
    BY <1>1, <2>5 DEF SelectStuck
  <2>6. ASSUME NEW x \in reap[s], Reap(s, x) PROVE Goal
    BY <2>6, ReapTable
  <2>. QED
    BY <1>7, <2>1, <2>2, <2>3, <2>4, <2>5, <2>6 DEF SweeperOther, ReapStep
<1>8. ASSUME NEW r \in DOMAIN rows, Age(r) PROVE Goal
  BY <1>8, MarkTable DEF Age
<1>9. CASE UNCHANGED vars
  BY <1>1, <1>9 DEF vars
<1>. QED
  BY <1>3, <1>4, <1>5, <1>6, <1>7, <1>8, <1>9
  DEF Next, ConsumerStep, SweepStep, ConsumerOther, SweeperOther

\* The processes stay apart in the queue as they do without it.
LEMMA TableAlways == Spec => []RunsInv
<1>1. Init => RunsInv
  BY RunsInvInit DEF Init
<1>2. QueueInv /\ RunsInv /\ [Next]_vars => RunsInv'
  BY TableNext
<1>. QED
  BY <1>1, <1>2, QueueInvAlways, PTL DEF Spec
-----------------------------------------------------------------------------
(* No step moves an execution that ended.                                  *)

\* What every rewritten row keeps.
LEMMA RowKeeps ==
    ASSUME NEW r \in DOMAIN rows, RowStep(r)
    PROVE  rows'[r].status # rows[r].status
             => rows[r].late \/ Taken(r) \/ rows[r].status \in {"waiting", "executing"}
BY DEF RowStep, Quiet, Worked, Failed, GivenUp

\* A row somebody works on has not ended, unless a decision came late.
LEMMA TakenOpen ==
    ASSUME RunsInv, NEW r \in DOMAIN rows, Taken(r), ~rows[r].late
    PROVE  rows[r].status \in {"executing", "waiting", "failed"}
<1>1. PICK p \in Runners : Works(p, r)
  BY DEF Taken
<1>2. Holds(runner[p], rows[r]) /\ Working(runner[p])
  BY <1>1 DEF Works, RunsInv, RunnersHold
<1>. QED
  BY <1>2 DEF Holds, Working, ForApproval, Reaped

\* A completed or skipped execution keeps its status, whatever the queue, the
\* sweep and the reaper do, unless a decision came late.
THEOREM EndedIsOverInTheQueue == Spec => EndedStaysEnded
<1>1. ASSUME QueueInv, RunsInv, [Next]_vars PROVE EndedKept
  <2>1. TableRewritten \/ Begins
    BY <1>1, TableNext
  <2>2. CASE TableRewritten
    <3>1. ASSUME NEW r \in DOMAIN rows, rows[r].status \in {"completed", "skipped"},
                 ~rows[r].late
          PROVE  rows'[r].status = rows[r].status
      BY <1>1, <2>2, <3>1, RowKeeps, TakenOpen DEF TableRewritten
    <3>. QED
      BY <3>1 DEF EndedKept
  <2>3. CASE Begins
    BY <1>1, <2>3, BeginsTable DEF Inserted, EndedKept
  <2>. QED
    BY <2>1, <2>2, <2>3
<1>2. QueueInv /\ RunsInv /\ [Next]_vars => [EndedKept]_runVars
  BY <1>1
<1>. QED
  BY <1>2, QueueInvAlways, TableAlways, PTL DEF Spec, EndedStaysEnded, EndedKept
-----------------------------------------------------------------------------
(* One run and one completion per trigger, of executions the queue starts. *)

\* A row without a key was suppressed or has failed, and nobody works on it.
Keyless(r) ==
    rows[r].key = NoKey /\ ~rows[r].late =>
        rows[r].status \in {"suppressed", "failed"} /\ ~Taken(r)

KeylessInv == \A r \in DOMAIN rows : Keyless(r)

\* Rows that are rewritten.
LEMMA KeylessRewritten ==
    ASSUME KeylessInv, TableRewritten, RunnersMove
    PROVE  KeylessInv'
<1>1. ASSUME NEW r \in DOMAIN rows PROVE Keyless(r)'
  <2>1. RowStep(r) /\ Keyless(r)
    BY DEF KeylessInv, TableRewritten
  <2>2. Taken(r)' => Taken(r) \/ rows[r].status = "waiting" \/ rows'[r].late
    BY DEF RunnersMove, Taken
  <2>. QED
    BY <2>1, <2>2 DEF RowStep, Quiet, Worked, Failed, GivenUp, Reaped, SameRun, Keyless
<1>. QED
  BY <1>1 DEF KeylessInv, TableRewritten

\* A row that is added.
LEMMA KeylessInserted ==
    ASSUME KeylessInv, NEW n, n = Len(rows) + 1, NEW x, Inserted(x),
           \A q \in Runners : \A r \in DOMAIN rows : Works(q, r)' => Works(q, r),
           x.key = NoKey => x.status = "suppressed" /\ ~Taken(n)'
    PROVE  KeylessInv'
<1>1. /\ DOMAIN rows' = DOMAIN rows \union {n} /\ rows'[n] = x
      /\ \A r \in DOMAIN rows : rows'[r] = rows[r]
  BY DEF Inserted
<1>2. \A r \in DOMAIN rows : Taken(r)' => Taken(r)
  BY DEF Taken
<1>3. \A r \in DOMAIN rows : Keyless(r)'
  BY <1>1, <1>2 DEF KeylessInv, Keyless
<1>4. Keyless(n)'
  BY <1>1 DEF Keyless
<1>. QED
  BY <1>1, <1>3, <1>4 DEF KeylessInv

\* A run of the queue leaves a row with a key or the record of a suppression,
\* which nobody works on.
LEMMA KeylessRun ==
    ASSUME QueueInv, RunsInv, KeylessInv,
           NEW c \in Consumers, NEW w \in Workflows, RunNext(c, w)
    PROVE  KeylessInv'
<1>. DEFINE i == job[c].entry
            e == stream[i].ev
            k == IdempotencyKey(w, e, i)
            new == NewRow(w, e, k)
            kept == Suppressed(w, e)
<1>1. /\ e \in Events /\ k \in Keys /\ k # NoKey /\ c \in Runners /\ Launch(c, w, e, k)
      /\ TableOK
  <2>1. Entries \subseteq Nat
    BY JobOf
  <2>. QED
    BY <2>1, RunNextLaunches, KeyTyped DEF QueueInv
<1>2. /\ rows' = rows \/ Inserted(kept) \/ Inserted(new)
      /\ \A q \in Runners : \A r \in DOMAIN rows : Works(q, r)' => Works(q, r)
      /\ rows' = rows \/ Inserted(kept)
           => \A q \in Runners : \A r : Works(q, r)' => Works(q, r)
  BY <1>1, Launched
<1>3. new.key = k /\ kept.key = NoKey /\ kept.status = "suppressed"
  BY NewRowFields
<1>4. PICK n : n = Len(rows) + 1
  OBVIOUS
<1>5. ~Taken(n)
  BY <1>4, Busy DEF Taken, Works, Working, RunsInv, RunsTypeOK
<1>. HIDE DEF new, kept, k, e, i
<1>6. CASE rows' = rows
  <2>1. RunnersMove
    BY <1>2, <1>6 DEF RunnersMove
  <2>. QED
    BY <1>6, <2>1, RowsKept, KeylessRewritten
<1>7. CASE Inserted(kept)
  <2>1. ~Taken(n)'
    BY <1>2, <1>5, <1>7 DEF Taken
  <2>. QED
    BY <1>2, <1>3, <1>4, <1>7, <2>1, KeylessInserted
<1>8. CASE Inserted(new)
  BY <1>1, <1>2, <1>3, <1>4, <1>8, KeylessInserted
<1>. QED
  BY <1>2, <1>6, <1>7, <1>8

\* So it always holds of the executions the queue starts.
LEMMA KeylessAlways == ASSUME NoHandRuns PROVE Spec => []KeylessInv
<1>1. Init => KeylessInv
  BY DEF Init, RunsInit, KeylessInv
<1>2. ASSUME QueueInv, RunsInv, KeylessInv, [Next]_vars PROVE KeylessInv'
  <2>1. (TableRewritten /\ RunnersMove) \/ Begins
    BY <1>2, TableNext
  <2>2. ASSUME NEW h \in Handlers, RunByHand(h) PROVE FALSE
    BY <1>2, <2>2, ByHandTable DEF NoHandRuns, QueueInv
  <2>. QED
    BY <1>2, <2>1, <2>2, KeylessRewritten, KeylessRun DEF Begins
<1>. QED
  BY <1>1, <1>2, QueueInvAlways, TableAlways, PTL DEF Spec

\* workflowQueue.ts:31-33: no two processes run one workflow for one event with
\* an id at once, through every redelivery, reclaim, crash, pause, retry and reap,
\* unless a late decision runs one of its executions again.
THEOREM TriggersRunOnce ==
    ASSUME NoHandRuns
    PROVE  Spec => []OneRunPerTrigger
<1>1. RunsInv /\ KeyInv /\ KeylessInv => OneRunPerTrigger
  <2>. SUFFICES ASSUME RunsInv, KeyInv, KeylessInv, NEW p \in Runners, NEW q \in Runners,
                       NEW r \in DOMAIN rows, NEW s \in DOMAIN rows,
                       Executing(p, r), Executing(q, s), SameTrigger(rows[r], rows[s]),
                       rows[r].ev \in NaturalEvents, ~rows[r].late, ~rows[s].late
                PROVE  p = q
    BY DEF OneRunPerTrigger
  <2>1. Works(p, r) /\ Works(q, s)
    BY DEF Executing, Working, Works
  <2>2. rows[r].key # NoKey /\ rows[s].key # NoKey
    BY <2>1 DEF KeylessInv, Keyless, Taken
  <2>3. r = s
    BY <2>2, OneKeyed
  <2>. QED
    BY <2>1, <2>3 DEF Works, RunsInv, RowsApart
<1>. QED
  BY <1>1, TableAlways, KeyInvAlways, KeylessAlways, PTL

\* workflowQueue.ts:18-21: if every event has an id, a workflow completes at most
\* once for it, however often it is published, late decisions apart.
THEOREM EventsCompleteOnce ==
    ASSUME NoHandRuns, Events \subseteq NaturalEvents
    PROVE  Spec => []CompletesOncePerEvent
<1>1. RunsInv /\ KeyInv /\ KeylessInv => CompletesOncePerEvent
  <2>. SUFFICES ASSUME RunsInv, KeyInv, KeylessInv,
                       NEW r \in DOMAIN rows, NEW s \in DOMAIN rows,
                       rows[r].status = "completed", rows[s].status = "completed",
                       SameTrigger(rows[r], rows[s]), ~rows[r].late, ~rows[s].late
                PROVE  r = s
    BY DEF CompletesOncePerEvent
  <2>1. rows[r].key # NoKey /\ rows[s].key # NoKey
    BY DEF KeylessInv, Keyless
  <2>2. rows[r] \in RowType
    BY DEF RunsInv, RunsTypeOK
  <2>3. rows[r].ev \in NaturalEvents
    BY <2>2 DEF RowType
  <2>. QED
    BY <2>1, <2>3, OneKeyed
<1>. QED
  BY <1>1, TableAlways, KeyInvAlways, KeylessAlways, PTL
=============================================================================

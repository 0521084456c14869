-------------------------- MODULE Broadcasts_proofs --------------------------
(***************************************************************************)
(* The broadcast protocol for every set of broadcasts, requests, channels  *)
(* and metered channels, and any number of faults.                         *)
(***************************************************************************)
EXTENDS Broadcasts, TLAPS

USE BroadcastAssumption

RowType == [status : Statuses, channels : SUBSET Channels, late : BOOLEAN, approved : BOOLEAN]
TaskType ==
    [pc : {"idle", "log approved", "log rejected", "check", "log sent", "resolve",
           "trigger", "mark", "charge", "log failed"},
     b : Broadcasts \union {0}, late : BOOLEAN, todo : SUBSET Channels]

BeforeSending == {"check", "log sent", "resolve", "trigger"}
InFlight == BeforeSending \union {"mark"}
IsSending(t) == t.pc \in InFlight \union {"charge"}
Sending(q) == IsSending(task[q])

\* What a sender, at t, knows of its broadcast: its row r, how often it was
\* sent and what was charged for it.
FitsTask(t, r, sent, charged) ==
    /\ t.pc \in InFlight => r.status = "sending"
    /\ t.pc = "charge" => r.status = "sent"
    /\ t.pc \in BeforeSending => sent = 0
    /\ t.pc \in {"mark", "charge"} => sent = 1
    /\ t.late => t.pc = "check" /\ r.late
    /\ t.todo \subseteq r.channels
    /\ t.pc = "charge" => \A ch \in t.todo : charged[ch] = 0
Fits(q) == /\ B(q) \in Broadcasts
           /\ FitsTask(task[q], row[B(q)], sends[B(q)], charges[B(q)])

SendersFit == \A q \in Requests : Sending(q) => Fits(q)

\* No two requests send one broadcast.
SendersApart ==
    \A p, q \in Requests : Sending(p) /\ Sending(q) /\ B(p) = B(q) => p = q

Unsent == {"none", "pending_approval", "approved", "rejected", "expired", "deleted"}
Approved == {"approved", "sending", "sent", "failed"}

\* What a broadcast's status says of its contacts and its debits.
BooksBalance(r, sent, charged) ==
    /\ sent <= 1
    /\ r.status \in Unsent => sent = 0
    /\ r.status \in Approved => r.approved
    /\ \A ch \in Channels :
        /\ charged[ch] <= sent
        /\ charged[ch] > 0 => r.status = "sent" /\ ch \in Metered /\ ch \in r.channels
Booked(b) == BooksBalance(row[b], sends[b], charges[b])

RowsBooked == \A b \in Broadcasts : Booked(b)

BroadcastInv == BroadcastTypeOK /\ SendersFit /\ SendersApart /\ RowsBooked
-----------------------------------------------------------------------------
\* A status is written to one row and changes nothing else of it.
LEMMA StatusSet ==
    ASSUME BroadcastTypeOK, NEW b \in Broadcasts, NEW s \in Statuses, SetStatus(b, s)
    PROVE  /\ row' \in [Broadcasts -> RowType]
           /\ \A a \in Broadcasts :
                /\ row'[a].status = IF a = b THEN s ELSE row[a].status
                /\ row'[a].channels = row[a].channels
                /\ row'[a].late = row[a].late /\ row'[a].approved = row[a].approved
<1>. DEFINE r == row[b]
            x == [r EXCEPT !.status = s]
<1>1. row \in [Broadcasts -> RowType] /\ r \in RowType
  BY DEF BroadcastTypeOK, RowType
<1>2. /\ x \in RowType /\ x.status = s /\ x.channels = r.channels
      /\ x.late = r.late /\ x.approved = r.approved
  <2>. HIDE DEF r
  <2>. QED
    BY <1>1 DEF RowType
<1>3. row' = [row EXCEPT ![b] = x]
  BY DEF SetStatus
<1>. HIDE DEF x
<1>. QED
  BY <1>1, <1>2, <1>3

\* A task is written for one request.
LEMMA TaskSet ==
    ASSUME BroadcastTypeOK, NEW q \in Requests, NEW t \in TaskType, Goto(q, t)
    PROVE  /\ task' \in [Requests -> TaskType]
           /\ task'[q] = t /\ \A p \in Requests \ {q} : task'[p] = task[p]
BY DEF BroadcastTypeOK, TaskType, Goto

\* Only the program counter moves.
LEMMA TaskMoves ==
    ASSUME BroadcastTypeOK, NEW q \in Requests,
           NEW pc \in {"log sent", "resolve", "trigger", "mark", "charge", "log failed"},
           Next1(q, pc)
    PROVE  /\ task' \in [Requests -> TaskType]
           /\ task'[q].pc = pc /\ task'[q].b = task[q].b
           /\ task'[q].late = task[q].late /\ task'[q].todo = task[q].todo
           /\ \A p \in Requests \ {q} : task'[p] = task[p]
<1>. DEFINE t == task[q]
            x == [t EXCEPT !.pc = pc]
<1>1. t \in TaskType
  BY DEF BroadcastTypeOK, TaskType
<1>2. x \in TaskType /\ x.pc = pc /\ x.b = t.b /\ x.late = t.late /\ x.todo = t.todo
  <2>. HIDE DEF t
  <2>. QED
    BY <1>1 DEF TaskType
<1>3. Goto(q, x)
  BY DEF Next1
<1>. HIDE DEF x
<1>. QED
  BY <1>2, <1>3, TaskSet

\* An idle request has nothing to do with any broadcast.
LEMMA NoTaskType == NoTask \in TaskType /\ NoTask.pc = "idle"
BY DEF NoTask, TaskType
-----------------------------------------------------------------------------
(* The invariant, action by action.                                        *)

\* At first there is no broadcast and no task.
LEMMA Initially == Init => BroadcastInv
<1>. SUFFICES ASSUME Init PROVE BroadcastInv
  OBVIOUS
<1>1. \A b \in Broadcasts : /\ row[b].status = "none" /\ sends[b] = 0
                            /\ \A ch \in Channels : charges[b][ch] = 0
  BY DEF Init
<1>2. \A q \in Requests : task[q] = NoTask
  BY DEF Init
<1>3. BroadcastTypeOK
  <2>1. row \in [Broadcasts -> RowType]
    BY DEF Init, RowType, Statuses
  <2>2. task \in [Requests -> TaskType]
    BY NoTaskType DEF Init
  <2>3. charges \in [Broadcasts -> [Channels -> Nat]] /\ sends \in [Broadcasts -> Nat]
    BY DEF Init
  <2>4. audit \in [Broadcasts -> SUBSET {"created", "approved", "rejected", "sent",
                                          "failed", "expired"}] /\ faults \in 0..MaxFaults
    BY DEF Init
  <2>. QED
    BY <2>1, <2>2, <2>3, <2>4 DEF BroadcastTypeOK, RowType, TaskType
<1>4. SendersFit /\ SendersApart
  BY <1>2, NoTaskType DEF SendersFit, SendersApart, Sending, IsSending, InFlight, BeforeSending
<1>5. RowsBooked
  BY <1>1 DEF RowsBooked, Booked, BooksBalance, Unsent, Approved
<1>. QED
  BY <1>3, <1>4, <1>5 DEF BroadcastInv

\* A step touches at most one request and one broadcast.  It keeps the invariant
\* when what it leaves of the two fits, and when no other sender is at the
\* broadcast, or the change suits it.
LEMMA StepInv ==
    ASSUME BroadcastInv, BroadcastTypeOK', NEW q \in Requests, NEW b \in Broadcasts,
           \A p \in Requests \ {q} : task'[p] = task[p],
           \A a \in Broadcasts \ {b} :
               row'[a] = row[a] /\ sends'[a] = sends[a] /\ charges'[a] = charges[a],
           Sending(q)' => B(q)' = b /\ FitsTask(task'[q], row'[b], sends'[b], charges'[b]),
           \A p \in Requests \ {q} : Sending(p) /\ B(p) = b
               => ~Sending(q)' /\ FitsTask(task[p], row'[b], sends'[b], charges'[b]),
           BooksBalance(row'[b], sends'[b], charges'[b])
    PROVE  BroadcastInv'
<1>1. \A p \in Requests \ {q} : (Sending(p)' <=> Sending(p)) /\ B(p)' = B(p)
  BY DEF Sending, B
<1>2. SendersFit'
  <2>1. ASSUME NEW p \in Requests, Sending(p)' PROVE Fits(p)'
    <3>1. CASE p = q
      BY <2>1, <3>1 DEF Fits
    <3>2. CASE p # q
      <4>1. Sending(p) /\ task'[p] = task[p] /\ B(p)' = B(p)
        BY <1>1, <2>1, <3>2
      <4>2. Fits(p)
        BY <4>1 DEF BroadcastInv, SendersFit
      <4>3. CASE B(p) = b
        BY <3>2, <4>1, <4>2, <4>3 DEF Fits
      <4>4. CASE B(p) # b
        BY <4>1, <4>2, <4>4 DEF Fits
      <4>. QED
        BY <4>3, <4>4
    <3>. QED
      BY <3>1, <3>2
  <2>. QED
    BY <2>1 DEF SendersFit
<1>3. SendersApart'
  <2>1. ASSUME NEW p1 \in Requests, NEW p2 \in Requests, Sending(p1)', Sending(p2)',
               B(p1)' = B(p2)', p1 # p2
        PROVE  FALSE
    <3>1. CASE p1 # q /\ p2 # q
      BY <1>1, <2>1, <3>1 DEF BroadcastInv, SendersApart
    <3>2. CASE p1 = q
      BY <1>1, <2>1, <3>2
    <3>3. CASE p2 = q
      BY <1>1, <2>1, <3>3
    <3>. QED
      BY <3>1, <3>2, <3>3
  <2>. QED
    BY <2>1 DEF SendersApart
<1>4. RowsBooked'
  <2>1. ASSUME NEW a \in Broadcasts PROVE Booked(a)'
    <3>1. CASE a = b
      BY <3>1 DEF Booked
    <3>2. CASE a # b
      BY <3>2 DEF Booked, BroadcastInv, RowsBooked
    <3>. QED
      BY <3>1, <3>2
  <2>. QED
    BY <2>1 DEF RowsBooked
<1>. QED
  BY <1>2, <1>3, <1>4 DEF BroadcastInv
-----------------------------------------------------------------------------
\* A step that touches a broadcast and no request.
LEMMA RowStepInv ==
    ASSUME BroadcastInv, BroadcastTypeOK', NEW b \in Broadcasts, UNCHANGED task,
           \A a \in Broadcasts \ {b} :
               row'[a] = row[a] /\ sends'[a] = sends[a] /\ charges'[a] = charges[a],
           \A p \in Requests : Sending(p) /\ B(p) = b
               => FitsTask(task[p], row'[b], sends'[b], charges'[b]),
           BooksBalance(row'[b], sends'[b], charges'[b])
    PROVE  BroadcastInv'
<1>1. SendersFit'
  <2>1. ASSUME NEW p \in Requests, Sending(p)' PROVE Fits(p)'
    <3>1. Sending(p) /\ Fits(p) /\ B(p)' = B(p) /\ task'[p] = task[p]
      BY <2>1 DEF BroadcastInv, SendersFit, Sending, B
    <3>2. CASE B(p) = b
      BY <3>1, <3>2 DEF Fits
    <3>3. CASE B(p) # b
      BY <3>1, <3>3 DEF Fits
    <3>. QED
      BY <3>2, <3>3
  <2>. QED
    BY <2>1 DEF SendersFit
<1>2. SendersApart'
  BY DEF BroadcastInv, SendersApart, Sending, B
<1>3. RowsBooked'
  <2>1. ASSUME NEW a \in Broadcasts PROVE Booked(a)'
    <3>1. CASE a = b
      BY <3>1 DEF Booked
    <3>2. CASE a # b
      BY <3>2 DEF Booked, BroadcastInv, RowsBooked
    <3>. QED
      BY <3>1, <3>2
  <2>. QED
    BY <2>1 DEF RowsBooked
<1>. QED
  BY <1>1, <1>2, <1>3 DEF BroadcastInv

\* A step of the one sender of a broadcast.
LEMMA SenderStepInv ==
    ASSUME BroadcastInv, BroadcastTypeOK', NEW q \in Requests, Sending(q),
           \A p \in Requests \ {q} : task'[p] = task[p],
           \A a \in Broadcasts \ {B(q)} :
               row'[a] = row[a] /\ sends'[a] = sends[a] /\ charges'[a] = charges[a],
           Sending(q)' => /\ B(q)' = B(q)
                          /\ FitsTask(task'[q], row'[B(q)], sends'[B(q)], charges'[B(q)]),
           BooksBalance(row'[B(q)], sends'[B(q)], charges'[B(q)])
    PROVE  BroadcastInv'
<1>1. B(q) \in Broadcasts
  BY DEF BroadcastInv, SendersFit, Fits
<1>2. \A p \in Requests \ {q} : ~(Sending(p) /\ B(p) = B(q))
  BY DEF BroadcastInv, SendersApart
<1>. DEFINE b == B(q)
<1>3. b \in Broadcasts /\ b = B(q)
  BY <1>1
<1>. HIDE DEF b
<1>. QED
  BY <1>2, <1>3, StepInv

\* A request ends, or was not sending: the broadcasts stay as they are.
LEMMA QuietStepInv ==
    ASSUME BroadcastInv, BroadcastTypeOK', NEW q \in Requests,
           \A p \in Requests \ {q} : task'[p] = task[p],
           UNCHANGED <<row, sends, charges>>, ~Sending(q)'
    PROVE  BroadcastInv'
<1>1. \A p \in Requests : Sending(p)' => p # q /\ Sending(p) /\ B(p)' = B(p)
  BY DEF Sending, B
<1>2. SendersFit'
  <2>1. ASSUME NEW p \in Requests, Sending(p)' PROVE Fits(p)'
    BY <1>1, <2>1 DEF BroadcastInv, SendersFit, Fits
  <2>. QED
    BY <2>1 DEF SendersFit
<1>3. SendersApart'
  BY <1>1 DEF BroadcastInv, SendersApart
<1>4. RowsBooked'
  BY DEF BroadcastInv, RowsBooked, Booked
<1>. QED
  BY <1>2, <1>3, <1>4 DEF BroadcastInv

\* A broadcast that waits for its decision or its sending has no sender, was not
\* sent and cost nothing.
LEMMA WaitingIsUntouched ==
    ASSUME BroadcastInv, NEW b \in Broadcasts, row[b].status \in Unsent
    PROVE  /\ \A p \in Requests : ~(Sending(p) /\ B(p) = b)
           /\ sends[b] = 0 /\ \A ch \in Channels : charges[b][ch] = 0
<1>1. ASSUME NEW p \in Requests, Sending(p), B(p) = b PROVE FALSE
  <2>1. FitsTask(task[p], row[b], sends[b], charges[b])
    BY <1>1 DEF BroadcastInv, SendersFit, Fits
  <2>. QED
    BY <1>1, <2>1 DEF FitsTask, Sending, IsSending, InFlight, Unsent
<1>2. BooksBalance(row[b], sends[b], charges[b])
  BY DEF BroadcastInv, RowsBooked, Booked
<1>3. sends[b] = 0
  BY <1>2 DEF BooksBalance
<1>4. \A ch \in Channels : charges[b][ch] \in Nat
  BY DEF BroadcastInv, BroadcastTypeOK
<1>5. \A ch \in Channels : charges[b][ch] = 0
  BY <1>2, <1>3, <1>4 DEF BooksBalance
<1>. QED
  BY <1>1, <1>3, <1>5

\* The audit trail keeps its shape.
LEMMA LogType ==
    ASSUME BroadcastTypeOK, NEW b \in Broadcasts,
           NEW action \in {"created", "approved", "rejected", "sent", "failed", "expired"},
           Log(b, action)
    PROVE  audit' \in [Broadcasts -> SUBSET {"created", "approved", "rejected", "sent",
                                              "failed", "expired"}]
BY DEF BroadcastTypeOK, Log

\* So does a step that writes rows and tasks of their types.
LEMMA TypeStep ==
    ASSUME BroadcastTypeOK, row' \in [Broadcasts -> RowType], task' \in [Requests -> TaskType],
           audit' \in [Broadcasts -> SUBSET {"created", "approved", "rejected", "sent",
                                              "failed", "expired"}],
           sends' \in [Broadcasts -> Nat], charges' \in [Broadcasts -> [Channels -> Nat]],
           faults' \in 0..MaxFaults
    PROVE  BroadcastTypeOK'
BY DEF BroadcastTypeOK, RowType, TaskType

\* What the types say of the variables.
LEMMA Typed ==
    ASSUME BroadcastTypeOK
    PROVE  /\ row \in [Broadcasts -> RowType] /\ task \in [Requests -> TaskType]
           /\ audit \in [Broadcasts -> SUBSET {"created", "approved", "rejected", "sent",
                                                "failed", "expired"}]
           /\ sends \in [Broadcasts -> Nat] /\ charges \in [Broadcasts -> [Channels -> Nat]]
           /\ faults \in 0..MaxFaults
BY DEF BroadcastTypeOK, RowType, TaskType
-----------------------------------------------------------------------------
(* Creation, decision, expiry.                                             *)

\* A row is written with a status that has no sender: the invariant stays.
LEMMA RowWritten ==
    ASSUME BroadcastInv, NEW b \in Broadcasts, row[b].status \in Unsent,
           row' \in [Broadcasts -> RowType], \A a \in Broadcasts \ {b} : row'[a] = row[a],
           row'[b].status \in Unsent, row'[b].status \in Approved => row'[b].approved,
           audit' \in [Broadcasts -> SUBSET {"created", "approved", "rejected", "sent",
                                              "failed", "expired"}],
           UNCHANGED <<task, sends, charges, faults>>
    PROVE  BroadcastInv'
<1>1. BroadcastTypeOK'
  BY Typed, TypeStep DEF BroadcastInv
<1>2. /\ \A p \in Requests : ~(Sending(p) /\ B(p) = b)
      /\ sends'[b] = 0 /\ \A ch \in Channels : charges'[b][ch] = 0
  BY WaitingIsUntouched
<1>3. BooksBalance(row'[b], sends'[b], charges'[b])
  BY <1>2 DEF BooksBalance
<1>. QED
  BY <1>1, <1>2, <1>3, RowStepInv

\* A new broadcast waits for its decision.
LEMMA CreateInv ==
    ASSUME BroadcastInv, NEW b \in Broadcasts, Create(b) PROVE BroadcastInv'
<1>1. PICK chs \in SUBSET Channels :
        row' = [row EXCEPT ![b] = [@ EXCEPT !.status = "pending_approval", !.channels = chs]]
  BY DEF Create
<1>. DEFINE r == row[b]
            x == [r EXCEPT !.status = "pending_approval", !.channels = chs]
<1>2. row \in [Broadcasts -> RowType] /\ r \in RowType
  BY Typed DEF BroadcastInv
<1>3. x \in RowType /\ x.status = "pending_approval"
  <2>. HIDE DEF r
  <2>. QED
    BY <1>2 DEF RowType, Statuses
<1>4. row' = [row EXCEPT ![b] = x]
  BY <1>1
<1>. HIDE DEF x
<1>5. /\ row' \in [Broadcasts -> RowType] /\ row'[b].status = "pending_approval"
      /\ \A a \in Broadcasts \ {b} : row'[a] = row[a]
  BY <1>2, <1>3, <1>4
<1>6. audit' \in [Broadcasts -> SUBSET {"created", "approved", "rejected", "sent",
                                         "failed", "expired"}]
  BY LogType DEF Create, BroadcastInv
<1>7. row[b].status \in Unsent /\ UNCHANGED <<task, sends, charges, faults>>
  BY DEF Create, Unsent
<1>. QED
  BY <1>5, <1>6, <1>7, RowWritten DEF Unsent, Approved

\* Neither deletion nor expiry leaves anything to send.
LEMMA WithdrawInv ==
    ASSUME BroadcastInv, NEW b \in Broadcasts, Delete(b) \/ Expire(b) PROVE BroadcastInv'
<1>1. PICK s \in {"deleted", "expired"} : SetStatus(b, s)
  BY DEF Delete, Expire
<1>2. s \in Statuses
  BY DEF Statuses
<1>3. row' \in [Broadcasts -> RowType] /\ row'[b].status = s
  BY <1>1, <1>2, StatusSet DEF BroadcastInv
<1>4. \A a \in Broadcasts \ {b} : row'[a] = row[a]
  BY <1>1, Typed DEF SetStatus, BroadcastInv
<1>5. audit' \in [Broadcasts -> SUBSET {"created", "approved", "rejected", "sent",
                                         "failed", "expired"}]
  <2>1. CASE Delete(b)
    BY <2>1, Typed DEF Delete, BroadcastInv
  <2>2. CASE Expire(b)
    BY <2>2, LogType DEF Expire, BroadcastInv
  <2>. QED
    BY <2>1, <2>2
<1>6. row[b].status \in Unsent /\ UNCHANGED <<task, sends, charges, faults>>
  BY DEF Delete, Expire, Unsent
<1>. QED
  BY <1>3, <1>4, <1>5, <1>6, RowWritten DEF Unsent, Approved

\* Time changes no status.
LEMMA ThreeDaysPassInv ==
    ASSUME BroadcastInv, NEW b \in Broadcasts, ThreeDaysPass(b) PROVE BroadcastInv'
<1>. DEFINE r == row[b]
            x == [r EXCEPT !.late = TRUE]
<1>1. row \in [Broadcasts -> RowType] /\ r \in RowType
  BY Typed DEF BroadcastInv
<1>2. /\ x \in RowType /\ x.status = r.status /\ x.channels = r.channels
      /\ x.approved = r.approved /\ x.late
  <2>. HIDE DEF r
  <2>. QED
    BY <1>1 DEF RowType
<1>3. row' = [row EXCEPT ![b] = x] /\ UNCHANGED <<audit, task, sends, charges, faults>>
  BY DEF ThreeDaysPass
<1>. HIDE DEF x
<1>4. /\ row' \in [Broadcasts -> RowType] /\ \A a \in Broadcasts \ {b} : row'[a] = row[a]
      /\ row'[b].status = row[b].status /\ row'[b].channels = row[b].channels
      /\ row'[b].approved = row[b].approved /\ row'[b].late
  BY <1>1, <1>2, <1>3
<1>5. BroadcastTypeOK'
  BY <1>3, <1>4, Typed, TypeStep DEF BroadcastInv
<1>6. ASSUME NEW p \in Requests, Sending(p), B(p) = b
      PROVE  FitsTask(task[p], row'[b], sends'[b], charges'[b])
  <2>1. FitsTask(task[p], row[b], sends[b], charges[b])
    BY <1>6 DEF BroadcastInv, SendersFit, Fits
  <2>. QED
    BY <1>3, <1>4, <2>1 DEF FitsTask
<1>7. BooksBalance(row'[b], sends'[b], charges'[b])
  <2>1. BooksBalance(row[b], sends[b], charges[b])
    BY DEF BroadcastInv, RowsBooked, Booked
  <2>. QED
    BY <1>3, <1>4, <2>1 DEF BooksBalance
<1>. QED
  BY <1>3, <1>4, <1>5, <1>6, <1>7, RowStepInv

\* Books without an entry balance.
LEMMA EmptyBooks ==
    ASSUME NEW r, NEW sent, NEW charged, r.status \in Approved => r.approved,
           sent = 0, \A ch \in Channels : charged[ch] = 0
    PROVE  BooksBalance(r, sent, charged)
<1>1. sent <= 1
  OBVIOUS
<1>2. \A ch \in Channels : charged[ch] <= sent /\ ~(charged[ch] > 0)
  OBVIOUS
<1>. QED
  BY <1>1, <1>2, Zenon DEF BooksBalance

\* A pending broadcast has no sender for a decision to disturb.
LEMMA DecisionInv ==
    ASSUME BroadcastInv, NEW q \in Requests, NEW b \in Broadcasts, Approve(q, b) \/ Reject(q, b)
    PROVE  BroadcastInv'
<1>1. PICK pc \in {"log approved", "log rejected"} : Goto(q, Task(pc, b))
  BY DEF Approve, Reject
<1>2. Task(pc, b) \in TaskType /\ Task(pc, b).pc = pc
  BY <1>1 DEF Task, NoTask, TaskType
<1>3. /\ task' \in [Requests -> TaskType] /\ task'[q].pc = pc
      /\ \A p \in Requests \ {q} : task'[p] = task[p]
  BY <1>1, <1>2, TaskSet DEF BroadcastInv
<1>4. /\ row' \in [Broadcasts -> RowType]
      /\ \A a \in Broadcasts \ {b} : row'[a] = row[a]
      /\ row[b].status = "pending_approval"
      /\ row'[b].status \in {"approved", "rejected"}
      /\ row'[b].status = "approved" => row'[b].approved
  <2>1. CASE Reject(q, b)
    <3>1. SetStatus(b, "rejected") /\ row[b].status = "pending_approval"
      BY <2>1 DEF Reject
    <3>2. \A a \in Broadcasts \ {b} : row'[a] = row[a]
      BY <3>1, Typed DEF SetStatus, BroadcastInv
    <3>3. "rejected" \in Statuses
      BY DEF Statuses
    <3>. QED
      BY <3>1, <3>2, <3>3, StatusSet DEF BroadcastInv
  <2>2. CASE Approve(q, b)
    <3>. DEFINE r == row[b]
                x == [r EXCEPT !.status = "approved", !.approved = TRUE]
    <3>1. row \in [Broadcasts -> RowType] /\ r \in RowType
      BY Typed DEF BroadcastInv
    <3>2. x \in RowType /\ x.status = "approved" /\ x.approved
      <4>. HIDE DEF r
      <4>. QED
        BY <3>1 DEF RowType, Statuses
    <3>3. row' = [row EXCEPT ![b] = x] /\ r.status = "pending_approval"
      BY <2>2 DEF Approve
    <3>. HIDE DEF x
    <3>. QED
      BY <3>1, <3>2, <3>3
  <2>. QED
    BY <2>1, <2>2
<1>5. UNCHANGED <<audit, sends, charges, faults>>
  BY DEF Approve, Reject
<1>6. BroadcastTypeOK'
  BY <1>3, <1>4, <1>5, Typed, TypeStep DEF BroadcastInv
<1>7. /\ \A p \in Requests : ~(Sending(p) /\ B(p) = b)
      /\ sends'[b] = 0 /\ \A ch \in Channels : charges'[b][ch] = 0
  BY <1>4, <1>5, WaitingIsUntouched DEF Unsent
<1>8. BooksBalance(row'[b], sends'[b], charges'[b])
  <2>1. row'[b].status \in Approved => row'[b].approved
    BY <1>4 DEF Approved
  <2>. QED
    BY <1>7, <2>1, EmptyBooks
<1>9. ~Sending(q)'
  BY <1>3 DEF Sending, IsSending, InFlight, BeforeSending
<1>. QED
  BY <1>3, <1>4, <1>5, <1>6, <1>7, <1>8, <1>9, StepInv
-----------------------------------------------------------------------------
(* The sending.                                                            *)

\* The click on Send takes an approved broadcast, which nobody sends.
LEMMA StartSendInv ==
    ASSUME BroadcastInv, NEW q \in Requests, NEW b \in Broadcasts, StartSend(q, b)
    PROVE  BroadcastInv'
<1>. DEFINE t == [Task("check", b) EXCEPT !.todo = row[b].channels, !.late = row[b].late]
<1>1. row \in [Broadcasts -> RowType] /\ row[b].status = "approved"
  BY Typed DEF BroadcastInv, StartSend
<1>2. /\ t \in TaskType /\ t.pc = "check" /\ t.b = b
      /\ t.todo = row[b].channels /\ t.late = row[b].late
  BY <1>1 DEF Task, NoTask, TaskType, RowType
<1>3. Goto(q, t) /\ SetStatus(b, "sending") /\ UNCHANGED <<audit, sends, charges, faults>>
  BY DEF StartSend
<1>. HIDE DEF t
<1>4. /\ task' \in [Requests -> TaskType] /\ task'[q] = t
      /\ \A p \in Requests \ {q} : task'[p] = task[p]
  BY <1>2, <1>3, TaskSet DEF BroadcastInv
<1>5. "sending" \in Statuses
  BY DEF Statuses
<1>6. /\ row' \in [Broadcasts -> RowType] /\ row'[b].status = "sending"
      /\ row'[b].channels = row[b].channels /\ row'[b].late = row[b].late
      /\ row'[b].approved = row[b].approved
  BY <1>3, <1>5, StatusSet DEF BroadcastInv
<1>7. \A a \in Broadcasts \ {b} : row'[a] = row[a]
  BY <1>1, <1>3 DEF SetStatus
<1>8. BroadcastTypeOK'
  BY <1>3, <1>4, <1>6, Typed, TypeStep DEF BroadcastInv
<1>9. /\ \A p \in Requests : ~(Sending(p) /\ B(p) = b)
      /\ sends'[b] = 0 /\ \A ch \in Channels : charges'[b][ch] = 0
  BY <1>1, <1>3, WaitingIsUntouched DEF Unsent
<1>10. row[b].approved
  BY <1>1 DEF BroadcastInv, RowsBooked, Booked, BooksBalance, Approved
<1>11. BooksBalance(row'[b], sends'[b], charges'[b])
  BY <1>6, <1>9, <1>10 DEF BooksBalance, Unsent
<1>12. B(q)' = b /\ FitsTask(task'[q], row'[b], sends'[b], charges'[b])
  <2>1. B(q)' = b
    BY <1>2, <1>4 DEF B
  <2>. QED
    BY <1>2, <1>4, <1>6, <1>9, <2>1 DEF FitsTask, InFlight, BeforeSending
<1>. QED
  BY <1>3, <1>4, <1>7, <1>8, <1>9, <1>11, <1>12, StepInv

\* What the invariant says of a sender at one of these statements.
LEMMA SenderKnows ==
    ASSUME BroadcastInv, NEW q \in Requests, Sending(q)
    PROVE  /\ B(q) \in Broadcasts /\ B(q) = task[q].b
           /\ FitsTask(task[q], row[B(q)], sends[B(q)], charges[B(q)])
           /\ BooksBalance(row[B(q)], sends[B(q)], charges[B(q)])
BY DEF BroadcastInv, SendersFit, Fits, RowsBooked, Booked, B

\* The status of a broadcast being sent is written by its sender, whose task ends.
LEMMA SenderStops ==
    ASSUME BroadcastInv, NEW q \in Requests, Sending(q), NEW s \in {"approved", "failed"},
           SetStatus(B(q), s), task' \in [Requests -> TaskType], ~Sending(q)',
           \A p \in Requests \ {q} : task'[p] = task[p],
           UNCHANGED <<audit, sends, charges>>, faults' \in 0..MaxFaults,
           task[q].pc \in InFlight, s = "approved" => task[q].pc = "check"
    PROVE  BroadcastInv'
<1>. DEFINE b == B(q)
<1>1. /\ b \in Broadcasts /\ FitsTask(task[q], row[b], sends[b], charges[b])
      /\ BooksBalance(row[b], sends[b], charges[b])
  BY SenderKnows
<1>2. s \in Statuses
  BY DEF Statuses
<1>3. SetStatus(b, s) /\ b = B(q)
  OBVIOUS
<1>. HIDE DEF b
<1>4. /\ row' \in [Broadcasts -> RowType] /\ row'[b].status = s
      /\ row'[b].approved = row[b].approved /\ row'[b].channels = row[b].channels
  BY <1>1, <1>2, <1>3, StatusSet DEF BroadcastInv
<1>5. \A a \in Broadcasts \ {b} : row'[a] = row[a]
  BY <1>3, Typed DEF SetStatus, BroadcastInv
<1>6. BroadcastTypeOK'
  BY <1>4, Typed, TypeStep DEF BroadcastInv
<1>7. row[b].status = "sending" /\ (s = "approved" => sends[b] = 0) /\ row[b].approved
  BY <1>1 DEF FitsTask, InFlight, BeforeSending, BooksBalance, Approved
<1>8. BooksBalance(row'[b], sends'[b], charges'[b])
  BY <1>1, <1>4, <1>7 DEF BooksBalance, Unsent, Approved
<1>. QED
  BY <1>3, <1>5, <1>6, <1>8, SenderStepInv

\* The sender moves on and leaves its broadcast as it is.
LEMMA SenderMovesOn ==
    ASSUME BroadcastInv, NEW q \in Requests, Sending(q),
           NEW pc \in {"log sent", "resolve", "trigger"}, Next1(q, pc),
           task[q].pc \in {"check", "log sent", "resolve"}, ~task[q].late,
           UNCHANGED <<row, sends, charges, faults>>,
           audit' \in [Broadcasts -> SUBSET {"created", "approved", "rejected", "sent",
                                              "failed", "expired"}]
    PROVE  BroadcastInv'
<1>. DEFINE b == B(q)
<1>1. /\ b \in Broadcasts /\ b = task[q].b /\ FitsTask(task[q], row[b], sends[b], charges[b])
      /\ BooksBalance(row[b], sends[b], charges[b])
  BY SenderKnows
<1>2. /\ task' \in [Requests -> TaskType] /\ task'[q].pc = pc /\ task'[q].b = task[q].b
      /\ task'[q].late = task[q].late /\ task'[q].todo = task[q].todo
      /\ \A p \in Requests \ {q} : task'[p] = task[p]
  BY TaskMoves DEF BroadcastInv
<1>3. BroadcastTypeOK'
  BY <1>2, Typed, TypeStep DEF BroadcastInv
<1>4. FitsTask(task'[q], row[b], sends[b], charges[b])
  BY <1>1, <1>2 DEF FitsTask, InFlight, BeforeSending
<1>5. B(q)' = B(q)
  BY <1>1, <1>2 DEF B
<1>. QED
  BY <1>1, <1>2, <1>3, <1>4, <1>5, SenderStepInv

\* The expiry check gives the broadcast back or goes on.
LEMMA CheckExpiryInv ==
    ASSUME BroadcastInv, NEW q \in Requests, CheckExpiry(q) PROVE BroadcastInv'
<1>1. Sending(q) /\ task[q].pc = "check" /\ UNCHANGED <<audit, sends, charges, faults>>
  BY DEF CheckExpiry, Sending, IsSending, InFlight, BeforeSending
<1>2. FitsTask(task[q], row[B(q)], sends[B(q)], charges[B(q)])
  BY <1>1, SenderKnows
<1>3. CASE row[B(q)].late
  <2>1. SetStatus(B(q), "approved") /\ Goto(q, NoTask)
    BY <1>3 DEF CheckExpiry
  <2>2. /\ task' \in [Requests -> TaskType] /\ task'[q] = NoTask
        /\ \A p \in Requests \ {q} : task'[p] = task[p]
    BY <2>1, NoTaskType, TaskSet DEF BroadcastInv
  <2>3. ~Sending(q)'
    BY <2>2, NoTaskType DEF Sending, IsSending, InFlight, BeforeSending
  <2>4. faults' \in 0..MaxFaults /\ task[q].pc \in InFlight
    BY <1>1, Typed DEF BroadcastInv, InFlight, BeforeSending
  <2>. QED
    BY <1>1, <2>1, <2>2, <2>3, <2>4, SenderStops
<1>4. CASE ~row[B(q)].late
  <2>1. Next1(q, "log sent") /\ UNCHANGED row
    BY <1>4 DEF CheckExpiry
  <2>2. ~task[q].late
    BY <1>2, <1>4 DEF FitsTask
  <2>3. audit' \in [Broadcasts -> SUBSET {"created", "approved", "rejected", "sent",
                                           "failed", "expired"}]
    BY <1>1, Typed DEF BroadcastInv
  <2>. QED
    BY <1>1, <2>1, <2>2, <2>3, SenderMovesOn
<1>. QED
  BY <1>3, <1>4

\* The audit row of the sending, and the contacts.
LEMMA LogSentInv ==
    ASSUME BroadcastInv, NEW q \in Requests, LogSent(q) PROVE BroadcastInv'
<1>1. /\ Sending(q) /\ task[q].pc = "log sent" /\ Next1(q, "resolve")
      /\ Log(B(q), "sent") /\ UNCHANGED <<row, sends, charges, faults>>
  BY DEF LogSent, Sending, IsSending, InFlight, BeforeSending
<1>2. B(q) \in Broadcasts /\ ~task[q].late
  BY <1>1, SenderKnows DEF FitsTask
<1>3. audit' \in [Broadcasts -> SUBSET {"created", "approved", "rejected", "sent",
                                         "failed", "expired"}]
  BY <1>1, <1>2, LogType DEF BroadcastInv
<1>. QED
  BY <1>1, <1>2, <1>3, SenderMovesOn

\* No eligible contact fails the broadcast.
LEMMA ResolveContactsInv ==
    ASSUME BroadcastInv, NEW q \in Requests, ResolveContacts(q) PROVE BroadcastInv'
<1>1. Sending(q) /\ task[q].pc = "resolve" /\ UNCHANGED <<audit, sends, charges, faults>>
  BY DEF ResolveContacts, Sending, IsSending, InFlight, BeforeSending
<1>2. ~task[q].late
  BY <1>1, SenderKnows DEF FitsTask
<1>3. CASE Next1(q, "trigger") /\ UNCHANGED row
  <2>1. audit' \in [Broadcasts -> SUBSET {"created", "approved", "rejected", "sent",
                                           "failed", "expired"}]
    BY <1>1, Typed DEF BroadcastInv
  <2>. QED
    BY <1>1, <1>2, <1>3, <2>1, SenderMovesOn
<1>4. CASE SetStatus(B(q), "failed") /\ Goto(q, NoTask)
  <2>1. /\ task' \in [Requests -> TaskType] /\ task'[q] = NoTask
        /\ \A p \in Requests \ {q} : task'[p] = task[p]
    BY <1>4, NoTaskType, TaskSet DEF BroadcastInv
  <2>2. ~Sending(q)'
    BY <2>1, NoTaskType DEF Sending, IsSending, InFlight, BeforeSending
  <2>3. faults' \in 0..MaxFaults /\ task[q].pc \in InFlight
    BY <1>1, Typed DEF BroadcastInv, InFlight, BeforeSending
  <2>. QED
    BY <1>1, <1>4, <2>1, <2>2, <2>3, SenderStops
<1>. QED
  BY <1>3, <1>4 DEF ResolveContacts

\* The contacts are triggered the first time.
LEMMA TriggerInv ==
    ASSUME BroadcastInv, NEW q \in Requests, Trigger(q) PROVE BroadcastInv'
<1>. DEFINE b == B(q)
<1>1. /\ Sending(q) /\ task[q].pc = "trigger" /\ Next1(q, "mark")
      /\ sends' = [sends EXCEPT ![b] = @ + 1] /\ UNCHANGED <<row, audit, charges, faults>>
  BY DEF Trigger, Sending, IsSending, InFlight, BeforeSending
<1>2. /\ b \in Broadcasts /\ b = task[q].b /\ FitsTask(task[q], row[b], sends[b], charges[b])
      /\ BooksBalance(row[b], sends[b], charges[b])
  BY <1>1, SenderKnows
<1>3. /\ task' \in [Requests -> TaskType] /\ task'[q].pc = "mark" /\ task'[q].b = task[q].b
      /\ task'[q].late = task[q].late /\ task'[q].todo = task[q].todo
      /\ \A p \in Requests \ {q} : task'[p] = task[p]
  BY <1>1, TaskMoves DEF BroadcastInv
<1>4. B(q)' = b /\ b = B(q)
  BY <1>2, <1>3 DEF B
<1>. HIDE DEF b
<1>5. row[b].status = "sending" /\ sends[b] = 0 /\ ~task[q].late
  BY <1>1, <1>2 DEF FitsTask, InFlight, BeforeSending
<1>6. /\ sends' \in [Broadcasts -> Nat] /\ sends'[b] = 1
      /\ \A a \in Broadcasts \ {b} : sends'[a] = sends[a]
  BY <1>1, <1>2, <1>5, Typed DEF BroadcastInv
<1>7. BroadcastTypeOK'
  BY <1>1, <1>3, <1>6, Typed, TypeStep DEF BroadcastInv
<1>8. \A ch \in Channels : charges[b][ch] = 0
  <2>1. \A ch \in Channels : charges[b][ch] \in Nat
    BY <1>2, Typed DEF BroadcastInv
  <2>. QED
    BY <1>2, <1>5, <2>1 DEF BooksBalance
<1>9. BooksBalance(row'[b], sends'[b], charges'[b])
  BY <1>1, <1>2, <1>5, <1>6, <1>8 DEF BooksBalance, Unsent
<1>10. FitsTask(task'[q], row'[b], sends'[b], charges'[b])
  BY <1>1, <1>2, <1>3, <1>5, <1>6 DEF FitsTask, InFlight, BeforeSending
<1>. QED
  BY <1>1, <1>3, <1>4, <1>6, <1>7, <1>9, <1>10, SenderStepInv

\* The status says sent before anything is charged.
LEMMA MarkSentInv ==
    ASSUME BroadcastInv, NEW q \in Requests, MarkSent(q) PROVE BroadcastInv'
<1>. DEFINE b == B(q)
<1>1. /\ Sending(q) /\ task[q].pc = "mark" /\ Next1(q, "charge")
      /\ SetStatus(b, "sent") /\ UNCHANGED <<audit, sends, charges, faults>>
  BY DEF MarkSent, Sending, IsSending, InFlight
<1>2. /\ b \in Broadcasts /\ b = task[q].b /\ FitsTask(task[q], row[b], sends[b], charges[b])
      /\ BooksBalance(row[b], sends[b], charges[b])
  BY <1>1, SenderKnows
<1>3. /\ task' \in [Requests -> TaskType] /\ task'[q].pc = "charge" /\ task'[q].b = task[q].b
      /\ task'[q].late = task[q].late /\ task'[q].todo = task[q].todo
      /\ \A p \in Requests \ {q} : task'[p] = task[p]
  BY <1>1, TaskMoves DEF BroadcastInv
<1>4. B(q)' = b /\ b = B(q) /\ "sent" \in Statuses
  BY <1>2, <1>3 DEF B, Statuses
<1>. HIDE DEF b
<1>5. /\ row[b].status = "sending" /\ sends[b] = 1 /\ ~task[q].late
      /\ task[q].todo \subseteq row[b].channels
  BY <1>1, <1>2 DEF FitsTask, InFlight
<1>6. /\ row' \in [Broadcasts -> RowType] /\ row'[b].status = "sent"
      /\ row'[b].channels = row[b].channels /\ row'[b].approved = row[b].approved
  BY <1>1, <1>2, <1>4, StatusSet DEF BroadcastInv
<1>7. \A a \in Broadcasts \ {b} : row'[a] = row[a]
  BY <1>1, Typed DEF SetStatus, BroadcastInv
<1>8. BroadcastTypeOK'
  BY <1>1, <1>3, <1>6, Typed, TypeStep DEF BroadcastInv
<1>9. \A ch \in Channels : charges[b][ch] = 0
  <2>1. \A ch \in Channels : charges[b][ch] \in Nat
    BY <1>2, Typed DEF BroadcastInv
  <2>. QED
    BY <1>2, <1>5, <2>1 DEF BooksBalance
<1>10. row[b].approved
  BY <1>2, <1>5 DEF BooksBalance, Approved
<1>11. BooksBalance(row'[b], sends'[b], charges'[b])
  BY <1>1, <1>5, <1>6, <1>9, <1>10 DEF BooksBalance, Unsent
<1>12. task[q].todo \subseteq Channels
  BY Typed DEF BroadcastInv, TaskType
<1>13. FitsTask(task'[q], row'[b], sends'[b], charges'[b])
  BY <1>1, <1>3, <1>5, <1>6, <1>9, <1>12 DEF FitsTask, InFlight, BeforeSending
<1>. QED
  BY <1>1, <1>3, <1>4, <1>7, <1>8, <1>11, <1>13, SenderStepInv

\* Each channel of a sent broadcast is charged once at most, and only a metered one.
LEMMA ChargeInv ==
    ASSUME BroadcastInv, NEW q \in Requests, Charge(q) PROVE BroadcastInv'
<1>. DEFINE b == B(q)
<1>1. /\ Sending(q) /\ task[q].pc = "charge" /\ UNCHANGED <<row, audit, sends, faults>>
  BY DEF Charge, Sending, IsSending
<1>2. PICK ch \in task[q].todo :
        /\ Goto(q, [task[q] EXCEPT !.todo = @ \ {ch}])
        /\ \/ ch \in Metered /\ charges' = [charges EXCEPT ![b][ch] = @ + 1]
           \/ charges' = charges
  BY DEF Charge
<1>3. /\ b \in Broadcasts /\ b = task[q].b /\ FitsTask(task[q], row[b], sends[b], charges[b])
      /\ BooksBalance(row[b], sends[b], charges[b])
  BY <1>1, SenderKnows
<1>. DEFINE t == task[q]
            x == [t EXCEPT !.todo = @ \ {ch}]
<1>4. t \in TaskType
  BY Typed DEF BroadcastInv
<1>5. /\ x \in TaskType /\ x.pc = t.pc /\ x.b = t.b /\ x.late = t.late
      /\ x.todo = t.todo \ {ch}
  <2>. HIDE DEF t
  <2>. QED
    BY <1>4 DEF TaskType
<1>6. Goto(q, x)
  BY <1>2
<1>. HIDE DEF x
<1>7. /\ task' \in [Requests -> TaskType] /\ task'[q] = x
      /\ \A p \in Requests \ {q} : task'[p] = task[p]
  BY <1>5, <1>6, TaskSet DEF BroadcastInv
<1>8. B(q)' = b /\ b = B(q)
  BY <1>3, <1>5, <1>7 DEF B
<1>9. ch \in task[q].todo /\ task[q].todo \subseteq Channels
  BY <1>2, <1>4 DEF TaskType
<1>10. /\ row[b].status = "sent" /\ sends[b] = 1 /\ ~task[q].late
       /\ task[q].todo \subseteq row[b].channels /\ \A c \in task[q].todo : charges[b][c] = 0
  BY <1>1, <1>3 DEF FitsTask
<1>. DEFINE f == charges[b]
            g == [f EXCEPT ![ch] = @ + 1]
<1>11. charges \in [Broadcasts -> [Channels -> Nat]] /\ f \in [Channels -> Nat]
  BY <1>3, Typed DEF BroadcastInv
<1>12. /\ g \in [Channels -> Nat] /\ g[ch] = 1 /\ \A c \in Channels \ {ch} : g[c] = f[c]
  <2>1. f[ch] = 0
    BY <1>9, <1>10
  <2>. HIDE DEF f
  <2>. QED
    BY <1>9, <1>11, <2>1
<1>13. \/ ch \in Metered /\ charges' = [charges EXCEPT ![b] = g]
       \/ charges' = charges
  BY <1>2
<1>. HIDE DEF b, g
<1>14. /\ charges' \in [Broadcasts -> [Channels -> Nat]]
       /\ \A a \in Broadcasts \ {b} : charges'[a] = charges[a]
       /\ \A c \in Channels \ {ch} : charges'[b][c] = charges[b][c]
       /\ charges'[b][ch] \in {0, 1} /\ (charges'[b][ch] = 1 => ch \in Metered)
  <2>1. CASE ch \in Metered /\ charges' = [charges EXCEPT ![b] = g]
    BY <1>3, <1>11, <1>12, <2>1
  <2>2. CASE charges' = charges
    BY <1>3, <1>9, <1>10, <1>11, <2>2
  <2>. QED
    BY <1>13, <2>1, <2>2
<1>15. BroadcastTypeOK'
  BY <1>1, <1>7, <1>14, Typed, TypeStep DEF BroadcastInv
<1>16. BooksBalance(row'[b], sends'[b], charges'[b])
  BY <1>1, <1>3, <1>9, <1>10, <1>14 DEF BooksBalance, Unsent
<1>17. FitsTask(task'[q], row'[b], sends'[b], charges'[b])
  BY <1>1, <1>5, <1>7, <1>9, <1>10, <1>14 DEF FitsTask, InFlight, BeforeSending
<1>. QED
  BY <1>1, <1>7, <1>8, <1>14, <1>15, <1>16, <1>17, SenderStepInv

\* A request that ends leaves the broadcasts as they are.
LEMMA RequestEndsInv ==
    ASSUME BroadcastInv, NEW q \in Requests,
           LogDecision(q) \/ Done(q) \/ LogFailure(q) \/ Abandon(q)
    PROVE  BroadcastInv'
<1>1. Goto(q, NoTask) /\ UNCHANGED <<row, sends, charges>>
  BY DEF LogDecision, Done, LogFailure, Abandon
<1>2. /\ task' \in [Requests -> TaskType] /\ task'[q] = NoTask
      /\ \A p \in Requests \ {q} : task'[p] = task[p]
  BY <1>1, NoTaskType, TaskSet DEF BroadcastInv
<1>3. ~Sending(q)'
  BY <1>2, NoTaskType DEF Sending, IsSending, InFlight, BeforeSending
<1>4. faults' \in 0..MaxFaults
  <2>1. faults' = faults \/ (faults < MaxFaults /\ faults' = faults + 1)
    BY DEF LogDecision, Done, LogFailure, Abandon, Fault
  <2>2. faults \in 0..MaxFaults
    BY Typed DEF BroadcastInv
  <2>. QED
    BY <2>1, <2>2
<1>5. audit' \in [Broadcasts -> SUBSET {"created", "approved", "rejected", "sent",
                                         "failed", "expired"}]
  <2>1. CASE LogDecision(q) \/ LogFailure(q)
    BY <2>1, Typed DEF BroadcastInv, LogDecision, LogFailure, Log
  <2>2. CASE Done(q) \/ Abandon(q)
    BY <2>2, Typed DEF BroadcastInv, Done, Abandon
  <2>. QED
    BY <2>1, <2>2
<1>6. BroadcastTypeOK'
  BY <1>1, <1>2, <1>4, <1>5, Typed, TypeStep DEF BroadcastInv
<1>. QED
  BY <1>1, <1>2, <1>3, <1>6, QuietStepInv

\* A failing statement of the background part writes the failure.
LEMMA SendThrowsInv ==
    ASSUME BroadcastInv, NEW q \in Requests, SendThrows(q) PROVE BroadcastInv'
<1>1. /\ Sending(q) /\ task[q].pc \in {"resolve", "mark"} /\ Next1(q, "log failed")
      /\ SetStatus(B(q), "failed") /\ UNCHANGED <<audit, sends, charges>>
  BY DEF SendThrows, Sending, IsSending, InFlight, BeforeSending
<1>2. /\ task' \in [Requests -> TaskType] /\ task'[q].pc = "log failed"
      /\ \A p \in Requests \ {q} : task'[p] = task[p]
  BY <1>1, TaskMoves DEF BroadcastInv
<1>3. ~Sending(q)' /\ task[q].pc \in InFlight
  BY <1>1, <1>2 DEF Sending, IsSending, InFlight, BeforeSending
<1>4. faults' \in 0..MaxFaults
  <2>1. faults < MaxFaults /\ faults' = faults + 1
    BY DEF SendThrows, Fault
  <2>2. faults \in 0..MaxFaults
    BY Typed DEF BroadcastInv
  <2>. QED
    BY <2>1, <2>2
<1>. QED
  BY <1>1, <1>2, <1>3, <1>4, SenderStops

\* Every step keeps the invariant.
LEMMA Inductive == BroadcastInv /\ [Next]_vars => BroadcastInv'
<1>. SUFFICES ASSUME BroadcastInv, [Next]_vars PROVE BroadcastInv'
  OBVIOUS
<1>1. ASSUME NEW b \in Broadcasts, Create(b) PROVE BroadcastInv'
  BY <1>1, CreateInv
<1>2. ASSUME NEW b \in Broadcasts, Delete(b) \/ Expire(b) PROVE BroadcastInv'
  BY <1>2, WithdrawInv
<1>3. ASSUME NEW b \in Broadcasts, ThreeDaysPass(b) PROVE BroadcastInv'
  BY <1>3, ThreeDaysPassInv
<1>4. ASSUME NEW b \in Broadcasts, NEW q \in Requests, Approve(q, b) \/ Reject(q, b)
      PROVE  BroadcastInv'
  BY <1>4, DecisionInv
<1>5. ASSUME NEW b \in Broadcasts, NEW q \in Requests, StartSend(q, b) PROVE BroadcastInv'
  BY <1>5, StartSendInv
<1>6. ASSUME NEW q \in Requests, Proceed(q) \/ SendThrows(q) \/ Abandon(q)
      PROVE  BroadcastInv'
  BY <1>6, CheckExpiryInv, LogSentInv, ResolveContactsInv, TriggerInv, MarkSentInv, ChargeInv,
     RequestEndsInv, SendThrowsInv DEF Proceed
<1>7. CASE UNCHANGED vars
  BY <1>7 DEF vars, BroadcastInv, BroadcastTypeOK, SendersFit, SendersApart, RowsBooked, Sending,
     Fits, Booked, B
<1>. QED
  BY <1>1, <1>2, <1>3, <1>4, <1>5, <1>6, <1>7 DEF Next

\* The invariant of the protocol.
THEOREM BroadcastInvariant == Spec => []BroadcastInv
  BY Initially, Inductive, PTL DEF Spec
-----------------------------------------------------------------------------
(* The properties.                                                         *)

\* Rows and requests keep their shape.
THEOREM BroadcastTypes == Spec => []BroadcastTypeOK
<1>1. BroadcastInv => BroadcastTypeOK
  BY DEF BroadcastInv
<1>. QED
  BY <1>1, BroadcastInvariant, PTL

\* However many people click Send and whatever fails, the contacts of a broadcast
\* are triggered at most once, and never without an approval.
THEOREM SentOnce == Spec => []SentAtMostOnce
<1>1. BroadcastInv => SentAtMostOnce
  <2>. SUFFICES ASSUME BroadcastInv, NEW b \in Broadcasts
                PROVE  sends[b] <= 1 /\ (sends[b] > 0 => row[b].approved)
    BY DEF SentAtMostOnce
  <2>1. BooksBalance(row[b], sends[b], charges[b])
    BY DEF BroadcastInv, RowsBooked, Booked
  <2>2. row[b].status \in Unsent \union Approved /\ sends[b] \in Nat
    BY Typed DEF BroadcastInv, RowType, Statuses, Unsent, Approved
  <2>. QED
    BY <2>1, <2>2 DEF BooksBalance
<1>. QED
  BY <1>1, BroadcastInvariant, PTL

\* What is charged was sent: once per metered channel of the broadcast at most.
THEOREM ChargedOnce == Spec => []ChargedForWhatWasSent
<1>1. BroadcastInv => ChargedForWhatWasSent
  BY DEF BroadcastInv, RowsBooked, Booked, BooksBalance, ChargedForWhatWasSent
<1>. QED
  BY <1>1, BroadcastInvariant, PTL

\* A broadcast found expired when Send was clicked is not sent.
THEOREM LateIsNotSent == Spec => NoLateSend
<1>1. ASSUME BroadcastInv, [Next]_vars, NEW q \in Requests, NEW b \in Broadcasts,
             Working(q, b), task[q].late
      PROVE  sends'[b] = sends[b]
  <2>1. Sending(q) /\ B(q) = b
    BY <1>1 DEF Working, Sending, IsSending, InFlight, BeforeSending, B
  <2>2. task[q].pc = "check"
    BY <1>1, <2>1, SenderKnows DEF FitsTask
  <2>3. ASSUME NEW p \in Requests, Trigger(p) PROVE sends'[b] = sends[b]
    <3>1. Sending(p) /\ task[p].pc = "trigger" /\ sends' = [sends EXCEPT ![B(p)] = @ + 1]
      BY <2>3 DEF Trigger, Sending, IsSending, InFlight, BeforeSending
    <3>2. B(p) # b
      BY <1>1, <2>1, <2>2, <3>1 DEF BroadcastInv, SendersApart
    <3>. QED
      BY <1>1, <3>1, <3>2, Typed DEF BroadcastInv
  <2>4. CASE ~\E p \in Requests : Trigger(p)
    BY <1>1, <2>4 DEF Next, Proceed, vars, Create, Delete, ThreeDaysPass, Expire, Approve, Reject,
       StartSend, LogDecision, CheckExpiry, LogSent, ResolveContacts, MarkSent, Charge, Done,
       SendThrows, LogFailure, Abandon
  <2>. QED
    BY <2>3, <2>4
<1>2. BroadcastInv /\ [Next]_vars =>
        \A q \in Requests : \A b \in Broadcasts :
          Working(q, b) /\ task[q].late => sends'[b] = sends[b]
  BY <1>1
<1>. QED
  BY <1>2, BroadcastInvariant, PTL DEF Spec, NoLateSend

FinalStays(b) ==
    /\ row[b].status \in {"rejected", "expired", "deleted", "sent", "failed"}
         => row'[b].status = row[b].status
    /\ row[b].status = "approved" => row'[b].status \in {"approved", "sending"}

\* A status written over one that is not final.
LEMMA FinalByStatus ==
    ASSUME BroadcastInv, NEW a \in Broadcasts, NEW s \in Statuses, SetStatus(a, s),
           \/ row[a].status \in {"none", "pending_approval", "sending"}
           \/ row[a].status = "approved" /\ s = "sending",
           NEW b \in Broadcasts
    PROVE  FinalStays(b)
<1>1. row'[b].status = IF b = a THEN s ELSE row[b].status
  BY StatusSet DEF BroadcastInv
<1>. QED
  BY <1>1 DEF FinalStays

\* A row rewritten, with any fields, from a status that is not final.
LEMMA FinalByRow ==
    ASSUME BroadcastInv, NEW a \in Broadcasts, row[a].status \in {"none", "pending_approval"},
           NEW x, row' = [row EXCEPT ![a] = x], NEW b \in Broadcasts
    PROVE  FinalStays(b)
<1>1. b # a => row'[b] = row[b]
  BY Typed DEF BroadcastInv
<1>. QED
  BY <1>1 DEF FinalStays

\* A decision is final, and an approved broadcast only ever goes to its sending.
THEOREM DecisionsAreFinal == Spec => DecisionIsFinal
<1>1. ASSUME BroadcastInv, [Next]_vars, NEW b \in Broadcasts PROVE FinalStays(b)
  <2>. USE <1>1
  <2>1. ASSUME NEW a \in Broadcasts, Create(a) PROVE FinalStays(b)
    <3>1. PICK chs \in SUBSET Channels :
            row' = [row EXCEPT ![a] = [@ EXCEPT !.status = "pending_approval", !.channels = chs]]
      BY <2>1 DEF Create
    <3>. DEFINE r == row[a]
                x == [r EXCEPT !.status = "pending_approval", !.channels = chs]
    <3>2. row' = [row EXCEPT ![a] = x] /\ r.status = "none"
      BY <2>1, <3>1 DEF Create
    <3>. HIDE DEF x
    <3>. QED
      BY <3>2, FinalByRow
  <2>2. ASSUME NEW a \in Broadcasts, NEW q \in Requests, Approve(q, a) PROVE FinalStays(b)
    <3>. DEFINE r == row[a]
                x == [r EXCEPT !.status = "approved", !.approved = TRUE]
    <3>1. row' = [row EXCEPT ![a] = x] /\ r.status = "pending_approval"
      BY <2>2 DEF Approve
    <3>. HIDE DEF x
    <3>. QED
      BY <3>1, FinalByRow
  <2>3. ASSUME NEW a \in Broadcasts, NEW s \in {"rejected", "deleted", "expired"},
               row[a].status = "pending_approval", SetStatus(a, s)
        PROVE  FinalStays(b)
    <3>1. s \in Statuses
      BY DEF Statuses
    <3>. QED
      BY <2>3, <3>1, FinalByStatus
  <2>4. ASSUME NEW a \in Broadcasts, ThreeDaysPass(a) PROVE FinalStays(b)
    <3>. DEFINE r == row[a]
                x == [r EXCEPT !.late = TRUE]
    <3>1. row' = [row EXCEPT ![a] = x] /\ row \in [Broadcasts -> RowType] /\ r \in RowType
      BY <2>4, Typed DEF ThreeDaysPass, BroadcastInv
    <3>2. x.status = r.status
      <4>. HIDE DEF r
      <4>. QED
        BY <3>1 DEF RowType
    <3>. HIDE DEF x
    <3>3. row'[b].status = row[b].status
      BY <3>1, <3>2
    <3>. QED
      BY <3>3 DEF FinalStays
  <2>5. ASSUME NEW a \in Broadcasts, NEW q \in Requests, StartSend(q, a) PROVE FinalStays(b)
    <3>1. SetStatus(a, "sending") /\ row[a].status = "approved" /\ "sending" \in Statuses
      BY <2>5 DEF StartSend, Statuses
    <3>. QED
      BY <3>1, FinalByStatus
  <2>6. ASSUME NEW q \in Requests, task[q].pc \in InFlight,
               NEW s \in {"approved", "sent", "failed"}, SetStatus(B(q), s)
        PROVE  FinalStays(b)
    <3>1. Sending(q) /\ s \in Statuses
      BY <2>6 DEF Sending, IsSending, Statuses
    <3>2. B(q) \in Broadcasts /\ row[B(q)].status = "sending"
      BY <2>6, <3>1, SenderKnows DEF FitsTask
    <3>. QED
      BY <2>6, <3>1, <3>2, FinalByStatus
  <2>7. CASE UNCHANGED row
    BY <2>7 DEF FinalStays
  <2>8. ASSUME NEW q \in Requests, Proceed(q) \/ SendThrows(q) \/ Abandon(q)
        PROVE  FinalStays(b)
    <3>1. CASE CheckExpiry(q)
      BY <2>6, <2>7, <3>1 DEF CheckExpiry, InFlight, BeforeSending
    <3>2. CASE ResolveContacts(q)
      BY <2>6, <2>7, <3>2 DEF ResolveContacts, InFlight, BeforeSending
    <3>3. CASE MarkSent(q)
      BY <2>6, <3>3 DEF MarkSent, InFlight
    <3>4. CASE SendThrows(q)
      BY <2>6, <3>4 DEF SendThrows, InFlight, BeforeSending
    <3>5. CASE \/ LogDecision(q) \/ LogSent(q) \/ Trigger(q) \/ Charge(q) \/ Done(q)
               \/ LogFailure(q) \/ Abandon(q)
      BY <2>7, <3>5 DEF LogDecision, LogSent, Trigger, Charge, Done, LogFailure, Abandon
    <3>. QED
      BY <2>8, <3>1, <3>2, <3>3, <3>4, <3>5 DEF Proceed
  <2>9. ASSUME NEW a \in Broadcasts, Delete(a) \/ Expire(a) PROVE FinalStays(b)
    BY <2>3, <2>9 DEF Delete, Expire
  <2>10. ASSUME NEW a \in Broadcasts, NEW q \in Requests, Reject(q, a) PROVE FinalStays(b)
    BY <2>3, <2>10 DEF Reject
  <2>11. CASE UNCHANGED vars
    BY <2>7, <2>11 DEF vars
  <2>. QED
    BY <2>1, <2>2, <2>4, <2>5, <2>8, <2>9, <2>10, <2>11 DEF Next
<1>2. BroadcastInv /\ [Next]_vars => \A b \in Broadcasts : FinalStays(b)
  BY <1>1
<1>3. BroadcastInv /\ [Next]_vars => \A b \in Broadcasts :
        /\ row[b].status \in {"rejected", "expired", "deleted", "sent", "failed"}
             => row'[b].status = row[b].status
        /\ row[b].status = "approved" => row'[b].status \in {"approved", "sending"}
  BY <1>2 DEF FinalStays
<1>. QED
  BY <1>3, BroadcastInvariant, PTL DEF Spec, DecisionIsFinal
=============================================================================

----------------------------- MODULE Broadcasts -----------------------------
(***************************************************************************)
(* backend/src/lib/broadcastEngine.ts and the send route of                *)
(* routes/outreach.ts: a mass outreach waits for one approval, is sent in  *)
(* the background and charged per channel.  One action per statement of a  *)
(* request; the requests of several people interleave.                     *)
(***************************************************************************)
EXTENDS Integers, FiniteSets

CONSTANTS
    Broadcasts,
    Requests,    \* request handlers (and background senders) at work at once
    Channels,    \* channels a broadcast may name
    Metered,     \* those with a credit price, email and sms
    MaxFaults    \* bound on crashes and failing statements

ASSUME BroadcastAssumption == Metered \subseteq Channels /\ MaxFaults \in Nat

VARIABLES
    row,      \* outreach_broadcasts: status, the channels, whether expires_at has
              \* passed; history: whether it was approved, and approved in time
    audit,    \* broadcast_audit_log: the actions recorded
    task,     \* per request: its next statement
    sends,    \* history: how often the contacts of a broadcast were triggered
    charges,  \* history: debits per broadcast and channel
    faults

vars == <<row, audit, task, sends, charges, faults>>

Statuses == {"none", "pending_approval", "approved", "rejected", "sending",
             "sent", "failed", "expired", "deleted"}

NoTask == [pc |-> "idle", b |-> 0, late |-> FALSE, todo |-> {}]
Task(pc, b) == [NoTask EXCEPT !.pc = pc, !.b = b]
Free(q) == task[q] = NoTask
Goto(q, t) == task' = [task EXCEPT ![q] = t]
Next1(q, pc) == Goto(q, [task[q] EXCEPT !.pc = pc])
B(q) == task[q].b
SetStatus(b, s) == row' = [row EXCEPT ![b] = [@ EXCEPT !.status = s]]
Log(b, action) == audit' = [audit EXCEPT ![b] = @ \union {action}]
Fault == faults < MaxFaults /\ faults' = faults + 1

Init ==
    /\ row = [b \in Broadcasts |-> [status |-> "none", channels |-> {}, late |-> FALSE,
                                    approved |-> FALSE]]
    /\ audit = [b \in Broadcasts |-> {}]
    /\ task = [q \in Requests |-> NoTask]
    /\ sends = [b \in Broadcasts |-> 0]
    /\ charges = [b \in Broadcasts |-> [ch \in Channels |-> 0]]
    /\ faults = 0
-----------------------------------------------------------------------------
(* Creation, decision, expiry.                                             *)

\* createBroadcast: the row and its audit entry in one transaction.
Create(b) ==
    /\ row[b].status = "none"
    /\ \E chs \in SUBSET Channels :
        row' = [row EXCEPT ![b] = [@ EXCEPT !.status = "pending_approval", !.channels = chs]]
    /\ Log(b, "created")
    /\ UNCHANGED <<task, sends, charges, faults>>

\* Mutant: the UPDATE does not compare the status.
ApproveAnything(q, b) ==
    /\ Free(q) /\ row[b].status \notin {"none", "deleted"} /\ ~row[b].late
    /\ row' = [row EXCEPT ![b] = [@ EXCEPT !.status = "approved", !.approved = TRUE]]
    /\ Goto(q, Task("log approved", b))
    /\ UNCHANGED <<audit, sends, charges, faults>>

\* approveBroadcast: a conditional UPDATE (409 when it matches nothing).
Approve(q, b) ==
    /\ Free(q) /\ row[b].status = "pending_approval" /\ ~row[b].late
    /\ row' = [row EXCEPT ![b] = [@ EXCEPT !.status = "approved", !.approved = TRUE]]
    /\ Goto(q, Task("log approved", b))
    /\ UNCHANGED <<audit, sends, charges, faults>>

\* rejectBroadcast: the same without a look at expires_at.
Reject(q, b) ==
    /\ Free(q) /\ row[b].status = "pending_approval"
    /\ SetStatus(b, "rejected")
    /\ Goto(q, Task("log rejected", b))
    /\ UNCHANGED <<audit, sends, charges, faults>>

\* ... then the audit row in a statement of its own.
LogDecision(q) ==
    /\ \/ task[q].pc = "log approved" /\ Log(B(q), "approved")
       \/ task[q].pc = "log rejected" /\ Log(B(q), "rejected")
    /\ Goto(q, NoTask)
    /\ UNCHANGED <<row, sends, charges, faults>>

\* DELETE, cascading to the audit rows.
Delete(b) ==
    /\ row[b].status = "pending_approval"
    /\ SetStatus(b, "deleted")
    /\ audit' = [audit EXCEPT ![b] = {}]
    /\ UNCHANGED <<task, sends, charges, faults>>

ThreeDaysPass(b) ==
    /\ row[b].status \notin {"none", "deleted"} /\ ~row[b].late
    /\ row' = [row EXCEPT ![b] = [@ EXCEPT !.late = TRUE]]
    /\ UNCHANGED <<audit, task, sends, charges, faults>>

\* Mutant: what was approved expires.
ExpireApproved(b) ==
    /\ row[b].status = "approved" /\ row[b].late
    /\ SetStatus(b, "expired") /\ Log(b, "expired")
    /\ UNCHANGED <<task, sends, charges, faults>>

\* expire_stale_broadcasts(), run by the scheduler: one statement.
Expire(b) ==
    /\ row[b].status = "pending_approval" /\ row[b].late
    /\ SetStatus(b, "expired") /\ Log(b, "expired")
    /\ UNCHANGED <<task, sends, charges, faults>>
-----------------------------------------------------------------------------
(* POST /broadcasts/:id/send.                                              *)

\* Mutant: the status is read and written in two statements.
ReadApproved(q, b) ==
    /\ Free(q) /\ row[b].status \in {"approved", "sending"}
    /\ SetStatus(b, "sending")
    /\ Goto(q, [Task("check", b) EXCEPT !.todo = row[b].channels, !.late = row[b].late])
    /\ UNCHANGED <<audit, sends, charges, faults>>

\* The compare-and-set approved -> sending ...
StartSend(q, b) ==
    /\ Free(q) /\ row[b].status = "approved"
    /\ SetStatus(b, "sending")
    /\ Goto(q, [Task("check", b) EXCEPT !.todo = row[b].channels, !.late = row[b].late])
    /\ UNCHANGED <<audit, sends, charges, faults>>

\* Mutant: expiry is not checked.
NoExpiryCheck(q) ==
    /\ task[q].pc = "check"
    /\ Next1(q, "log sent")
    /\ UNCHANGED <<row, audit, sends, charges, faults>>

\* ... the expiry check on the clock of this process, which gives the
\* broadcast back ...
CheckExpiry(q) ==
    /\ task[q].pc = "check"
    /\ IF row[B(q)].late
       THEN SetStatus(B(q), "approved") /\ Goto(q, NoTask)
       ELSE Next1(q, "log sent") /\ UNCHANGED row
    /\ UNCHANGED <<audit, sends, charges, faults>>

\* ... the audit row, before anything is sent ...
LogSent(q) ==
    /\ task[q].pc = "log sent"
    /\ Log(B(q), "sent")
    /\ Next1(q, "resolve")
    /\ UNCHANGED <<row, sends, charges, faults>>

\* ... and, after the response, the contacts: those of the segment or of the
\* list that consented, possibly none.
ResolveContacts(q) ==
    /\ task[q].pc = "resolve"
    /\ \/ Next1(q, "trigger") /\ UNCHANGED row
       \/ SetStatus(B(q), "failed") /\ Goto(q, NoTask)
    /\ UNCHANGED <<audit, sends, charges, faults>>

\* triggerWorkflowBulk: a failing batch is logged and forgotten, an absent Novu
\* client sends nothing; the caller cannot tell.
Trigger(q) ==
    /\ task[q].pc = "trigger"
    /\ sends' = [sends EXCEPT ![B(q)] = @ + 1]
    /\ Next1(q, "mark")
    /\ UNCHANGED <<row, audit, charges, faults>>

MarkSent(q) ==
    /\ task[q].pc = "mark"
    /\ SetStatus(B(q), "sent")
    /\ Next1(q, "charge")
    /\ UNCHANGED <<audit, sends, charges, faults>>

\* Mutant: every channel is charged.
ChargeAll(q) ==
    /\ task[q].pc = "charge"
    /\ \E ch \in task[q].todo :
        /\ charges' = [charges EXCEPT ![B(q)][ch] = @ + 1]
        /\ Goto(q, [task[q] EXCEPT !.todo = @ \ {ch}])
    /\ UNCHANGED <<row, audit, sends, faults>>

\* debitCredits per metered channel; a refused or failing debit is logged.
Charge(q) ==
    /\ task[q].pc = "charge"
    /\ \E ch \in task[q].todo :
        /\ Goto(q, [task[q] EXCEPT !.todo = @ \ {ch}])
        /\ \/ ch \in Metered /\ charges' = [charges EXCEPT ![B(q)][ch] = @ + 1]
           \/ UNCHANGED charges
    /\ UNCHANGED <<row, audit, sends, faults>>

Done(q) ==
    /\ task[q].pc = "charge" /\ task[q].todo = {}
    /\ Goto(q, NoTask)
    /\ UNCHANGED <<row, audit, sends, charges, faults>>

\* A statement of the background part throws: the catch writes the failure
\* (over 'sent' too, had a later statement thrown) and then its audit row.
SendThrows(q) ==
    /\ task[q].pc \in {"resolve", "mark"}
    /\ Fault
    /\ SetStatus(B(q), "failed")
    /\ Next1(q, "log failed")
    /\ UNCHANGED <<audit, sends, charges>>

LogFailure(q) ==
    /\ task[q].pc = "log failed"
    /\ Log(B(q), "failed")
    /\ Goto(q, NoTask)
    /\ UNCHANGED <<row, sends, charges, faults>>

\* The process dies, or a statement before the response throws (500).
Abandon(q) ==
    /\ ~Free(q)
    /\ Fault
    /\ Goto(q, NoTask)
    /\ UNCHANGED <<row, audit, sends, charges>>
-----------------------------------------------------------------------------
Proceed(q) ==
    \/ LogDecision(q) \/ CheckExpiry(q) \/ LogSent(q) \/ ResolveContacts(q)
    \/ Trigger(q) \/ MarkSent(q) \/ Charge(q) \/ Done(q) \/ LogFailure(q)

Next ==
    \/ \E b \in Broadcasts :
        \/ Create(b) \/ Delete(b) \/ ThreeDaysPass(b) \/ Expire(b)
        \/ \E q \in Requests : Approve(q, b) \/ Reject(q, b) \/ StartSend(q, b)
    \/ \E q \in Requests : Proceed(q) \/ SendThrows(q) \/ Abandon(q)

(* A request that started goes on; time passes; the scheduler's job runs   *)
(* every five minutes.  Nobody has to decide or to send.                   *)
Fairness ==
    /\ \A q \in Requests : WF_vars(Proceed(q))
    /\ \A b \in Broadcasts : WF_vars(ThreeDaysPass(b)) /\ WF_vars(Expire(b))

Spec == Init /\ [][Next]_vars /\ Fairness
-----------------------------------------------------------------------------
Working(q, b) == task[q].b = b /\ task[q].pc \in
    {"check", "log sent", "resolve", "trigger", "mark"}

\* Rows and requests keep their shape.
BroadcastTypeOK ==
    /\ row \in [Broadcasts -> [status : Statuses, channels : SUBSET Channels,
                               late : BOOLEAN, approved : BOOLEAN]]
    /\ audit \in [Broadcasts -> SUBSET {"created", "approved", "rejected", "sent",
                                         "failed", "expired"}]
    /\ task \in [Requests ->
         [pc : {"idle", "log approved", "log rejected", "check", "log sent", "resolve",
                "trigger", "mark", "charge", "log failed"},
          b : Broadcasts \union {0}, late : BOOLEAN, todo : SUBSET Channels]]
    /\ sends \in [Broadcasts -> Nat]
    /\ charges \in [Broadcasts -> [Channels -> Nat]]
    /\ faults \in 0..MaxFaults

\* routes/outreach.ts:269, "Atomic CAS ... to prevent double-send race
\* condition": however many people click Send and whatever fails, the contacts
\* of a broadcast are triggered at most once, and never without an approval.
SentAtMostOnce ==
    \A b \in Broadcasts : /\ sends[b] <= 1
                          /\ sends[b] > 0 => row[b].approved

\* outreach_broadcasts.expires_at: a broadcast whose 72 hours were over when Send
\* was clicked is not sent, and is left as approved as it was.
NoLateSend ==
    [][\A q \in Requests : \A b \in Broadcasts :
         Working(q, b) /\ task[q].late => sends'[b] = sends[b]]_vars

\* A decision is final: nothing approves, expires, deletes or sends what was
\* rejected, expired, deleted or sent before, and an approved broadcast only
\* ever goes to its sending.
DecisionIsFinal ==
    [][\A b \in Broadcasts :
        /\ row[b].status \in {"rejected", "expired", "deleted", "sent", "failed"}
             => row'[b].status = row[b].status
        /\ row[b].status = "approved" => row'[b].status \in {"approved", "sending"}]_vars

\* docs/pricing/CREDIT_SYSTEM.md:60-61: a sent broadcast is charged once per
\* metered channel at most, other channels and unsent broadcasts not at all.
ChargedForWhatWasSent ==
    \A b \in Broadcasts, ch \in Channels :
        /\ charges[b][ch] <= sends[b]
        /\ charges[b][ch] > 0 => /\ ch \in Metered /\ ch \in row[b].channels
                                 /\ row[b].status = "sent"

\* "Pending broadcasts auto-expire after 72h to prevent stale approvals"
\* (comment on expires_at): no broadcast waits for its approval for ever.
PendingEnds ==
    \A b \in Broadcasts : row[b].status = "pending_approval" ~> row[b].status # "pending_approval"

\* supabase/migrations/20260624000010_outreach_broadcasts.sql:25, "Status machine:
\* ... -> sending -> sent/failed": a sending broadcast ends as one of them.
SendingEnds ==
    \A b \in Broadcasts : row[b].status = "sending" ~> row[b].status # "sending"

\* "Full audit trail of every state transition on a broadcast" (comment on
\* broadcast_audit_log): when nobody works on a broadcast, its status is in its
\* audit trail.
AuditIsFull ==
    \A b \in Broadcasts :
        (\A q \in Requests : task[q].b # b) /\ row[b].status \in {"approved", "rejected",
            "sent", "failed", "expired"} => row[b].status \in audit[b]
=============================================================================

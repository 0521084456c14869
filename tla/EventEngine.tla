----------------------------- MODULE EventEngine -----------------------------
(***************************************************************************)
(* backend/src/eventEngine/processor.ts with lib/notifications.ts and      *)
(* lib/channels.ts: the consumers of the notifications:events stream.  For *)
(* each entry a consumer resolves the recipients, creates a notification   *)
(* per recipient (window claim, preference, row), fans it out, publishes   *)
(* the workflow trigger and acknowledges.  One action per statement.       *)
(***************************************************************************)
EXTENDS Integers, Sequences

CONSTANTS
    Events, Users, Consumers,
    Targets,     \* [Events -> SUBSET Users]: targetUserIds, {} for org-wide events
    Admins,      \* the users an org-wide event goes to
    Windowed,    \* events with a dedupWindowMs and an entityId
    Muted,       \* <<user, event>> pairs the preference or the relevance score drops
    External,    \* users with an outbound channel on and their address not suppressed
    BatchSize,   \* COUNT of XREADGROUP
    MaxEntries, MaxWindows, MaxFaults   \* bounds

ASSUME EngineAssumption ==
    /\ Targets \in [Events -> SUBSET Users] /\ Admins \subseteq Users
    /\ Windowed \subseteq Events /\ Muted \subseteq Users \X Events
    /\ BatchSize \in Nat \ {0} /\ MaxEntries \in Nat
    /\ MaxWindows \in Nat \ {0} /\ MaxFaults \in Nat

VARIABLES
    stream,   \* notifications:events: event, delivery state and (history) whether
              \* some handling of the entry was cut short by an exception
    job,      \* per consumer: its batch and where in handleEvent it is
    claimed,  \* notification_dedup: event and window
    notes,    \* notifications, each with what its fan-out came to and (history)
              \* the entry and window it is for
    fired,    \* entries whose trigger went to the workflow:triggers stream
    window,   \* the current dedup window
    faults

vars == <<stream, job, claimed, notes, fired, window, faults>>

At(i, last, pc, todo, user, win) ==
    [at |-> i, last |-> last, pc |-> pc, todo |-> todo, user |-> user, win |-> win]
NoUser == 0
NoJob == At(0, 0, "idle", {}, NoUser, 0)
Start(i, last) == At(i, last, "resolve", {}, NoUser, 0)

Entries == DOMAIN stream
Ev(c) == stream[job[c].at].ev
Recipients(e) == IF Targets[e] # {} THEN Targets[e] ELSE Admins
Goto(c, j) == job' = [job EXCEPT ![c] = j]
Fault == faults < MaxFaults /\ faults' = faults + 1

\* On to the recipients still to go.
Onward(j) == At(j.at, j.last, "next", j.todo \ {j.user}, NoUser, 0)
To(j, pc) == At(j.at, j.last, pc, {}, NoUser, 0)
Lose(i) == stream' = [stream EXCEPT ![i] = [@ EXCEPT !.lost = TRUE]]

Init ==
    /\ stream = <<>> /\ notes = <<>>
    /\ job = [c \in Consumers |-> NoJob]
    /\ claimed = {} /\ fired = {}
    /\ window = 1 /\ faults = 0
-----------------------------------------------------------------------------
(* The stream and its consumer group.                                      *)

\* publishNotificationEvent (nothing happens while Redis is away).
Publish(e) ==
    /\ Len(stream) < MaxEntries
    /\ stream' = Append(stream, [ev |-> e, state |-> "new", lost |-> FALSE])
    /\ UNCHANGED <<job, claimed, notes, fired, window, faults>>

\* XREADGROUP '>': up to COUNT of the oldest entries become pending at once.
Deliver(c, i, last) ==
    /\ job[c] = NoJob
    /\ i <= last /\ last < i + BatchSize
    /\ stream[i].state = "new" /\ \A j \in 1..(i - 1) : stream[j].state # "new"
    /\ stream' = [j \in Entries |->
         IF j \in i..last THEN [stream[j] EXCEPT !.state = "pending"] ELSE stream[j]]
    /\ Goto(c, Start(i, last))
    /\ UNCHANGED <<claimed, notes, fired, window, faults>>

\* XAUTOCLAIM: an entry idle for 30 s, its consumer dead or only slow.
Reclaim(c, i) ==
    /\ job[c] = NoJob
    /\ stream[i].state = "pending"
    /\ Goto(c, Start(i, i))
    /\ UNCHANGED <<stream, claimed, notes, fired, window, faults>>

\* Mutant: the acknowledgement comes before the event is handled.
AckFirst(c) ==
    /\ job[c].pc = "resolve"
    /\ stream' = [stream EXCEPT ![job[c].at] = [@ EXCEPT !.state = "acked"]]
    /\ Goto(c, NoJob)
    /\ UNCHANGED <<claimed, notes, fired, window, faults>>

\* XACK in the finally clause, then the next entry of the batch (which may
\* have been reclaimed and settled meanwhile: it is handled all the same).
Ack(c) ==
    /\ job[c].pc = "ack"
    /\ stream' = [stream EXCEPT ![job[c].at] = [@ EXCEPT !.state = "acked"]]
    /\ Goto(c, IF job[c].at < job[c].last THEN Start(job[c].at + 1, job[c].last) ELSE NoJob)
    /\ UNCHANGED <<claimed, notes, fired, window, faults>>

\* The process dies, or XACK throws out of the batch into the loop's catch.
Crash(c) ==
    /\ job[c] # NoJob
    /\ Fault
    /\ Goto(c, NoJob)
    /\ UNCHANGED <<stream, claimed, notes, fired, window>>
-----------------------------------------------------------------------------
(* handleEvent and createNotification.                                     *)

Resolve(c) ==
    /\ job[c].pc = "resolve"
    /\ Goto(c, At(job[c].at, job[c].last, "next", Recipients(Ev(c)), NoUser, 0))
    /\ UNCHANGED <<stream, claimed, notes, fired, window, faults>>

\* The query for the admins throws: nobody is a recipient.
ResolveFails(c) ==
    /\ job[c].pc = "resolve" /\ Targets[Ev(c)] = {}
    /\ Fault
    /\ Goto(c, To(job[c], "next")) /\ Lose(job[c].at)
    /\ UNCHANGED <<claimed, notes, fired, window>>

\* Mutant: the conflict of the INSERT is not looked at.
ClaimAlways(c, u) ==
    /\ job[c].pc = "next" /\ u \in job[c].todo
    /\ claimed' = claimed \union {<<Ev(c), window>>}
    /\ Goto(c, At(job[c].at, job[c].last, "insert", job[c].todo, u, window))
    /\ UNCHANGED <<stream, notes, fired, window, faults>>

\* INSERT INTO notification_dedup ... ON CONFLICT DO NOTHING, for an event
\* with a window: a conflict ends it for this recipient.
Claim(c, u) ==
    /\ job[c].pc = "next" /\ u \in job[c].todo
    /\ LET key == <<Ev(c), window>>
           taken == Ev(c) \in Windowed /\ key \in claimed
       IN /\ claimed' = IF Ev(c) \in Windowed THEN claimed \union {key} ELSE claimed
          /\ Goto(c, IF taken THEN Onward([job[c] EXCEPT !.user = u])
                     ELSE At(job[c].at, job[c].last, "insert", job[c].todo, u, window))
    /\ UNCHANGED <<stream, notes, fired, window, faults>>

\* Preference and relevance, then INSERT INTO notifications.
Insert(c) ==
    /\ job[c].pc = "insert"
    /\ IF <<job[c].user, Ev(c)>> \in Muted
       THEN Goto(c, Onward(job[c])) /\ UNCHANGED notes
       ELSE /\ notes' = Append(notes, [user |-> job[c].user, ev |-> Ev(c), of |-> job[c].at,
                                       win |-> job[c].win, out |-> "waiting"])
            /\ Goto(c, [job[c] EXCEPT !.pc = "dispatch", !.win = Len(notes) + 1])
    /\ UNCHANGED <<stream, claimed, fired, window, faults>>

\* What dispatchExternalChannels can come to.  An error of its own statements it
\* catches: nothing is sent and the caller does not notice.
Outcomes(u) == IF u \in External THEN {"attempted", "swallowed"} ELSE {"inApp"}

\* dispatchExternalChannels for the row just inserted; it never throws.
Dispatch(c) ==
    /\ job[c].pc = "dispatch"
    /\ \E out \in Outcomes(job[c].user) :
        /\ notes' = [notes EXCEPT ![job[c].win] = [@ EXCEPT !.out = out]]
        /\ IF out = "swallowed" THEN Fault ELSE UNCHANGED faults
    /\ Goto(c, Onward(job[c]))
    /\ UNCHANGED <<stream, claimed, fired, window>>

\* Mutant: the trigger is published for events that had recipients left.
TriggerEarly(c) ==
    /\ job[c].pc = "next" /\ job[c].todo # {}
    /\ fired' = fired \union {job[c].at}
    /\ Goto(c, To(job[c], "ack"))
    /\ UNCHANGED <<stream, claimed, notes, window, faults>>

\* publishWorkflowTrigger, after the last recipient.
PublishTrigger(c) ==
    /\ job[c].pc = "next" /\ job[c].todo = {}
    /\ fired' = fired \union {job[c].at}
    /\ Goto(c, To(job[c], "ack"))
    /\ UNCHANGED <<stream, claimed, notes, window, faults>>

\* A statement of createNotification throws and ends the handling of the
\* event; or the trigger is not published, which is only logged.
HandlerThrows(c) ==
    /\ job[c].pc \in {"next", "insert"}
    /\ Fault
    /\ Goto(c, To(job[c], "ack")) /\ Lose(job[c].at)
    /\ UNCHANGED <<claimed, notes, fired, window>>

\* The dedup window is over (one in which nothing was claimed is not counted).
WindowEnds ==
    /\ window < MaxWindows /\ \E e \in Events : <<e, window>> \in claimed
    /\ window' = window + 1
    /\ UNCHANGED <<stream, job, claimed, notes, fired, faults>>
-----------------------------------------------------------------------------
ConsumerStep(c) ==
    \/ \E i, last \in Entries : Deliver(c, i, last)
    \/ \E i \in Entries : Reclaim(c, i)
    \/ Resolve(c) \/ \E u \in Users : Claim(c, u)
    \/ Insert(c) \/ Dispatch(c) \/ PublishTrigger(c) \/ Ack(c)

Next ==
    \/ \E e \in Events : Publish(e)
    \/ \E c \in Consumers :
        ConsumerStep(c) \/ Crash(c) \/ ResolveFails(c) \/ HandlerThrows(c)
    \/ WindowEnds

(* The loop of start() polls and, every sixth time, reclaims, for ever; a  *)
(* statement on Redis or Postgres returns or throws.                       *)
Fairness == \A c \in Consumers : WF_vars(ConsumerStep(c))

Spec == Init /\ [][Next]_vars /\ Fairness
-----------------------------------------------------------------------------
StreamType == [ev : Events, state : {"new", "pending", "acked"}, lost : BOOLEAN]
NoteType == [user : Users, ev : Events, of : Nat, win : Nat,
             out : {"waiting", "inApp", "attempted", "swallowed"}]
JobType == [at : Nat, last : Nat,
            pc : {"idle", "resolve", "next", "insert", "dispatch", "ack"},
            todo : SUBSET Users, user : Users \union {NoUser}, win : Nat]

\* The stream, the inbox and the consumers keep their shape, and a consumer
\* works on entries of the stream and, when it dispatches, on its own row.
EngineTypeOK ==
    /\ stream \in Seq(StreamType) /\ notes \in Seq(NoteType)
    /\ job \in [Consumers -> JobType]
    /\ \A c \in Consumers :
        /\ job[c] # NoJob => job[c].at \in Entries /\ job[c].last \in Entries
        /\ job[c].pc = "dispatch" => /\ job[c].win \in DOMAIN notes
                                     /\ notes[job[c].win].of = job[c].at
                                     /\ notes[job[c].win].user = job[c].user
    /\ claimed \subseteq Windowed \X Nat /\ fired \subseteq Entries
    /\ window \in 1..MaxWindows /\ faults \in 0..MaxFaults

\* NOTIFICATION_SERVICE.md:216, notification_dedup makes handling idempotent:
\* however often an event is published, redelivered or reclaimed from a slow
\* consumer, one window of it yields one notification.
OncePerWindow ==
    \A m, n \in DOMAIN notes :
        notes[m].ev \in Windowed /\ notes[m].ev = notes[n].ev
            /\ notes[m].win = notes[n].win => m = n

\* The row of user u for entry i was created and its fan-out is over, which is
\* not to say that anything was sent.
Tried(i, u) ==
    \E n \in DOMAIN notes : /\ notes[n].of = i /\ notes[n].user = u
                            /\ notes[n].out \in Outcomes(u)

Wanted(e) == {u \in Recipients(e) : <<u, e>> \notin Muted}
Settled(i) == stream[i].state = "acked" /\ ~stream[i].lost

\* processor.ts:5-7, "messages are XACK'd only after handling ... so a crashed
\* consumer's work is retried": once an event is acknowledged without an
\* exception its trigger is published and, when it has no window, every
\* recipient has its notification and the one try at the outbound channels was
\* made, whoever crashed or took over in between.  That the try delivered
\* anything is not promised: its errors are swallowed and the entry acknowledged.
AckedTriedAll ==
    \A i \in Entries : Settled(i) =>
        /\ i \in fired
        /\ stream[i].ev \notin Windowed =>
             \A u \in Wanted(stream[i].ev) : Tried(i, u)

Noticed(e, u) == \E n \in DOMAIN notes : notes[n].ev = e /\ notes[n].user = u

\* docs/notifications/NOTIFICATION_SERVICE.md:209, "Creates one `notifications`
\* row per recipient": also for an event with a window.
FanoutReachesAll ==
    \A i \in Entries : Settled(i) =>
        \A u \in Wanted(stream[i].ev) : Noticed(stream[i].ev, u)

\* docs/notifications/NOTIFICATION_SERVICE.md:214, "Redis Streams XACK ensures
\* messages are not lost if processor crashes mid-process": also an event with
\* a window and a single recipient.
CrashLosesNothing ==
    \A i \in Entries : Settled(i) =>
        \A u \in Users : Wanted(stream[i].ev) = {u} => Noticed(stream[i].ev, u)

\* What the processor owes the stream: the consumer group of ConsumerGroup.
Group == INSTANCE ConsumerGroup WITH
    entries <- [i \in Entries |-> stream[i].state],
    hold <- [c \in Consumers |->
        [at |-> job[c].at, last |-> job[c].last, done |-> job[c].pc = "ack"]]

\* The stream is handed out in order, acknowledged only at the end of a
\* handling and reclaimed until every entry is.
ServesTheStream == Group!GroupSpec
=============================================================================

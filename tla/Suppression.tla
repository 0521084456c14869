----------------------------- MODULE Suppression -----------------------------
(***************************************************************************)
(* backend/src/lib/suppressionList.ts: the list of addresses that must not *)
(* be contacted, its Redis cache (an answer per channel, kept for ten      *)
(* minutes) and the senders that ask before every message.  One address,   *)
(* known by its email; one action per round trip to Redis or Postgres.     *)
(***************************************************************************)
EXTENDS Integers

CONSTANTS
    Senders,     \* requests that ask isSuppressed and then send
    Admins,      \* requests that add or remove an entry
    Channels,    \* channels messages go out on
    AddChannels, \* channels an entry may be added for: Channels, and "all"
    MaxEdits,    \* bound on entries added or removed
    MaxFaults    \* bound on statements of Redis or Postgres that fail

ASSUME SuppressionAssumption ==
    /\ AddChannels \subseteq Channels \union {"all"} /\ "none" \notin Channels
    /\ MaxEdits \in Nat /\ MaxFaults \in Nat

VARIABLES
    listed,  \* notification_suppressions: the channels the address is listed for
    cache,   \* Redis, per channel a key may name: none, suppressed or clear
    sender,  \* per sender: its next step, the channel, what it read, and (history)
             \* whether the address was firmly listed when it began, and whether
             \* the list was edited for its channel since it read it
    edit,    \* per admin: the channel whose keys it still has to delete
    global,  \* whether the list of an organisation called "global" has the address
    spoiled, \* (history) keys whose answer was stored late, or that a DEL missed
    edits, faults

vars == <<listed, cache, sender, edit, global, spoiled, edits, faults>>

NoEdit == "none"
Asking == [pc |-> "idle", ch |-> "none", found |-> FALSE, firm |-> FALSE, late |-> FALSE]
Goto(s, state) == sender' = [sender EXCEPT ![s] = state]
At(s, pc) == sender[s].pc = pc
Fault == faults < MaxFaults /\ faults' = faults + 1

\* The rows of the query: the channel's own, or the one for all channels.
Suppressed(ch) == ch \in listed \/ "all" \in listed

\* Listed, and the request that listed it has answered.
Firm(ch) == \E l \in {ch, "all"} : l \in listed /\ \A a \in Admins : edit[a] # l

Init ==
    /\ listed = {}
    /\ cache = [ch \in Channels \union {"all"} |-> "none"]
    /\ sender = [s \in Senders |-> Asking]
    /\ edit = [a \in Admins |-> NoEdit]
    /\ global = FALSE /\ spoiled = {} /\ edits = 0 /\ faults = 0
-----------------------------------------------------------------------------
(* isSuppressed, then the message.                                         *)

Ask(s, ch) ==
    /\ At(s, "idle")
    /\ Goto(s, [Asking EXCEPT !.pc = "lookup", !.ch = ch, !.firm = Firm(ch)])
    /\ UNCHANGED <<listed, cache, edit, global, spoiled, edits, faults>>

\* GET of the key: a positive answer ends it.
Lookup(s) ==
    /\ At(s, "lookup")
    /\ Goto(s, IF cache[sender[s].ch] = "suppressed" THEN Asking
               ELSE [sender[s] EXCEPT !.pc = "lookup again"])
    /\ UNCHANGED <<listed, cache, edit, global, spoiled, edits, faults>>

\* A second GET of the same key: any answer lets it send.
LookupAgain(s) ==
    /\ At(s, "lookup again")
    /\ Goto(s, IF cache[sender[s].ch] = "none" THEN [sender[s] EXCEPT !.pc = "query"]
               ELSE [sender[s] EXCEPT !.pc = "send"])
    /\ UNCHANGED <<listed, cache, edit, global, spoiled, edits, faults>>

\* Mutant: only the channel's own rows are asked for.
QueryOwn(s) ==
    /\ At(s, "query")
    /\ Goto(s, [sender[s] EXCEPT !.pc = "store", !.found = sender[s].ch \in listed])
    /\ UNCHANGED <<listed, cache, edit, global, spoiled, edits, faults>>

Query(s) ==
    /\ At(s, "query")
    /\ Goto(s, [sender[s] EXCEPT !.pc = "store", !.found = Suppressed(sender[s].ch)])
    /\ UNCHANGED <<listed, cache, edit, global, spoiled, edits, faults>>

\* SETEX ... 600, then the verdict.
Store(s) ==
    /\ At(s, "store")
    /\ LET ch == sender[s].ch
       IN /\ cache' = [cache EXCEPT ![ch] = IF sender[s].found THEN "suppressed" ELSE "clear"]
          /\ spoiled' = IF sender[s].late THEN spoiled \union {ch} ELSE spoiled \ {ch}
    /\ Goto(s, IF sender[s].found THEN Asking ELSE [sender[s] EXCEPT !.pc = "send"])
    /\ UNCHANGED <<listed, edit, global, edits, faults>>

\* Redis is away, or one of the three commands fails: no answer is found, or the
\* new one is not stored.
RedisFails(s) ==
    /\ Fault
    /\ \/ At(s, "lookup") /\ Goto(s, [sender[s] EXCEPT !.pc = "lookup again"])
       \/ At(s, "lookup again") /\ Goto(s, [sender[s] EXCEPT !.pc = "query"])
       \/ /\ At(s, "store")
          /\ Goto(s, IF sender[s].found THEN Asking ELSE [sender[s] EXCEPT !.pc = "send"])
    /\ UNCHANGED <<listed, cache, edit, global, spoiled, edits>>

\* The query throws: isSuppressed fails open and stores nothing.
QueryFails(s) ==
    /\ Fault
    /\ At(s, "query")
    /\ Goto(s, [sender[s] EXCEPT !.pc = "send"])
    /\ UNCHANGED <<listed, cache, edit, global, spoiled, edits>>

Send(s) ==
    /\ At(s, "send")
    /\ Goto(s, Asking)
    /\ UNCHANGED <<listed, cache, edit, global, spoiled, edits, faults>>

\* Mutant: entries never expire.
KeepForEver(ch) == FALSE /\ UNCHANGED vars

\* Ten minutes are over.
CacheExpires(ch) ==
    /\ cache[ch] # "none"
    /\ cache' = [cache EXCEPT ![ch] = "none"]
    /\ spoiled' = spoiled \ {ch}
    /\ UNCHANGED <<listed, sender, edit, global, edits, faults>>
-----------------------------------------------------------------------------
(* addSuppression and removeSuppression: the row, then the cache keys of   *)
(* that channel.                                                           *)

\* What the edit makes of a request in flight: an answer already read is late,
\* and an address no row lists any more is not firmly listed.
Overtaken(state, ch, rows) ==
    [state EXCEPT !.firm = @ /\ {state.ch, "all"} \intersect rows # {},
                  !.late = @ \/ (state.pc = "store" /\ ch \in {state.ch, "all"})]

Edit(a, ch, rows) ==
    /\ edit[a] = NoEdit /\ edits < MaxEdits
    /\ listed' = rows
    /\ edit' = [edit EXCEPT ![a] = ch]
    /\ sender' = [s \in Senders |-> Overtaken(sender[s], ch, rows)]
    /\ edits' = edits + 1
    /\ UNCHANGED <<cache, global, spoiled, faults>>

Add(a, ch) == Edit(a, ch, listed \union {ch})

Remove(a, ch) == ch \in listed /\ Edit(a, ch, listed \ {ch})

\* The Novu webhook (index.ts) lists a bounced or unsubscribed address under the
\* organisation "global" and deletes that organisation's key.
Bounce ==
    /\ ~global
    /\ global' = TRUE
    /\ UNCHANGED <<listed, cache, sender, edit, spoiled, edits, faults>>

\* Mutant: the key deleted is not the one the answers are stored under.
InvalidateAll(a) ==
    /\ edit[a] # NoEdit
    /\ cache' = [cache EXCEPT !["all"] = "none"]
    /\ edit' = [edit EXCEPT ![a] = NoEdit]
    /\ UNCHANGED <<listed, sender, global, spoiled, edits, faults>>

\* DEL of the key of the channel that was edited, and of no other.
Invalidate(a) ==
    /\ edit[a] # NoEdit
    /\ cache' = [cache EXCEPT ![edit[a]] = "none"]
    /\ spoiled' = spoiled \ {edit[a]}
    /\ edit' = [edit EXCEPT ![a] = NoEdit]
    /\ UNCHANGED <<listed, sender, global, edits, faults>>

\* The DEL fails, which is swallowed, or the process dies before it.
InvalidateFails(a) ==
    /\ Fault
    /\ edit[a] # NoEdit
    /\ spoiled' = spoiled \union {edit[a]}
    /\ edit' = [edit EXCEPT ![a] = NoEdit]
    /\ UNCHANGED <<listed, cache, sender, global, edits>>
-----------------------------------------------------------------------------
SenderStep(s) == Lookup(s) \/ LookupAgain(s) \/ Query(s) \/ Store(s) \/ Send(s)

Next ==
    \/ \E s \in Senders :
        SenderStep(s) \/ RedisFails(s) \/ QueryFails(s) \/ \E ch \in Channels : Ask(s, ch)
    \/ \E a \in Admins :
        Invalidate(a) \/ InvalidateFails(a) \/ \E ch \in AddChannels : Add(a, ch) \/ Remove(a, ch)
    \/ \E ch \in Channels \union {"all"} : CacheExpires(ch)
    \/ Bounce

(* A request that started goes on; a key with a TTL expires.               *)
Fairness ==
    /\ \A s \in Senders : WF_vars(SenderStep(s))
    /\ \A a \in Admins : WF_vars(Invalidate(a))
    /\ \A ch \in Channels : WF_vars(CacheExpires(ch))

Spec == Init /\ [][Next]_vars /\ Fairness
-----------------------------------------------------------------------------
\* The list, the cache and the requests keep their shape.
SuppressionTypeOK ==
    /\ listed \subseteq AddChannels
    /\ cache \in [Channels \union {"all"} -> {"none", "suppressed", "clear"}]
    /\ sender \in [Senders -> [pc : {"idle", "lookup", "lookup again", "query", "store", "send"},
                               ch : Channels \union {"none"},
                               found : BOOLEAN, firm : BOOLEAN, late : BOOLEAN]]
    /\ edit \in [Admins -> AddChannels \union {NoEdit}]
    /\ global \in BOOLEAN /\ spoiled \subseteq Channels \union {"all"}
    /\ edits \in 0..MaxEdits /\ faults \in 0..MaxFaults

\* suppressionList.ts:8-9, "a suppressed contact is never sent to": no message
\* goes out whose check began when the address was listed (and stayed so).
NeverSentTo ==
    \A s \in Senders : At(s, "send") /\ sender[s].firm => ~Suppressed(sender[s].ch)

\* suppressionList.ts:119, "Invalidates Redis cache": a "clear" that is kept for a
\* channel the address is listed for awaits the DEL of an edit, or the DEL failed,
\* or the request that stored it read the list before the edit and was late.
StaleIsExplained ==
    \A ch \in Channels : cache[ch] = "clear" /\ ch \in listed
        => ch \in spoiled \/ \E a \in Admins : edit[a] = ch

\* However many senders store what they read too late, and whether the row is the
\* channel's own or the one for all: while an address stays listed, a "clear" is
\* not kept for it, or stored again and again, for ever.
ClearDiesOut ==
    \A ch \in Channels : <>[]Suppressed(ch) => <>[](cache[ch] # "clear")

\* A positive answer arrives between the two GETs of a request, whose second GET
\* takes it for leave to send.
Crossed(ch) ==
    cache[ch] = "suppressed" /\ \E s \in Senders : At(s, "lookup again") /\ sender[s].ch = ch

\* suppressionList.ts:5-6, "Suppression is permanent unless expires_at is set": an
\* address that stays listed is, in the end, not sent to any more, unless answers
\* go on crossing the two GETs of other requests.
TakesHold ==
    \A ch \in Channels :
        <>[](Suppressed(ch) /\ ~Crossed(ch))
            => <>[](\A s \in Senders : ~(At(s, "send") /\ sender[s].ch = ch))

\* The same without the exception.
AlwaysTakesHold ==
    \A ch \in Channels :
        <>[]Suppressed(ch) => <>[](\A s \in Senders : ~(At(s, "send") /\ sender[s].ch = ch))

\* index.ts, "On bounce: auto-suppress the email address": nothing is sent to an
\* address that bounced.
BouncedIsSuppressed ==
    [][\A s \in Senders : global /\ At(s, "idle") /\ sender'[s].pc = "lookup"
         => Suppressed(sender'[s].ch)]_vars
=============================================================================

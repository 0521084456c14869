---------------------------- MODULE ConsumerGroup ----------------------------
(***************************************************************************)
(* What the two stream processors of the backend promise about the entries *)
(* of their Redis stream, whatever they do with them: a consumer group     *)
(* hands entries out oldest first, an entry is settled (acknowledged) only *)
(* by a consumer that has come to the end of it, one whose consumer gave   *)
(* up is handed out again, and every entry is settled in the end.          *)
(* EventEngine and WorkflowQueue are shown to implement this module.       *)
(***************************************************************************)
EXTENDS Integers, Sequences

CONSTANTS
    Consumers,
    MaxEntries   \* entries liveness speaks of

VARIABLES
    entries,  \* per stream entry: "new", "pending" or "acked"
    hold      \* per consumer: the entry it is at, the last one of its batch,
              \* and whether it has come to the end of the one it is at

groupVars == <<entries, hold>>

Holding(i, last, done) == [at |-> i, last |-> last, done |-> done]
Nothing == Holding(0, 0, FALSE)

GroupInit ==
    /\ entries = <<>>
    /\ hold = [c \in Consumers |-> Nothing]

Add ==
    /\ entries' = Append(entries, "new")
    /\ UNCHANGED hold

\* The oldest entries nobody was given yet, i..last, become pending.
Hand(c, i, last) ==
    /\ hold[c] = Nothing
    /\ i <= last /\ entries[i] = "new"
    /\ \A j \in 1..(i - 1) : entries[j] # "new"
    /\ entries' = [j \in DOMAIN entries |-> IF j \in i..last THEN "pending" ELSE entries[j]]
    /\ hold' = [hold EXCEPT ![c] = Holding(i, last, FALSE)]

HandAgain(c, i) ==
    /\ hold[c] = Nothing
    /\ entries[i] = "pending"
    /\ hold' = [hold EXCEPT ![c] = Holding(i, i, FALSE)]
    /\ UNCHANGED entries

Finish(c) ==
    /\ hold[c] # Nothing /\ ~hold[c].done
    /\ hold' = [hold EXCEPT ![c] = Holding(hold[c].at, hold[c].last, TRUE)]
    /\ UNCHANGED entries

AfterSettling(h) == IF h.at < h.last THEN Holding(h.at + 1, h.last, FALSE) ELSE Nothing

Settle(c) ==
    /\ hold[c] # Nothing /\ hold[c].done
    /\ entries' = [entries EXCEPT ![hold[c].at] = "acked"]
    /\ hold' = [hold EXCEPT ![c] = AfterSettling(hold[c])]

\* A crash, or an acknowledgement that fails: the rest of the batch is left
\* pending.
Drop(c) ==
    /\ hold[c] # Nothing
    /\ hold' = [hold EXCEPT ![c] = Nothing]
    /\ UNCHANGED entries

GroupNext ==
    \/ Add
    \/ \E c \in Consumers :
        \/ \E i, last \in DOMAIN entries : Hand(c, i, last)
        \/ \E i \in DOMAIN entries : HandAgain(c, i)
        \/ Finish(c) \/ Settle(c) \/ Drop(c)

GroupSafety == GroupInit /\ [][GroupNext]_groupVars

EverySettled ==
    \A i \in 1..MaxEntries : (i \in DOMAIN entries) ~> (i \in DOMAIN entries /\ entries[i] = "acked")

GroupSpec == GroupSafety /\ EverySettled
=============================================================================

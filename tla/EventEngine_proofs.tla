------------------------- MODULE EventEngine_proofs -------------------------
(***************************************************************************)
(* The event engine for every set of events, users and consumers and all   *)
(* bounds: one notification per window, what an acknowledged event without *)
(* a window has had done for it, and the consumer group it implements.     *)
(***************************************************************************)
EXTENDS EventEngine, SequenceTheorems, TLAPS

USE EngineAssumption

\* A consumer is idle or at an entry of the stream.
JobFits(j, entries, inbox) ==
    /\ j \in JobType
    /\ j = NoJob \/ (j.pc # "idle" /\ j.at \in entries /\ j.last \in entries)
    /\ j.pc \in {"insert", "dispatch"} => j.user \in Users
    /\ j.pc = "dispatch" => /\ j.win \in DOMAIN inbox
                            /\ inbox[j.win].of = j.at /\ inbox[j.win].user = j.user

TypeInv ==
    /\ stream \in Seq(StreamType) /\ notes \in Seq(NoteType)
    /\ job \in [Consumers -> JobType] /\ \A c \in Consumers : JobFits(job[c], Entries, notes)
    /\ claimed \subseteq Windowed \X Nat /\ fired \subseteq Entries
    /\ window \in 1..MaxWindows /\ faults \in 0..MaxFaults

\* What no step takes back.
StreamGrown ==
    /\ stream' \in Seq(StreamType)
    /\ \A i \in Entries : /\ i \in Entries' /\ stream'[i].ev = stream[i].ev
                          /\ stream[i].lost => stream'[i].lost
NotesGrown ==
    /\ notes' \in Seq(NoteType)
    /\ \A n \in DOMAIN notes :
        /\ n \in DOMAIN notes' /\ notes'[n].user = notes[n].user /\ notes'[n].ev = notes[n].ev
        /\ notes'[n].of = notes[n].of /\ notes'[n].win = notes[n].win
        /\ notes'[n].out = notes[n].out \/ notes'[n].out \in Outcomes(notes[n].user)
-----------------------------------------------------------------------------
(* How the stream, the inbox and the jobs are written.                     *)

\* One entry is rewritten and keeps its event.
LEMMA EntrySet ==
    ASSUME TypeInv, NEW i \in Entries, NEW e \in StreamType, stream' = [stream EXCEPT ![i] = e],
           e.ev = stream[i].ev, stream[i].lost => e.lost
    PROVE  /\ StreamGrown /\ Entries' = Entries /\ stream'[i] = e
           /\ \A k \in Entries \ {i} : stream'[k] = stream[k]
<1>1. stream \in Seq(StreamType) /\ Entries = 1..Len(stream)
  BY LenProperties DEF TypeInv, Entries
<1>2. /\ stream' \in Seq(StreamType) /\ Len(stream') = Len(stream)
      /\ \A k \in 1..Len(stream) : stream'[k] = IF k = i THEN e ELSE stream[k]
  BY <1>1, ExceptSeq
<1>3. Entries' = 1..Len(stream')
  BY <1>2, LenProperties DEF Entries
<1>. QED
  BY <1>1, <1>2, <1>3 DEF StreamGrown

\* Its state alone is rewritten ...
LEMMA Settling ==
    ASSUME TypeInv, NEW i \in Entries, stream' = [stream EXCEPT ![i] = [@ EXCEPT !.state = "acked"]]
    PROVE  /\ StreamGrown /\ Entries' = Entries
           /\ stream'[i].state = "acked" /\ stream'[i].lost = stream[i].lost
           /\ \A k \in Entries \ {i} : stream'[k] = stream[k]
<1>. DEFINE s == stream[i]
            e == [s EXCEPT !.state = "acked"]
<1>1. s \in StreamType
  BY ElementOfSeq, LenProperties DEF TypeInv, Entries
<1>2. e \in StreamType /\ e.ev = s.ev /\ e.lost = s.lost /\ e.state = "acked"
  <2>. HIDE DEF s
  <2>. QED
    BY <1>1 DEF StreamType
<1>3. stream' = [stream EXCEPT ![i] = e]
  OBVIOUS
<1>. HIDE DEF e
<1>. QED
  BY <1>2, <1>3, EntrySet

\* ... or the mark of an interrupted handling.
LEMMA Losing ==
    ASSUME TypeInv, NEW i \in Entries, Lose(i)
    PROVE  /\ StreamGrown /\ Entries' = Entries
           /\ stream'[i].state = stream[i].state /\ stream'[i].lost
           /\ \A k \in Entries \ {i} : stream'[k] = stream[k]
<1>. DEFINE s == stream[i]
            e == [s EXCEPT !.lost = TRUE]
<1>1. s \in StreamType
  BY ElementOfSeq, LenProperties DEF TypeInv, Entries
<1>2. e \in StreamType /\ e.ev = s.ev /\ e.lost /\ e.state = s.state
  <2>. HIDE DEF s
  <2>. QED
    BY <1>1 DEF StreamType
<1>3. stream' = [stream EXCEPT ![i] = e]
  BY DEF Lose
<1>. HIDE DEF e
<1>. QED
  BY <1>2, <1>3, EntrySet

\* An event is added to the stream.
LEMMA Adding ==
    ASSUME TypeInv, NEW r \in StreamType, stream' = Append(stream, r)
    PROVE  /\ StreamGrown /\ Entries' = Entries \union {Len(stream) + 1}
           /\ stream'[Len(stream) + 1] = r /\ Entries = 1..Len(stream) /\ Len(stream) \in Nat
           /\ \A k \in Entries : stream'[k] = stream[k]
<1>1. stream \in Seq(StreamType) /\ Entries = 1..Len(stream) /\ Len(stream) \in Nat
  BY LenProperties DEF TypeInv, Entries
<1>2. /\ stream' \in Seq(StreamType) /\ Len(stream') = Len(stream) + 1
      /\ stream'[Len(stream) + 1] = r /\ \A k \in 1..Len(stream) : stream'[k] = stream[k]
  BY <1>1
<1>3. Entries' = 1..(Len(stream) + 1)
  BY <1>2, LenProperties DEF Entries
<1>. QED
  BY <1>1, <1>2, <1>3 DEF StreamGrown

\* A batch is delivered.
LEMMA Delivering ==
    ASSUME TypeInv, NEW i \in Entries, NEW last \in Entries,
           stream' = [j \in Entries |->
             IF j \in i..last THEN [stream[j] EXCEPT !.state = "pending"] ELSE stream[j]]
    PROVE  /\ StreamGrown /\ Entries' = Entries
           /\ \A k \in Entries : /\ stream'[k].lost = stream[k].lost
                                 /\ stream'[k].state = IF k \in i..last THEN "pending"
                                                       ELSE stream[k].state
<1>1. stream \in Seq(StreamType) /\ Entries = 1..Len(stream) /\ Len(stream) \in Nat
  BY LenProperties DEF TypeInv, Entries
<1>2. \A k \in Entries :
        /\ stream'[k] \in StreamType /\ stream'[k].ev = stream[k].ev
        /\ stream'[k].lost = stream[k].lost
        /\ stream'[k].state = IF k \in i..last THEN "pending" ELSE stream[k].state
  <2>. SUFFICES ASSUME NEW k \in Entries
                PROVE  /\ stream'[k] \in StreamType /\ stream'[k].ev = stream[k].ev
                       /\ stream'[k].lost = stream[k].lost
                       /\ stream'[k].state = IF k \in i..last THEN "pending" ELSE stream[k].state
    OBVIOUS
  <2>. DEFINE s == stream[k]
              e == [s EXCEPT !.state = "pending"]
  <2>1. s \in StreamType
    BY <1>1, ElementOfSeq
  <2>2. e \in StreamType /\ e.ev = s.ev /\ e.lost = s.lost /\ e.state = "pending"
    <3>. HIDE DEF s
    <3>. QED
      BY <2>1 DEF StreamType
  <2>3. stream'[k] = IF k \in i..last THEN e ELSE s
    OBVIOUS
  <2>. HIDE DEF e
  <2>. QED
    BY <2>1, <2>2, <2>3
<1>3. stream' \in [1..Len(stream) -> StreamType]
  BY <1>1, <1>2
<1>4. stream' \in Seq(StreamType)
  BY <1>1, <1>3, SeqDef
<1>5. Entries' = Entries
  BY <1>1, <1>3 DEF Entries
<1>. QED
  BY <1>2, <1>4, <1>5 DEF StreamGrown

\* A notification is created.
LEMMA NoteAdded ==
    ASSUME TypeInv, NEW r \in NoteType, notes' = Append(notes, r)
    PROVE  /\ NotesGrown /\ DOMAIN notes' = DOMAIN notes \union {Len(notes) + 1}
           /\ notes'[Len(notes) + 1] = r /\ Len(notes) \in Nat /\ DOMAIN notes = 1..Len(notes)
           /\ \A n \in DOMAIN notes : notes'[n] = notes[n]
<1>1. notes \in Seq(NoteType) /\ DOMAIN notes = 1..Len(notes) /\ Len(notes) \in Nat
  BY LenProperties DEF TypeInv
<1>2. /\ notes' \in Seq(NoteType) /\ Len(notes') = Len(notes) + 1
      /\ notes'[Len(notes) + 1] = r /\ \A k \in 1..Len(notes) : notes'[k] = notes[k]
  BY <1>1
<1>3. DOMAIN notes' = 1..(Len(notes) + 1)
  BY <1>2, LenProperties
<1>. QED
  BY <1>1, <1>2, <1>3 DEF NotesGrown

\* The fan-out of a notification is over.
LEMMA NoteSent ==
    ASSUME TypeInv, NEW m \in DOMAIN notes, NEW v \in Outcomes(notes[m].user),
           notes' = [notes EXCEPT ![m] = [@ EXCEPT !.out = v]]
    PROVE  /\ NotesGrown /\ DOMAIN notes' = DOMAIN notes
           /\ notes'[m].out = v
<1>. DEFINE s == notes[m]
            e == [s EXCEPT !.out = v]
<1>1. notes \in Seq(NoteType) /\ DOMAIN notes = 1..Len(notes)
  BY LenProperties DEF TypeInv
<1>2. s \in NoteType /\ v \in {"inApp", "attempted", "swallowed"}
  BY <1>1, ElementOfSeq DEF Outcomes
<1>3. e \in NoteType /\ e.user = s.user /\ e.ev = s.ev /\ e.of = s.of /\ e.win = s.win /\ e.out = v
  <2>. HIDE DEF s
  <2>. QED
    BY <1>2 DEF NoteType
<1>4. notes' = [notes EXCEPT ![m] = e]
  OBVIOUS
<1>. HIDE DEF e
<1>5. /\ notes' \in Seq(NoteType) /\ Len(notes') = Len(notes)
      /\ \A k \in 1..Len(notes) : notes'[k] = IF k = m THEN e ELSE notes[k]
  BY <1>1, <1>3, <1>4, ExceptSeq
<1>6. DOMAIN notes' = DOMAIN notes
  BY <1>1, <1>5, LenProperties
<1>. QED
  BY <1>1, <1>3, <1>5, <1>6 DEF NotesGrown

\* Nothing is written.
LEMMA Standing ==
    ASSUME TypeInv
    PROVE  /\ stream' = stream => StreamGrown /\ Entries' = Entries
           /\ notes' = notes => NotesGrown
BY DEF TypeInv, StreamGrown, NotesGrown, Entries

\* A job stays right while stream and inbox grow.
LEMMA JobStays ==
    ASSUME StreamGrown, NotesGrown, NEW j, JobFits(j, Entries, notes)
    PROVE  JobFits(j, Entries', notes')
BY DEF JobFits, StreamGrown, NotesGrown
-----------------------------------------------------------------------------
(* Types.                                                                  *)

\* The jobs a step writes are jobs.
LEMMA JobsTyped ==
    /\ NoJob \in JobType /\ NoJob.pc = "idle" /\ NoJob.at = 0
    /\ \A i, last \in Nat, pc \in {"next", "ack", "resolve"}, S \in SUBSET Users :
         /\ At(i, last, pc, S, NoUser, 0) \in JobType
         /\ At(i, last, pc, S, NoUser, 0).pc = pc /\ At(i, last, pc, S, NoUser, 0).at = i
         /\ At(i, last, pc, S, NoUser, 0).last = last
         /\ At(i, last, pc, S, NoUser, 0).todo = S
BY DEF NoJob, At, JobType, NoUser

\* A step that writes one job and lets stream and inbox grow.
LEMMA JobStep ==
    ASSUME TypeInv, StreamGrown, NotesGrown, NEW c \in Consumers, NEW j,
           Goto(c, j), JobFits(j, Entries', notes'), claimed' \subseteq Windowed \X Nat,
           fired' \subseteq Entries', faults' \in 0..MaxFaults, UNCHANGED window
    PROVE  TypeInv' /\ job'[c] = j /\ \A d \in Consumers \ {c} : job'[d] = job[d]
<1>1. j \in JobType
  BY DEF JobFits
<1>2. /\ job' \in [Consumers -> JobType] /\ job'[c] = j
      /\ \A d \in Consumers \ {c} : job'[d] = job[d]
  BY <1>1 DEF Goto, TypeInv
<1>3. \A d \in Consumers : JobFits(job'[d], Entries', notes')
  <2>1. ASSUME NEW d \in Consumers, d # c PROVE JobFits(job'[d], Entries', notes')
    <3>1. JobFits(job[d], Entries, notes) /\ job'[d] = job[d]
      BY <1>2, <2>1 DEF TypeInv
    <3>. QED
      BY <3>1, JobStays
  <2>. QED
    BY <1>2, <2>1
<1>. QED
  BY <1>2, <1>3 DEF TypeInv, StreamGrown, NotesGrown

\* A consumer that works is at an entry, whose event it handles.
LEMMA AtEntry ==
    ASSUME TypeInv, NEW c \in Consumers, job[c] # NoJob
    PROVE  /\ job[c] \in JobType /\ JobFits(job[c], Entries, notes)
           /\ job[c].at \in Entries /\ job[c].last \in Entries /\ job[c].pc # "idle"
           /\ stream[job[c].at] \in StreamType /\ Ev(c) \in Events
           /\ Entries = 1..Len(stream) /\ Len(stream) \in Nat
<1>1. JobFits(job[c], Entries, notes) /\ job[c].at \in Entries /\ job[c].last \in Entries
  BY DEF TypeInv, JobFits
<1>2. stream \in Seq(StreamType) /\ Entries = 1..Len(stream) /\ Len(stream) \in Nat
  BY LenProperties DEF TypeInv, Entries
<1>3. stream[job[c].at] \in StreamType
  BY <1>1, <1>2, ElementOfSeq
<1>4. Ev(c) \in Events
  BY <1>3 DEF Ev, StreamType
<1>. QED
  BY <1>1, <1>2, <1>3, <1>4 DEF TypeInv, JobFits

\* The steps that only move a consumer: what becomes of its job.
LEMMA MovesOnly ==
    ASSUME TypeInv, NEW c \in Consumers, NEW j, Goto(c, j), JobFits(j, Entries, notes),
           UNCHANGED <<stream, notes, fired, window>>, claimed' \subseteq Windowed \X Nat,
           faults' \in 0..MaxFaults
    PROVE  /\ TypeInv' /\ StreamGrown /\ NotesGrown
           /\ job'[c] = j /\ \A d \in Consumers \ {c} : job'[d] = job[d]
<1>1. StreamGrown /\ NotesGrown /\ Entries' = Entries /\ notes' = notes
  BY Standing
<1>2. fired' \subseteq Entries'
  BY <1>1 DEF TypeInv
<1>. QED
  BY <1>1, <1>2, JobStep

\* An event is published.
LEMMA PublishTypes ==
    ASSUME TypeInv, NEW e \in Events, Publish(e)
    PROVE  TypeInv' /\ StreamGrown /\ NotesGrown
<1>. DEFINE r == [ev |-> e, state |-> "new", lost |-> FALSE]
<1>1. r \in StreamType
  BY DEF StreamType
<1>2. stream' = Append(stream, r) /\ UNCHANGED <<job, claimed, notes, fired, window, faults>>
  BY DEF Publish
<1>. HIDE DEF r
<1>3. StreamGrown /\ Entries \subseteq Entries' /\ NotesGrown
  BY <1>1, <1>2, Adding, Standing
<1>4. \A d \in Consumers : JobFits(job'[d], Entries', notes')
  BY <1>2, <1>3, JobStays DEF TypeInv
<1>. QED
  BY <1>2, <1>3, <1>4 DEF TypeInv, StreamGrown, NotesGrown

\* A batch is delivered.
LEMMA DeliverTypes ==
    ASSUME TypeInv, NEW c \in Consumers, NEW i \in Entries, NEW last \in Entries,
           Deliver(c, i, last)
    PROVE  /\ TypeInv' /\ StreamGrown /\ NotesGrown /\ job'[c].pc = "resolve"
           /\ \A d \in Consumers \ {c} : job'[d] = job[d]
           /\ \A k \in Entries' : /\ k \in Entries /\ stream'[k].lost = stream[k].lost
                                  /\ stream'[k].state \in {stream[k].state, "pending"}
<1>1. /\ StreamGrown /\ Entries' = Entries /\ NotesGrown
      /\ \A k \in Entries : /\ stream'[k].lost = stream[k].lost
                            /\ stream'[k].state = IF k \in i..last THEN "pending"
                                                  ELSE stream[k].state
  BY Delivering, Standing DEF Deliver
<1>2. i \in Nat /\ last \in Nat
  BY LenProperties DEF TypeInv, Entries
<1>3. Start(i, last) \in JobType /\ Start(i, last).pc = "resolve" /\ Start(i, last).at = i
      /\ Start(i, last).last = last
  BY <1>2, JobsTyped DEF Start
<1>4. JobFits(Start(i, last), Entries', notes')
  BY <1>1, <1>3 DEF JobFits
<1>5. Goto(c, Start(i, last)) /\ UNCHANGED <<claimed, notes, fired, window, faults>>
  BY DEF Deliver
<1>6. /\ claimed' \subseteq Windowed \X Nat /\ fired' \subseteq Entries'
      /\ faults' \in 0..MaxFaults
  BY <1>1, <1>5 DEF TypeInv
<1>7. TypeInv' /\ job'[c] = Start(i, last) /\ \A d \in Consumers \ {c} : job'[d] = job[d]
  BY <1>1, <1>4, <1>5, <1>6, JobStep
<1>. QED
  BY <1>1, <1>3, <1>7

\* An entry is handed out again; a consumer dies; the recipients are resolved.
LEMMA ReclaimTypes ==
    ASSUME TypeInv, NEW c \in Consumers, NEW i \in Entries, Reclaim(c, i)
    PROVE  /\ TypeInv' /\ StreamGrown /\ NotesGrown /\ job'[c].pc = "resolve"
           /\ \A d \in Consumers \ {c} : job'[d] = job[d]
<1>1. i \in Nat
  BY LenProperties DEF TypeInv, Entries
<1>2. Start(i, i) \in JobType /\ Start(i, i).pc = "resolve" /\ Start(i, i).at = i
      /\ Start(i, i).last = i
  BY <1>1, JobsTyped DEF Start
<1>3. JobFits(Start(i, i), Entries, notes)
  BY <1>2 DEF JobFits
<1>4. Goto(c, Start(i, i)) /\ UNCHANGED <<stream, claimed, notes, fired, window, faults>>
  BY DEF Reclaim
<1>. QED
  BY <1>2, <1>3, <1>4, MovesOnly DEF TypeInv

LEMMA CrashTypes ==
    ASSUME TypeInv, NEW c \in Consumers, Crash(c)
    PROVE  /\ TypeInv' /\ StreamGrown /\ NotesGrown /\ job'[c].pc = "idle"
           /\ \A d \in Consumers \ {c} : job'[d] = job[d]
<1>1. JobFits(NoJob, Entries, notes)
  BY JobsTyped DEF JobFits
<1>2. Goto(c, NoJob) /\ UNCHANGED <<stream, claimed, notes, fired, window>>
      /\ faults' \in 0..MaxFaults /\ claimed' \subseteq Windowed \X Nat
  BY DEF Crash, Fault, TypeInv
<1>. QED
  BY <1>1, <1>2, MovesOnly, JobsTyped

LEMMA ResolveTypes ==
    ASSUME TypeInv, NEW c \in Consumers, Resolve(c)
    PROVE  /\ TypeInv' /\ StreamGrown /\ NotesGrown
           /\ job'[c].pc = "next" /\ job'[c].at = job[c].at /\ job'[c].last = job[c].last
           /\ job'[c].todo = Recipients(Ev(c))
           /\ \A d \in Consumers \ {c} : job'[d] = job[d]
<1>1. job[c] # NoJob
  BY JobsTyped DEF Resolve
<1>. DEFINE i == job[c].at
            last == job[c].last
            S == Recipients(Ev(c))
            j == At(i, last, "next", S, NoUser, 0)
<1>2. i \in Entries /\ last \in Entries /\ Ev(c) \in Events /\ i \in Nat /\ last \in Nat
  BY <1>1, AtEntry
<1>3. S \in SUBSET Users
  BY <1>2 DEF Recipients
<1>4. Goto(c, j) /\ UNCHANGED <<stream, claimed, notes, fired, window, faults>>
  BY DEF Resolve
<1>. HIDE DEF i, last, S
<1>5. j \in JobType /\ j.pc = "next" /\ j.at = i /\ j.last = last /\ j.todo = S
  BY <1>2, <1>3, JobsTyped
<1>6. JobFits(j, Entries, notes)
  BY <1>2, <1>5 DEF JobFits
<1>. HIDE DEF j
<1>. QED
  BY <1>4, <1>5, <1>6, MovesOnly DEF TypeInv, i, last, S

\* The job of a consumer that goes on with the entry it is at.
LEMMA Continues ==
    ASSUME TypeInv, NEW c \in Consumers, job[c] # NoJob, Entries \subseteq Entries',
           NEW S \in SUBSET Users, NEW pc \in {"next", "ack"}
    PROVE  LET j == At(job[c].at, job[c].last, pc, S, NoUser, 0)
           IN  /\ JobFits(j, Entries, notes) /\ JobFits(j, Entries', notes')
               /\ j.pc = pc /\ j.at = job[c].at /\ j.last = job[c].last /\ j.todo = S
<1>. DEFINE i == job[c].at
            last == job[c].last
            j == At(i, last, pc, S, NoUser, 0)
<1>1. i \in Entries /\ last \in Entries /\ i \in Nat /\ last \in Nat
  BY AtEntry
<1>. HIDE DEF i, last
<1>2. j \in JobType /\ j.pc = pc /\ j.at = i /\ j.last = last /\ j.todo = S
  BY <1>1 DEF At, JobType
<1>3. JobFits(j, Entries, notes) /\ JobFits(j, Entries', notes')
  BY <1>1, <1>2 DEF JobFits
<1>4. i = job[c].at /\ last = job[c].last
  BY DEF i, last
<1>. HIDE DEF j
<1>5. /\ JobFits(j, Entries, notes) /\ JobFits(j, Entries', notes')
      /\ j.pc = pc /\ j.at = job[c].at /\ j.last = job[c].last /\ j.todo = S
  BY <1>2, <1>3, <1>4
<1>6. j = At(job[c].at, job[c].last, pc, S, NoUser, 0)
  BY <1>4 DEF j
<1>. QED
  BY <1>5, <1>6

\* A claim of the window succeeds, is not needed, or is refused.
LEMMA ClaimTypes ==
    ASSUME TypeInv, NEW c \in Consumers, NEW u \in Users, Claim(c, u)
    PROVE  /\ TypeInv' /\ StreamGrown /\ NotesGrown /\ claimed \subseteq claimed'
           /\ \A d \in Consumers \ {c} : job'[d] = job[d]
           /\ job'[c].at = job[c].at /\ job'[c].last = job[c].last
           /\ job[c] # NoJob /\ job[c].pc = "next"
           /\ \/ /\ Ev(c) \in Windowed /\ job'[c].pc = "next"
              \/ /\ job'[c].pc = "insert" /\ job'[c].win = window
                 /\ job'[c].todo = job[c].todo /\ window \in Nat
                 /\ Ev(c) \in Windowed => /\ <<Ev(c), window>> \notin claimed
                                          /\ <<Ev(c), window>> \in claimed'
<1>1. job[c] # NoJob /\ job[c].pc = "next" /\ u \in job[c].todo
  BY JobsTyped DEF Claim
<1>. DEFINE key == <<Ev(c), window>>
            taken == Ev(c) \in Windowed /\ key \in claimed
<1>2. /\ claimed' = IF Ev(c) \in Windowed THEN claimed \union {key} ELSE claimed
      /\ Goto(c, IF taken THEN Onward([job[c] EXCEPT !.user = u])
                 ELSE At(job[c].at, job[c].last, "insert", job[c].todo, u, window))
      /\ UNCHANGED <<stream, notes, fired, window, faults>>
  BY DEF Claim
<1>3. /\ job[c].at \in Entries /\ job[c].last \in Entries /\ job[c].at \in Nat
      /\ job[c].last \in Nat /\ window \in Nat /\ job[c].todo \in SUBSET Users
      /\ job[c] \in JobType
  BY <1>1, AtEntry DEF TypeInv, JobType
<1>4. claimed' \subseteq Windowed \X Nat /\ faults' \in 0..MaxFaults /\ claimed \subseteq claimed'
  BY <1>2, <1>3 DEF TypeInv
<1>5. CASE taken
  <2>. DEFINE S == job[c].todo \ {u}
              j == At(job[c].at, job[c].last, "next", S, NoUser, 0)
  <2>1. Onward([job[c] EXCEPT !.user = u]) = j
    BY <1>3 DEF Onward, JobType
  <2>2. S \in SUBSET Users /\ Entries \subseteq Entries'
    BY <1>2, <1>3 DEF Entries
  <2>3. JobFits(j, Entries, notes) /\ j.pc = "next" /\ j.at = job[c].at /\ j.last = job[c].last
    BY <1>1, <2>2, Continues
  <2>4. Goto(c, j)
    BY <1>2, <1>5, <2>1
  <2>. HIDE DEF j, S
  <2>5. /\ TypeInv' /\ StreamGrown /\ NotesGrown
        /\ job'[c] = j /\ \A d \in Consumers \ {c} : job'[d] = job[d]
    BY <1>2, <1>4, <2>3, <2>4, MovesOnly
  <2>. QED
    BY <1>1, <1>4, <1>5, <2>3, <2>5
<1>6. CASE ~taken
  <2>. DEFINE j == At(job[c].at, job[c].last, "insert", job[c].todo, u, window)
  <2>1. /\ j \in JobType /\ j.pc = "insert" /\ j.at = job[c].at /\ j.last = job[c].last
        /\ j.todo = job[c].todo /\ j.user = u /\ j.win = window
    BY <1>3 DEF At, JobType
  <2>2. Goto(c, j)
    BY <1>2, <1>6
  <2>. HIDE DEF j
  <2>3. JobFits(j, Entries, notes)
    BY <1>3, <2>1 DEF JobFits
  <2>4. /\ TypeInv' /\ StreamGrown /\ NotesGrown
        /\ job'[c] = j /\ \A d \in Consumers \ {c} : job'[d] = job[d]
    BY <1>2, <1>4, <2>2, <2>3, MovesOnly
  <2>. QED
    BY <1>1, <1>2, <1>3, <1>4, <1>6, <2>1, <2>4
<1>. QED
  BY <1>5, <1>6

\* A notification is created unless its user does not want it.
LEMMA InsertTypes ==
    ASSUME TypeInv, NEW c \in Consumers, Insert(c)
    PROVE  /\ TypeInv' /\ StreamGrown /\ NotesGrown
           /\ \A d \in Consumers \ {c} : job'[d] = job[d]
           /\ job'[c].at = job[c].at /\ job'[c].last = job[c].last
           /\ job[c] # NoJob /\ job[c].pc = "insert"
           /\ \/ /\ <<job[c].user, Ev(c)>> \in Muted /\ notes' = notes
                 /\ job'[c].pc = "next" /\ job'[c].todo = job[c].todo \ {job[c].user}
              \/ /\ job'[c].pc = "dispatch" /\ job'[c].todo = job[c].todo
                 /\ DOMAIN notes' = DOMAIN notes \union {Len(notes) + 1}
                 /\ notes'[Len(notes) + 1].ev = Ev(c) /\ notes'[Len(notes) + 1].win = job[c].win
                 /\ \A n \in DOMAIN notes : notes'[n] = notes[n]
<1>1. job[c] # NoJob /\ job[c].pc = "insert"
  BY JobsTyped DEF Insert
<1>2. /\ job[c].at \in Entries /\ job[c].last \in Entries /\ job[c].at \in Nat
      /\ Ev(c) \in Events /\ job[c] \in JobType /\ job[c].user \in Users
      /\ job[c].win \in Nat /\ job[c].todo \in SUBSET Users
  BY <1>1, AtEntry DEF JobFits, JobType
<1>3. UNCHANGED <<stream, claimed, fired, window, faults>>
  BY DEF Insert
<1>4. /\ StreamGrown /\ Entries' = Entries /\ claimed' \subseteq Windowed \X Nat
      /\ fired' \subseteq Entries' /\ faults' \in 0..MaxFaults
  BY <1>3, Standing DEF TypeInv
<1>5. CASE <<job[c].user, Ev(c)>> \in Muted
  <2>. DEFINE S == job[c].todo \ {job[c].user}
              j == At(job[c].at, job[c].last, "next", S, NoUser, 0)
  <2>1. Goto(c, j) /\ notes' = notes /\ S \in SUBSET Users
    BY <1>2, <1>5 DEF Insert, Onward
  <2>2. /\ JobFits(j, Entries, notes) /\ j.pc = "next" /\ j.at = job[c].at
        /\ j.last = job[c].last /\ j.todo = S
    BY <1>1, <1>4, <2>1, Continues
  <2>. HIDE DEF j
  <2>3. /\ TypeInv' /\ StreamGrown /\ NotesGrown
        /\ job'[c] = j /\ \A d \in Consumers \ {c} : job'[d] = job[d]
    BY <1>3, <1>4, <2>1, <2>2, MovesOnly
  <2>. QED
    BY <1>1, <1>5, <2>1, <2>2, <2>3
<1>6. CASE <<job[c].user, Ev(c)>> \notin Muted
  <2>. DEFINE r == [user |-> job[c].user, ev |-> Ev(c), of |-> job[c].at,
                    win |-> job[c].win, out |-> "waiting"]
              k == job[c]
              m == Len(notes) + 1
              j == [k EXCEPT !.pc = "dispatch", !.win = m]
  <2>1. r \in NoteType /\ r.ev = Ev(c) /\ r.win = job[c].win /\ r.of = k.at /\ r.user = k.user
    BY <1>2 DEF NoteType
  <2>2. notes' = Append(notes, r) /\ Goto(c, j)
    BY <1>6 DEF Insert
  <2>. HIDE DEF r
  <2>3. /\ NotesGrown /\ DOMAIN notes' = DOMAIN notes \union {m} /\ notes'[m] = r /\ m \in Nat
        /\ \A n \in DOMAIN notes : notes'[n] = notes[n]
    BY <2>1, <2>2, NoteAdded
  <2>4. k \in JobType /\ k.at \in Entries /\ k.last \in Entries /\ k.user \in Users
    BY <1>2
  <2>. HIDE DEF k, m
  <2>5. /\ j \in JobType /\ j.pc = "dispatch" /\ j.at = k.at /\ j.last = k.last
        /\ j.user = k.user /\ j.win = m /\ j.todo = k.todo
    BY <2>3, <2>4 DEF JobType
  <2>. HIDE DEF j
  <2>6. JobFits(j, Entries', notes')
    BY <1>4, <2>1, <2>3, <2>4, <2>5 DEF JobFits
  <2>7. /\ TypeInv' /\ job'[c] = j /\ \A d \in Consumers \ {c} : job'[d] = job[d]
    BY <1>3, <1>4, <2>2, <2>3, <2>6, JobStep
  <2>. QED
    BY <1>1, <1>4, <2>1, <2>3, <2>5, <2>7 DEF k, m
<1>. QED
  BY <1>5, <1>6

\* The row just created is fanned out.
LEMMA DispatchTypes ==
    ASSUME TypeInv, NEW c \in Consumers, Dispatch(c)
    PROVE  /\ TypeInv' /\ StreamGrown /\ NotesGrown /\ DOMAIN notes' = DOMAIN notes
           /\ \A d \in Consumers \ {c} : job'[d] = job[d]
           /\ job'[c].at = job[c].at /\ job'[c].last = job[c].last
           /\ job[c] # NoJob /\ job[c].pc = "dispatch"
           /\ job'[c].pc = "next" /\ job'[c].todo = job[c].todo \ {job[c].user}
           /\ job[c].win \in DOMAIN notes /\ notes[job[c].win].of = job[c].at
           /\ notes[job[c].win].user = job[c].user
           /\ notes'[job[c].win].out \in Outcomes(job[c].user)
<1>1. job[c] # NoJob /\ job[c].pc = "dispatch"
  BY JobsTyped DEF Dispatch
<1>2. /\ job[c] \in JobType /\ job[c].win \in DOMAIN notes /\ job[c].todo \in SUBSET Users
      /\ notes[job[c].win].of = job[c].at /\ notes[job[c].win].user = job[c].user
  BY <1>1, AtEntry DEF JobFits, JobType
<1>. DEFINE S == job[c].todo \ {job[c].user}
            j == At(job[c].at, job[c].last, "next", S, NoUser, 0)
            m == job[c].win
<1>3. /\ Goto(c, j) /\ S \in SUBSET Users /\ UNCHANGED <<stream, claimed, fired, window>>
      /\ \E out \in Outcomes(notes[m].user) :
           /\ notes' = [notes EXCEPT ![m] = [@ EXCEPT !.out = out]]
           /\ IF out = "swallowed" THEN Fault ELSE UNCHANGED faults
  BY <1>2 DEF Dispatch, Onward
<1>4. /\ NotesGrown /\ DOMAIN notes' = DOMAIN notes
      /\ notes'[m].out \in Outcomes(notes[m].user)
  <2>1. m \in DOMAIN notes
    BY <1>2
  <2>. HIDE DEF m
  <2>. QED
    BY <1>3, <2>1, NoteSent
<1>5. /\ StreamGrown /\ Entries' = Entries /\ claimed' \subseteq Windowed \X Nat
      /\ fired' \subseteq Entries' /\ faults' \in 0..MaxFaults
  BY <1>3, Standing DEF TypeInv, Fault
<1>6. /\ JobFits(j, Entries', notes') /\ j.pc = "next" /\ j.at = job[c].at
      /\ j.last = job[c].last /\ j.todo = S
  <2>1. /\ JobFits(j, Entries, notes) /\ j.pc = "next" /\ j.at = job[c].at
        /\ j.last = job[c].last /\ j.todo = S
    <3>1. S \in SUBSET Users /\ Entries \subseteq Entries'
      BY <1>3, <1>5
    <3>. HIDE DEF S
    <3>. QED
      BY <1>1, <3>1, Continues
  <2>. HIDE DEF j
  <2>. QED
    BY <1>4, <1>5, <2>1, JobStays
<1>. HIDE DEF j
<1>7. TypeInv' /\ job'[c] = j /\ \A d \in Consumers \ {c} : job'[d] = job[d]
  BY <1>3, <1>4, <1>5, <1>6, JobStep
<1>. QED
  BY <1>1, <1>2, <1>4, <1>5, <1>6, <1>7

\* After the last recipient the trigger is published.
LEMMA PublishTriggerTypes ==
    ASSUME TypeInv, NEW c \in Consumers, PublishTrigger(c)
    PROVE  /\ TypeInv' /\ StreamGrown /\ NotesGrown
           /\ \A d \in Consumers \ {c} : job'[d] = job[d]
           /\ job'[c].at = job[c].at /\ job'[c].last = job[c].last
           /\ job[c] # NoJob /\ job[c].pc = "next"
           /\ job[c].todo = {} /\ job'[c].pc = "ack" /\ fired' = fired \union {job[c].at}
<1>1. job[c] # NoJob /\ job[c].pc = "next" /\ job[c].todo = {}
  BY JobsTyped DEF PublishTrigger
<1>. DEFINE S == {}
            j == At(job[c].at, job[c].last, "ack", S, NoUser, 0)
<1>2. /\ Goto(c, j) /\ S \in SUBSET Users /\ fired' = fired \union {job[c].at}
      /\ UNCHANGED <<stream, claimed, notes, window, faults>>
  BY DEF PublishTrigger, To
<1>3. /\ StreamGrown /\ NotesGrown /\ Entries' = Entries /\ claimed' \subseteq Windowed \X Nat
      /\ faults' \in 0..MaxFaults /\ notes' = notes
  BY <1>2, Standing DEF TypeInv
<1>4. job[c].at \in Entries
  BY <1>1, AtEntry
<1>5. fired' \subseteq Entries'
  BY <1>2, <1>3, <1>4 DEF TypeInv
<1>6. JobFits(j, Entries', notes') /\ j.pc = "ack" /\ j.at = job[c].at /\ j.last = job[c].last
  <2>1. JobFits(j, Entries, notes) /\ j.pc = "ack" /\ j.at = job[c].at /\ j.last = job[c].last
    <3>1. S \in SUBSET Users /\ Entries \subseteq Entries'
      BY <1>2, <1>3
    <3>. HIDE DEF S
    <3>. QED
      BY <1>1, <3>1, Continues
  <2>. HIDE DEF j
  <2>. QED
    BY <1>3, <2>1
<1>. HIDE DEF j
<1>7. TypeInv' /\ job'[c] = j /\ \A d \in Consumers \ {c} : job'[d] = job[d]
  BY <1>2, <1>3, <1>5, <1>6, JobStep
<1>. QED
  BY <1>1, <1>2, <1>3, <1>6, <1>7

\* The entry is acknowledged and the next one of the batch begun.
LEMMA AckTypes ==
    ASSUME TypeInv, NEW c \in Consumers, Ack(c)
    PROVE  /\ TypeInv' /\ StreamGrown /\ NotesGrown /\ Entries' = Entries
           /\ \A d \in Consumers \ {c} : job'[d] = job[d]
           /\ job[c] # NoJob /\ job[c].pc = "ack" /\ job'[c].pc \in {"idle", "resolve"}
           /\ stream'[job[c].at].lost = stream[job[c].at].lost
           /\ stream'[job[c].at].state = "acked"
           /\ \A k \in Entries \ {job[c].at} : stream'[k] = stream[k]
<1>1. job[c] # NoJob /\ job[c].pc = "ack"
  BY JobsTyped DEF Ack
<1>. DEFINE i == job[c].at
            last == job[c].last
            j == IF i < last THEN Start(i + 1, last) ELSE NoJob
<1>2. /\ i \in Entries /\ last \in Entries /\ i \in Nat /\ last \in Nat
      /\ Entries = 1..Len(stream) /\ Len(stream) \in Nat
  BY <1>1, AtEntry
<1>3. /\ Goto(c, j) /\ UNCHANGED <<claimed, notes, fired, window, faults>>
      /\ stream' = [stream EXCEPT ![i] = [@ EXCEPT !.state = "acked"]]
  BY DEF Ack
<1>4. i = job[c].at
  OBVIOUS
<1>. HIDE DEF i, last
<1>5. /\ StreamGrown /\ Entries' = Entries /\ stream'[i].lost = stream[i].lost
      /\ stream'[i].state = "acked"
      /\ \A k \in Entries \ {i} : stream'[k] = stream[k]
  BY <1>2, <1>3, Settling
<1>6. JobFits(j, Entries', notes') /\ j.pc \in {"idle", "resolve"}
  <2>1. CASE i < last
    <3>1. i + 1 \in Entries /\ i + 1 \in Nat
      BY <1>2, <2>1
    <3>. DEFINE k == i + 1
    <3>2. k \in Nat /\ last \in Nat
      BY <1>2, <3>1
    <3>. HIDE DEF k
    <3>3. /\ Start(k, last) \in JobType /\ Start(k, last).pc = "resolve"
          /\ Start(k, last).at = k /\ Start(k, last).last = last
      BY <3>2, JobsTyped DEF Start
    <3>4. /\ Start(i + 1, last) \in JobType /\ Start(i + 1, last).pc = "resolve"
          /\ Start(i + 1, last).at = i + 1 /\ Start(i + 1, last).last = last
      BY <3>3 DEF k
    <3>. QED
      BY <1>2, <1>5, <2>1, <3>1, <3>4 DEF JobFits
  <2>2. CASE ~(i < last)
    BY <2>2, JobsTyped DEF JobFits
  <2>. QED
    BY <2>1, <2>2
<1>. HIDE DEF j
<1>7. NotesGrown /\ fired' \subseteq Entries' /\ claimed' \subseteq Windowed \X Nat
      /\ faults' \in 0..MaxFaults
  BY <1>3, <1>5, Standing DEF TypeInv
<1>8. TypeInv' /\ job'[c] = j /\ \A d \in Consumers \ {c} : job'[d] = job[d]
  BY <1>3, <1>5, <1>6, <1>7, JobStep
<1>. QED
  BY <1>1, <1>4, <1>5, <1>6, <1>7, <1>8

\* A handling is cut short.
LEMMA ThrowTypes ==
    ASSUME TypeInv, NEW c \in Consumers, ResolveFails(c) \/ HandlerThrows(c)
    PROVE  /\ TypeInv' /\ StreamGrown /\ NotesGrown /\ Entries' = Entries
           /\ \A d \in Consumers \ {c} : job'[d] = job[d]
           /\ job[c] # NoJob /\ job'[c].pc \in {"next", "ack"} /\ job'[c].at = job[c].at
           /\ job'[c].last = job[c].last
           /\ stream'[job[c].at].lost /\ stream'[job[c].at].state = stream[job[c].at].state
           /\ \A k \in Entries \ {job[c].at} : stream'[k] = stream[k]
<1>1. job[c] # NoJob
  BY JobsTyped DEF ResolveFails, HandlerThrows
<1>2. PICK pc \in {"next", "ack"} : Goto(c, To(job[c], pc))
  BY DEF ResolveFails, HandlerThrows
<1>. DEFINE S == {}
            j == At(job[c].at, job[c].last, pc, S, NoUser, 0)
            i == job[c].at
<1>3. Goto(c, j) /\ S \in SUBSET Users /\ Lose(i) /\ UNCHANGED <<claimed, notes, fired, window>>
      /\ faults' \in 0..MaxFaults
  BY <1>2 DEF ResolveFails, HandlerThrows, To, Fault, TypeInv
<1>4. i \in Entries /\ i = job[c].at
  BY <1>1, AtEntry
<1>. HIDE DEF i
<1>5. /\ StreamGrown /\ Entries' = Entries
      /\ stream'[i].lost /\ stream'[i].state = stream[i].state
      /\ \A k \in Entries \ {i} : stream'[k] = stream[k]
  BY <1>3, <1>4, Losing
<1>6. /\ NotesGrown /\ notes' = notes
      /\ fired' \subseteq Entries' /\ claimed' \subseteq Windowed \X Nat
  BY <1>3, <1>5, Standing DEF TypeInv
<1>7. JobFits(j, Entries', notes') /\ j.pc = pc /\ j.at = job[c].at /\ j.last = job[c].last
  <2>1. JobFits(j, Entries, notes) /\ j.pc = pc /\ j.at = job[c].at /\ j.last = job[c].last
    BY <1>1, <1>3, <1>5, Continues
  <2>. HIDE DEF j
  <2>. QED
    BY <1>5, <1>6, <2>1
<1>. HIDE DEF j
<1>8. TypeInv' /\ job'[c] = j /\ \A d \in Consumers \ {c} : job'[d] = job[d]
  BY <1>3, <1>5, <1>6, <1>7, JobStep
<1>. QED
  BY <1>1, <1>4, <1>5, <1>6, <1>7, <1>8

\* A new dedup window.
LEMMA WindowTypes ==
    ASSUME TypeInv, WindowEnds
    PROVE  TypeInv' /\ StreamGrown /\ NotesGrown
<1>1. window' \in 1..MaxWindows /\ UNCHANGED <<stream, job, claimed, notes, fired, faults>>
  BY DEF WindowEnds, TypeInv
<1>2. StreamGrown /\ NotesGrown
  BY <1>1, Standing
<1>3. Entries' = Entries
  BY <1>1 DEF Entries
<1>. QED
  BY <1>1, <1>2, <1>3 DEF TypeInv

\* Every step keeps the types, and stream and inbox only grow.
LEMMA TypesStay == TypeInv /\ [Next]_vars => TypeInv' /\ StreamGrown /\ NotesGrown
<1>. SUFFICES ASSUME TypeInv, [Next]_vars PROVE TypeInv' /\ StreamGrown /\ NotesGrown
  OBVIOUS
<1>1. ASSUME NEW c \in Consumers, ConsumerStep(c)
      PROVE  TypeInv' /\ StreamGrown /\ NotesGrown
  <2>1. CASE \E i, last \in Entries : Deliver(c, i, last)
    BY <2>1, DeliverTypes
  <2>2. CASE \E i \in Entries : Reclaim(c, i)
    BY <2>2, ReclaimTypes
  <2>3. CASE \E u \in Users : Claim(c, u)
    BY <2>3, ClaimTypes
  <2>4. CASE Resolve(c) \/ Insert(c) \/ Dispatch(c)
    BY <2>4, ResolveTypes, InsertTypes, DispatchTypes
  <2>5. CASE PublishTrigger(c) \/ Ack(c)
    BY <2>5, PublishTriggerTypes, AckTypes
  <2>. QED
    BY <1>1, <2>1, <2>2, <2>3, <2>4, <2>5 DEF ConsumerStep
<1>2. ASSUME NEW c \in Consumers, Crash(c) \/ ResolveFails(c) \/ HandlerThrows(c)
      PROVE  TypeInv' /\ StreamGrown /\ NotesGrown
  BY <1>2, CrashTypes, ThrowTypes
<1>3. CASE UNCHANGED vars
  <2>1. StreamGrown /\ NotesGrown
    BY <1>3, Standing DEF vars
  <2>2. TypeInv'
    BY <1>3 DEF vars, TypeInv, Entries
  <2>. QED
    BY <2>1, <2>2
<1>. QED
  BY <1>1, <1>2, <1>3, PublishTypes, WindowTypes DEF Next

\* At first the stream and the inbox are empty and everybody is idle.
LEMMA TypesInitially == Init => TypeInv
<1>. SUFFICES ASSUME Init PROVE TypeInv
  OBVIOUS
<1>1. stream \in Seq(StreamType) /\ notes \in Seq(NoteType)
  BY EmptySeq DEF Init
<1>2. job \in [Consumers -> JobType] /\ \A c \in Consumers : JobFits(job[c], Entries, notes)
  BY JobsTyped DEF Init, JobFits
<1>3. claimed \subseteq Windowed \X Nat /\ fired \subseteq Entries
  BY DEF Init
<1>4. window \in 1..MaxWindows /\ faults \in 0..MaxFaults
  BY DEF Init
<1>. QED
  BY <1>1, <1>2, <1>3, <1>4 DEF TypeInv
-----------------------------------------------------------------------------
(* One notification per window.                                            *)

\* Who is about to insert a notification of an event with a window.
Inserting(c) == job[c].pc = "insert" /\ Ev(c) \in Windowed
KeyOf(c) == <<Ev(c), job[c].win>>

\* The claim of a window is held by at most one consumer, until its insert.
ClaimsHeld ==
    \A c \in Consumers : Inserting(c) =>
        /\ KeyOf(c) \in claimed
        /\ \A n \in DOMAIN notes : <<notes[n].ev, notes[n].win>> # KeyOf(c)
ClaimsApart ==
    \A c, d \in Consumers : Inserting(c) /\ Inserting(d) /\ KeyOf(c) = KeyOf(d) => c = d
NotesClaimed ==
    \A n \in DOMAIN notes : notes[n].ev \in Windowed => <<notes[n].ev, notes[n].win>> \in claimed

OnceInv == ClaimsHeld /\ ClaimsApart /\ NotesClaimed /\ OncePerWindow

\* A consumer that keeps its job keeps its event.
LEMMA SameKey ==
    ASSUME TypeInv, StreamGrown, NEW c \in Consumers, job'[c] = job[c], job[c] # NoJob
    PROVE  Ev(c)' = Ev(c) /\ KeyOf(c)' = KeyOf(c) /\ (Inserting(c)' <=> Inserting(c))
<1>1. job[c].at \in Entries
  BY AtEntry
<1>2. Ev(c)' = Ev(c)
  BY <1>1 DEF Ev, StreamGrown
<1>. QED
  BY <1>2 DEF KeyOf, Inserting

\* A step in which nobody comes to its insert and no notification is created.
LEMMA OnceQuiet ==
    ASSUME TypeInv, OnceInv, StreamGrown, NotesGrown, DOMAIN notes' = DOMAIN notes,
           claimed \subseteq claimed',
           \A d \in Consumers : job'[d].pc = "insert" => job'[d] = job[d]
    PROVE  OnceInv'
<1>1. \A d \in Consumers : Inserting(d)' => Inserting(d) /\ KeyOf(d)' = KeyOf(d)
  BY SameKey, JobsTyped DEF Inserting
<1>2. \A n \in DOMAIN notes : notes'[n].ev = notes[n].ev /\ notes'[n].win = notes[n].win
  BY DEF NotesGrown
<1>3. ClaimsHeld'
  BY <1>1, <1>2 DEF OnceInv, ClaimsHeld
<1>4. ClaimsApart'
  BY <1>1 DEF OnceInv, ClaimsApart
<1>5. NotesClaimed' /\ OncePerWindow'
  BY <1>2 DEF OnceInv, NotesClaimed, OncePerWindow
<1>. QED
  BY <1>3, <1>4, <1>5 DEF OnceInv

\* Who claims a window is alone with it, and no notification is of it.
LEMMA OnceClaim ==
    ASSUME TypeInv, OnceInv, NEW c \in Consumers, NEW u \in Users, Claim(c, u)
    PROVE  OnceInv'
<1>1. /\ StreamGrown /\ NotesGrown /\ claimed \subseteq claimed' /\ notes' = notes
      /\ \A d \in Consumers \ {c} : job'[d] = job[d]
      /\ job'[c].at = job[c].at /\ job[c] # NoJob /\ job[c].pc = "next"
      /\ \/ job'[c].pc = "next"
         \/ /\ job'[c].pc = "insert" /\ job'[c].win = window
            /\ Ev(c) \in Windowed => /\ <<Ev(c), window>> \notin claimed
                                     /\ <<Ev(c), window>> \in claimed'
  BY ClaimTypes DEF Claim
<1>2. CASE job'[c].pc = "next"
  BY <1>1, <1>2, OnceQuiet
<1>3. CASE job'[c].pc = "insert" /\ Ev(c) \notin Windowed
  <2>1. Ev(c)' = Ev(c)
    BY <1>1, AtEntry DEF Ev, StreamGrown
  <2>2. \A d \in Consumers : Inserting(d)' => d # c
    BY <1>3, <2>1 DEF Inserting
  <2>3. \A d \in Consumers : Inserting(d)' => Inserting(d) /\ KeyOf(d)' = KeyOf(d)
    BY <1>1, <2>2, SameKey, JobsTyped DEF Inserting
  <2>4. ClaimsHeld' /\ ClaimsApart'
    BY <1>1, <2>3 DEF OnceInv, ClaimsHeld, ClaimsApart
  <2>5. NotesClaimed' /\ OncePerWindow'
    BY <1>1 DEF OnceInv, NotesClaimed, OncePerWindow
  <2>. QED
    BY <2>4, <2>5 DEF OnceInv
<1>4. CASE job'[c].pc = "insert" /\ Ev(c) \in Windowed
  <2>. DEFINE key == <<Ev(c), window>>
  <2>1. key \notin claimed /\ key \in claimed' /\ job'[c].win = window
    BY <1>1, <1>4
  <2>2. KeyOf(c)' = key
    <3>1. Ev(c)' = Ev(c)
      BY <1>1, AtEntry DEF Ev, StreamGrown
    <3>. QED
      BY <2>1, <3>1 DEF KeyOf
  <2>. HIDE DEF key
  <2>3. \A d \in Consumers \ {c} : Inserting(d)' =>
          Inserting(d) /\ KeyOf(d)' = KeyOf(d) /\ KeyOf(d) # key
    BY <1>1, <2>1, SameKey, JobsTyped DEF Inserting, OnceInv, ClaimsHeld
  <2>4. \A n \in DOMAIN notes : notes[n].ev \in Windowed => <<notes[n].ev, notes[n].win>> # key
    BY <2>1 DEF OnceInv, NotesClaimed
  <2>5. \A n \in DOMAIN notes : <<notes[n].ev, notes[n].win>> # key
    BY <1>4, <2>4 DEF key
  <2>6. ClaimsHeld'
    BY <1>1, <2>1, <2>2, <2>3, <2>5 DEF OnceInv, ClaimsHeld
  <2>7. ClaimsApart'
    BY <2>2, <2>3 DEF OnceInv, ClaimsApart
  <2>8. NotesClaimed' /\ OncePerWindow'
    BY <1>1 DEF OnceInv, NotesClaimed, OncePerWindow
  <2>. QED
    BY <2>6, <2>7, <2>8 DEF OnceInv
<1>. QED
  BY <1>1, <1>2, <1>3, <1>4

\* Only the holder of the claim inserts for its window.
LEMMA OnceInsert ==
    ASSUME TypeInv, OnceInv, NEW c \in Consumers, Insert(c)
    PROVE  OnceInv'
<1>1. /\ StreamGrown /\ NotesGrown /\ claimed' = claimed
      /\ \A d \in Consumers \ {c} : job'[d] = job[d]
      /\ job[c] # NoJob /\ job[c].pc = "insert"
      /\ \/ /\ notes' = notes /\ job'[c].pc = "next"
         \/ /\ job'[c].pc = "dispatch"
            /\ DOMAIN notes' = DOMAIN notes \union {Len(notes) + 1}
            /\ notes'[Len(notes) + 1].ev = Ev(c) /\ notes'[Len(notes) + 1].win = job[c].win
            /\ \A n \in DOMAIN notes : notes'[n] = notes[n]
  BY InsertTypes DEF Insert
<1>2. CASE notes' = notes /\ job'[c].pc = "next"
  BY <1>1, <1>2, OnceQuiet
<1>3. CASE job'[c].pc = "dispatch"
  <2>. DEFINE m == Len(notes) + 1
  <2>1. /\ DOMAIN notes' = DOMAIN notes \union {m}
        /\ notes'[m].ev = Ev(c) /\ notes'[m].win = job[c].win
        /\ \A n \in DOMAIN notes : notes'[n] = notes[n]
    BY <1>1, <1>3
  <2>. HIDE DEF m
  <2>2. \A d \in Consumers : Inserting(d)' => d # c /\ Inserting(d) /\ KeyOf(d)' = KeyOf(d)
    BY <1>1, <1>3, SameKey, JobsTyped DEF Inserting
  <2>3. notes'[m].ev \in Windowed => Inserting(c) /\ <<notes'[m].ev, notes'[m].win>> = KeyOf(c)
    BY <1>1, <2>1 DEF Inserting, KeyOf
  <2>4. ASSUME NEW d \in Consumers, Inserting(d)'
        PROVE  KeyOf(d)' \in claimed' /\ <<notes'[m].ev, notes'[m].win>> # KeyOf(d)'
    <3>1. d # c /\ Inserting(d) /\ KeyOf(d)' = KeyOf(d) /\ KeyOf(d) \in claimed
      BY <2>2, <2>4 DEF OnceInv, ClaimsHeld
    <3>2. CASE notes'[m].ev \in Windowed
      BY <1>1, <2>3, <3>1, <3>2 DEF OnceInv, ClaimsApart
    <3>3. CASE notes'[m].ev \notin Windowed
      BY <1>1, <3>1, <3>3 DEF Inserting, KeyOf
    <3>. QED
      BY <1>1, <3>1, <3>2, <3>3
  <2>5. ClaimsHeld'
    BY <2>1, <2>2, <2>4 DEF OnceInv, ClaimsHeld
  <2>6. ClaimsApart'
    BY <2>2 DEF OnceInv, ClaimsApart
  <2>7. NotesClaimed'
    BY <1>1, <2>1, <2>3 DEF OnceInv, NotesClaimed, ClaimsHeld
  <2>8. \A n \in DOMAIN notes : notes'[m].ev \in Windowed =>
          <<notes[n].ev, notes[n].win>> # <<notes'[m].ev, notes'[m].win>>
    BY <2>3 DEF OnceInv, ClaimsHeld
  <2>9. OncePerWindow'
    BY <2>1, <2>8 DEF OnceInv, OncePerWindow
  <2>. QED
    BY <2>5, <2>6, <2>7, <2>9 DEF OnceInv
<1>. QED
  BY <1>1, <1>2, <1>3

\* Every step keeps one notification per window.
LEMMA OnceStays == TypeInv /\ OnceInv /\ [Next]_vars => OnceInv'
<1>. SUFFICES ASSUME TypeInv, OnceInv, [Next]_vars PROVE OnceInv'
  OBVIOUS
<1>1. StreamGrown /\ NotesGrown
  BY TypesStay
<1>2. ASSUME NEW c \in Consumers, NEW pc, pc # "insert", job'[c].pc = pc,
             \A d \in Consumers \ {c} : job'[d] = job[d], claimed' = claimed,
             DOMAIN notes' = DOMAIN notes
      PROVE  OnceInv'
  BY <1>1, <1>2, OnceQuiet
<1>3. ASSUME NEW c \in Consumers, ConsumerStep(c) PROVE OnceInv'
  <2>1. CASE \E i, last \in Entries : Deliver(c, i, last)
    BY <1>2, <2>1, DeliverTypes DEF Deliver
  <2>2. CASE \E i \in Entries : Reclaim(c, i)
    BY <1>2, <2>2, ReclaimTypes DEF Reclaim
  <2>3. CASE \E u \in Users : Claim(c, u)
    BY <2>3, OnceClaim
  <2>4. CASE Resolve(c)
    BY <1>2, <2>4, ResolveTypes DEF Resolve
  <2>5. CASE Insert(c)
    BY <2>5, OnceInsert
  <2>6. CASE Dispatch(c)
    BY <1>2, <2>6, DispatchTypes DEF Dispatch
  <2>7. CASE PublishTrigger(c)
    BY <1>2, <2>7, PublishTriggerTypes DEF PublishTrigger
  <2>8. CASE Ack(c)
    BY <1>2, <2>8, AckTypes DEF Ack
  <2>. QED
    BY <1>3, <2>1, <2>2, <2>3, <2>4, <2>5, <2>6, <2>7, <2>8 DEF ConsumerStep
<1>4. ASSUME NEW c \in Consumers, Crash(c) PROVE OnceInv'
  BY <1>2, <1>4, CrashTypes DEF Crash
<1>5. ASSUME NEW c \in Consumers, ResolveFails(c) \/ HandlerThrows(c) PROVE OnceInv'
  BY <1>2, <1>5, ThrowTypes DEF ResolveFails, HandlerThrows
<1>6. CASE UNCHANGED <<job, claimed, notes>>
  BY <1>1, <1>6, OnceQuiet
<1>. QED
  BY <1>3, <1>4, <1>5, <1>6 DEF Next, Publish, WindowEnds, vars

\* At first nothing is claimed.
LEMMA OnceInitially == Init => OnceInv
BY JobsTyped
   DEF Init, OnceInv, ClaimsHeld, ClaimsApart, NotesClaimed, OncePerWindow, Inserting

\* The stream, the inbox and the consumers keep their shape.
THEOREM EngineTypes == Spec => []EngineTypeOK
<1>1. TypeInv => EngineTypeOK
  BY DEF TypeInv, EngineTypeOK, JobFits
<1>. QED
  BY <1>1, TypesInitially, TypesStay, PTL DEF Spec

\* However often an event is published, redelivered or reclaimed, one window of it
\* yields one notification.
THEOREM OneNotePerWindow == Spec => []OncePerWindow
<1>1. Init => TypeInv /\ OnceInv
  BY TypesInitially, OnceInitially
<1>2. (TypeInv /\ OnceInv) /\ [Next]_vars => (TypeInv /\ OnceInv)'
  BY TypesStay, OnceStays
<1>3. OnceInv => OncePerWindow
  BY DEF OnceInv
<1>. QED
  BY <1>1, <1>2, <1>3, PTL DEF Spec
-----------------------------------------------------------------------------
(* What is acknowledged was tried.                                         *)

\* A consumer at an event without a window still has, or has tried, everybody
\* who wants it; before it acknowledges it has tried them all.
Owes(c) ==
    /\ job[c].pc \in {"next", "insert", "dispatch"} /\ ~stream[job[c].at].lost
         /\ Ev(c) \notin Windowed
         => \A u \in Wanted(Ev(c)) : u \in job[c].todo \/ Tried(job[c].at, u)
    /\ job[c].pc = "ack" /\ ~stream[job[c].at].lost
         => /\ job[c].at \in fired
            /\ Ev(c) \notin Windowed => \A u \in Wanted(Ev(c)) : Tried(job[c].at, u)
AllOwe == \A c \in Consumers : Owes(c)
OwesInv == AllOwe /\ AckedTriedAll

\* Who was tried stays tried.
LEMMA TriedStays ==
    ASSUME TypeInv, NotesGrown, NEW i, NEW u, Tried(i, u)
    PROVE  Tried(i, u)'
<1>1. PICK n \in DOMAIN notes : /\ notes[n].of = i /\ notes[n].user = u
                                /\ notes[n].out \in Outcomes(u)
  BY DEF Tried
<1>2. /\ n \in DOMAIN notes' /\ notes'[n].of = i /\ notes'[n].user = u
      /\ notes'[n].out \in Outcomes(u)
  BY <1>1 DEF NotesGrown
<1>. QED
  BY <1>2 DEF Tried

\* A consumer at the same entry handles the same event.
LEMMA SameEvent ==
    ASSUME TypeInv, StreamGrown, NEW c \in Consumers, job[c] # NoJob, job'[c].at = job[c].at
    PROVE  /\ Ev(c)' = Ev(c)
           /\ ~stream'[job'[c].at].lost => ~stream[job[c].at].lost
BY AtEntry DEF Ev, StreamGrown

\* A consumer that does not step owes what it owed.
LEMMA OwesStays ==
    ASSUME TypeInv, StreamGrown, NotesGrown, fired \subseteq fired', NEW c \in Consumers,
           Owes(c), job'[c] = job[c]
    PROVE  Owes(c)'
<1>1. CASE job[c] = NoJob
  BY <1>1, JobsTyped DEF Owes
<1>2. CASE job[c] # NoJob
  <2>1. /\ Ev(c)' = Ev(c) /\ job'[c].at = job[c].at
        /\ ~stream'[job'[c].at].lost => ~stream[job[c].at].lost
    BY <1>2, SameEvent
  <2>2. \A u : Tried(job[c].at, u) => Tried(job[c].at, u)'
    <3>1. ASSUME NEW u, Tried(job[c].at, u) PROVE Tried(job[c].at, u)'
      BY <2>1, <3>1, TriedStays DEF Tried
    <3>. QED
      BY <3>1
  <2>. QED
    BY <2>1, <2>2 DEF Owes, Wanted, Recipients
<1>. QED
  BY <1>1, <1>2

\* Who was tried for the entry a consumer is still at stays tried.
LEMMA TriedHere ==
    ASSUME TypeInv, NotesGrown, NEW c \in Consumers, job'[c].at = job[c].at, NEW u,
           Tried(job[c].at, u)
    PROVE  Tried(job[c].at, u)'
BY TriedStays DEF Tried

\* A step of one consumer.
LEMMA OwesStep ==
    ASSUME TypeInv, AllOwe, StreamGrown, NotesGrown, fired \subseteq fired', NEW c \in Consumers,
           \A d \in Consumers \ {c} : job'[d] = job[d], Owes(c)'
    PROVE  AllOwe'
<1>1. ASSUME NEW d \in Consumers, d # c PROVE Owes(d)'
  BY <1>1, OwesStays DEF AllOwe
<1>. QED
  BY <1>1 DEF AllOwe

\* A consumer that is idle or at the start of an entry owes nothing yet.
LEMMA OwesNothing ==
    ASSUME NEW c \in Consumers, job'[c].pc \in {"idle", "resolve"}
    PROVE  Owes(c)'
BY DEF Owes

LEMMA OwesResolved ==
    ASSUME TypeInv, NEW c \in Consumers, Resolve(c) PROVE Owes(c)'
<1>1. /\ StreamGrown /\ job'[c].pc = "next" /\ job'[c].at = job[c].at
      /\ job'[c].todo = Recipients(Ev(c)) /\ job[c] # NoJob
  BY ResolveTypes, JobsTyped DEF Resolve
<1>2. Ev(c)' = Ev(c)
  BY <1>1, SameEvent
<1>3. \A u \in Wanted(Ev(c)) : u \in job'[c].todo
  BY <1>1 DEF Wanted
<1>. QED
  BY <1>1, <1>2, <1>3 DEF Owes, Wanted, Recipients

LEMMA OwesClaimed ==
    ASSUME TypeInv, AllOwe, NEW c \in Consumers, NEW u \in Users, Claim(c, u) PROVE Owes(c)'
<1>1. /\ StreamGrown /\ NotesGrown /\ job'[c].at = job[c].at /\ job[c] # NoJob
      /\ job[c].pc = "next"
      /\ \/ Ev(c) \in Windowed /\ job'[c].pc = "next"
         \/ job'[c].pc = "insert" /\ job'[c].todo = job[c].todo
  BY ClaimTypes
<1>2. Ev(c)' = Ev(c) /\ (~stream'[job'[c].at].lost => ~stream[job[c].at].lost)
  BY <1>1, SameEvent
<1>3. Owes(c)
  BY DEF AllOwe
<1>4. CASE Ev(c) \in Windowed
  BY <1>1, <1>2, <1>4 DEF Owes
<1>5. CASE Ev(c) \notin Windowed
  <2>1. job'[c].pc = "insert" /\ job'[c].todo = job[c].todo
    BY <1>1, <1>5
  <2>2. ~stream'[job'[c].at].lost =>
          \A w \in Wanted(Ev(c)) : w \in job[c].todo \/ Tried(job[c].at, w)
    BY <1>1, <1>2, <1>3, <1>5 DEF Owes
  <2>3. ~stream'[job'[c].at].lost =>
          \A w \in Wanted(Ev(c)) : w \in job[c].todo \/ Tried(job[c].at, w)'
    BY <1>1, <2>2, TriedHere
  <2>. QED
    BY <1>2, <2>1, <2>3 DEF Owes, Wanted, Recipients
<1>. QED
  BY <1>4, <1>5

LEMMA OwesInserted ==
    ASSUME TypeInv, AllOwe, NEW c \in Consumers, Insert(c) PROVE Owes(c)'
<1>1. /\ StreamGrown /\ NotesGrown /\ job'[c].at = job[c].at /\ job[c] # NoJob
      /\ job[c].pc = "insert" /\ job'[c].pc \in {"next", "dispatch"}
      /\ \/ /\ <<job[c].user, Ev(c)>> \in Muted
            /\ job'[c].todo = job[c].todo \ {job[c].user}
         \/ job'[c].todo = job[c].todo
  BY InsertTypes
<1>2. Ev(c)' = Ev(c) /\ (~stream'[job'[c].at].lost => ~stream[job[c].at].lost)
  BY <1>1, SameEvent
<1>3. Owes(c)
  BY DEF AllOwe
<1>4. ASSUME Ev(c) \notin Windowed, ~stream'[job'[c].at].lost, NEW w \in Wanted(Ev(c))
      PROVE  w \in job'[c].todo \/ Tried(job[c].at, w)'
  <2>1. w \in job[c].todo \/ Tried(job[c].at, w)
    BY <1>1, <1>2, <1>3, <1>4 DEF Owes
  <2>2. <<w, Ev(c)>> \notin Muted
    BY <1>4 DEF Wanted
  <2>3. w \in job[c].todo => w \in job'[c].todo
    BY <1>1, <2>2
  <2>. QED
    BY <1>1, <2>1, <2>3, TriedHere
<1>. QED
  BY <1>1, <1>2, <1>4 DEF Owes, Wanted, Recipients

LEMMA OwesDispatched ==
    ASSUME TypeInv, AllOwe, NEW c \in Consumers, Dispatch(c) PROVE Owes(c)'
<1>. DEFINE m == job[c].win
<1>1. /\ StreamGrown /\ NotesGrown /\ job'[c].at = job[c].at /\ job[c] # NoJob
      /\ job[c].pc = "dispatch" /\ job'[c].pc = "next"
      /\ job'[c].todo = job[c].todo \ {job[c].user}
      /\ m \in DOMAIN notes /\ notes[m].of = job[c].at /\ notes[m].user = job[c].user
      /\ notes'[m].out \in Outcomes(job[c].user)
  BY DispatchTypes
<1>. HIDE DEF m
<1>2. Ev(c)' = Ev(c) /\ (~stream'[job'[c].at].lost => ~stream[job[c].at].lost)
  BY <1>1, SameEvent
<1>3. Owes(c)
  BY DEF AllOwe
<1>. PICK user : user = job[c].user
  OBVIOUS
<1>4. Tried(job[c].at, user)'
  <2>1. /\ m \in DOMAIN notes' /\ notes'[m].of = job'[c].at /\ notes'[m].user = user
        /\ notes'[m].out \in Outcomes(user)
    BY <1>1 DEF NotesGrown
  <2>. QED
    BY <2>1 DEF Tried
<1>5. ASSUME Ev(c) \notin Windowed, ~stream'[job'[c].at].lost, NEW w \in Wanted(Ev(c))
      PROVE  w \in job'[c].todo \/ Tried(job[c].at, w)'
  <2>1. w \in job[c].todo \/ Tried(job[c].at, w)
    BY <1>1, <1>2, <1>3, <1>5 DEF Owes
  <2>2. w \in job[c].todo => w \in job'[c].todo \/ w = user
    BY <1>1
  <2>. QED
    BY <1>1, <1>4, <2>1, <2>2, TriedHere
<1>. QED
  BY <1>1, <1>2, <1>5 DEF Owes, Wanted, Recipients

LEMMA OwesTriggered ==
    ASSUME TypeInv, AllOwe, NEW c \in Consumers, PublishTrigger(c) PROVE Owes(c)'
<1>1. /\ StreamGrown /\ NotesGrown /\ job'[c].at = job[c].at /\ job[c] # NoJob
      /\ job[c].pc = "next" /\ job[c].todo = {} /\ job'[c].pc = "ack"
      /\ fired' = fired \union {job[c].at}
  BY PublishTriggerTypes
<1>2. Ev(c)' = Ev(c) /\ (~stream'[job'[c].at].lost => ~stream[job[c].at].lost)
  BY <1>1, SameEvent
<1>3. Owes(c)
  BY DEF AllOwe
<1>4. ASSUME Ev(c) \notin Windowed, ~stream'[job'[c].at].lost, NEW w \in Wanted(Ev(c))
      PROVE  Tried(job[c].at, w)'
  <2>1. Tried(job[c].at, w)
    BY <1>1, <1>2, <1>3, <1>4 DEF Owes
  <2>. QED
    BY <1>1, <2>1, TriedHere
<1>. QED
  BY <1>1, <1>2, <1>4 DEF Owes, Wanted, Recipients

LEMMA OwesThrown ==
    ASSUME TypeInv, NEW c \in Consumers, ResolveFails(c) \/ HandlerThrows(c) PROVE Owes(c)'
<1>1. job'[c].at = job[c].at /\ stream'[job[c].at].lost
  BY ThrowTypes
<1>. QED
  BY <1>1 DEF Owes

\* What was done of an entry.
Done(i) ==
    /\ i \in fired
    /\ stream[i].ev \notin Windowed => \A u \in Wanted(stream[i].ev) : Tried(i, u)

\* Done stays done, so only a new acknowledgement matters.
LEMMA AckedStep ==
    ASSUME TypeInv, AckedTriedAll, StreamGrown, NotesGrown, fired \subseteq fired',
           \A i \in Entries' : Settled(i)' => i \in Entries /\ (Settled(i) \/ Done(i))
    PROVE  AckedTriedAll'
<1>1. ASSUME NEW i \in Entries', Settled(i)' PROVE Done(i)'
  <2>1. i \in Entries /\ Done(i)
    BY <1>1 DEF AckedTriedAll, Done
  <2>2. stream'[i].ev = stream[i].ev /\ i \in fired'
    BY <2>1 DEF StreamGrown, Done
  <2>3. \A u : Tried(i, u) => Tried(i, u)'
    BY TriedStays
  <2>. QED
    BY <2>1, <2>2, <2>3 DEF Done, Wanted, Recipients
<1>. QED
  BY <1>1 DEF AckedTriedAll, Done

\* A step that acknowledges nothing.
LEMMA AckedQuiet ==
    ASSUME TypeInv, AckedTriedAll, StreamGrown, NotesGrown, fired \subseteq fired',
           UNCHANGED stream
    PROVE  AckedTriedAll'
<1>1. \A i \in Entries' : Settled(i)' => i \in Entries /\ Settled(i)
  BY DEF Entries, Settled
<1>. QED
  BY <1>1, AckedStep

\* An acknowledgement settles what the consumer has done.
LEMMA AckedByAck ==
    ASSUME TypeInv, AllOwe, AckedTriedAll, NEW c \in Consumers, Ack(c)
    PROVE  AckedTriedAll'
<1>1. /\ StreamGrown /\ NotesGrown /\ Entries' = Entries /\ job[c] # NoJob /\ job[c].pc = "ack"
      /\ stream'[job[c].at].lost = stream[job[c].at].lost
      /\ \A k \in Entries \ {job[c].at} : stream'[k] = stream[k]
  BY AckTypes
<1>2. fired' = fired
  BY DEF Ack
<1>3. ASSUME NEW i \in Entries', Settled(i)' PROVE i \in Entries /\ (Settled(i) \/ Done(i))
  <2>1. CASE i = job[c].at
    <3>1. ~stream[i].lost
      BY <1>1, <1>3, <2>1 DEF Settled
    <3>. QED
      BY <1>1, <1>3, <2>1, <3>1 DEF AllOwe, Owes, Ev, Done
  <2>2. CASE i # job[c].at
    BY <1>1, <1>3, <2>2 DEF Settled
  <2>. QED
    BY <2>1, <2>2
<1>. QED
  BY <1>1, <1>2, <1>3, AckedStep

\* Every step keeps the delivery guarantee.
LEMMA OwesInvStays == TypeInv /\ OwesInv /\ [Next]_vars => OwesInv'
<1>. SUFFICES ASSUME TypeInv, OwesInv, [Next]_vars PROVE OwesInv'
  OBVIOUS
<1>. USE DEF OwesInv
<1>1. StreamGrown /\ NotesGrown
  BY TypesStay
<1>2. ASSUME NEW c \in Consumers, NEW i \in Entries, NEW last \in Entries, Deliver(c, i, last)
      PROVE  OwesInv'
  <2>1. /\ job'[c].pc = "resolve" /\ \A d \in Consumers \ {c} : job'[d] = job[d]
        /\ \A k \in Entries' : /\ k \in Entries /\ stream'[k].lost = stream[k].lost
                               /\ stream'[k].state \in {stream[k].state, "pending"}
    BY <1>2, DeliverTypes
  <2>2. fired \subseteq fired'
    BY <1>2 DEF Deliver
  <2>3. AllOwe'
    BY <1>1, <2>1, <2>2, OwesStep, OwesNothing
  <2>4. \A k \in Entries' : Settled(k)' => k \in Entries /\ Settled(k)
    BY <2>1 DEF Settled
  <2>. QED
    BY <1>1, <2>2, <2>3, <2>4, AckedStep
<1>3. ASSUME NEW c \in Consumers, Owes(c)', \A d \in Consumers \ {c} : job'[d] = job[d],
             UNCHANGED stream, fired \subseteq fired'
      PROVE  OwesInv'
  BY <1>1, <1>3, OwesStep, AckedQuiet
<1>4. ASSUME NEW c \in Consumers, NEW i \in Entries, Reclaim(c, i) PROVE OwesInv'
  BY <1>3, <1>4, ReclaimTypes, OwesNothing DEF Reclaim
<1>5. ASSUME NEW c \in Consumers, Resolve(c) PROVE OwesInv'
  BY <1>3, <1>5, ResolveTypes, OwesResolved DEF Resolve
<1>6. ASSUME NEW c \in Consumers, NEW u \in Users, Claim(c, u) PROVE OwesInv'
  BY <1>3, <1>6, ClaimTypes, OwesClaimed DEF Claim
<1>7. ASSUME NEW c \in Consumers, Insert(c) PROVE OwesInv'
  BY <1>3, <1>7, InsertTypes, OwesInserted DEF Insert
<1>8. ASSUME NEW c \in Consumers, Dispatch(c) PROVE OwesInv'
  BY <1>3, <1>8, DispatchTypes, OwesDispatched DEF Dispatch
<1>9. ASSUME NEW c \in Consumers, PublishTrigger(c) PROVE OwesInv'
  BY <1>3, <1>9, PublishTriggerTypes, OwesTriggered DEF PublishTrigger
<1>10. ASSUME NEW c \in Consumers, Crash(c) PROVE OwesInv'
  BY <1>3, <1>10, CrashTypes, OwesNothing DEF Crash
<1>11. ASSUME NEW c \in Consumers, Ack(c) PROVE OwesInv'
  <2>1. /\ job'[c].pc \in {"idle", "resolve"} /\ \A d \in Consumers \ {c} : job'[d] = job[d]
        /\ fired \subseteq fired'
    BY <1>11, AckTypes DEF Ack
  <2>2. AllOwe'
    BY <1>1, <2>1, OwesStep, OwesNothing
  <2>. QED
    BY <1>11, <2>2, AckedByAck
<1>12. ASSUME NEW c \in Consumers, ResolveFails(c) \/ HandlerThrows(c) PROVE OwesInv'
  <2>1. /\ Entries' = Entries /\ \A d \in Consumers \ {c} : job'[d] = job[d]
        /\ stream'[job[c].at].lost /\ \A k \in Entries \ {job[c].at} : stream'[k] = stream[k]
        /\ fired \subseteq fired'
    BY <1>12, ThrowTypes DEF ResolveFails, HandlerThrows
  <2>2. AllOwe'
    BY <1>1, <1>12, <2>1, OwesStep, OwesThrown
  <2>3. \A k \in Entries' : Settled(k)' => k \in Entries /\ Settled(k)
    BY <2>1 DEF Settled
  <2>. QED
    BY <1>1, <2>1, <2>2, <2>3, AckedStep
<1>13. ASSUME NEW e \in Events, Publish(e) PROVE OwesInv'
  <2>. DEFINE r == [ev |-> e, state |-> "new", lost |-> FALSE]
  <2>1. r \in StreamType /\ r.state = "new"
    BY DEF StreamType
  <2>2. stream' = Append(stream, r) /\ UNCHANGED <<job, fired>>
    BY <1>13 DEF Publish
  <2>. HIDE DEF r
  <2>3. /\ Entries' = Entries \union {Len(stream) + 1} /\ stream'[Len(stream) + 1] = r
        /\ \A k \in Entries : stream'[k] = stream[k]
    BY <2>1, <2>2, Adding
  <2>4. AllOwe'
    BY <1>1, <2>2, OwesStays DEF AllOwe
  <2>5. \A k \in Entries' : Settled(k)' => k \in Entries /\ Settled(k)
    BY <2>1, <2>3 DEF Settled
  <2>. QED
    BY <1>1, <2>2, <2>4, <2>5, AckedStep
<1>14. CASE UNCHANGED <<stream, job, fired>>
  <2>1. AllOwe'
    BY <1>1, <1>14, OwesStays DEF AllOwe
  <2>. QED
    BY <1>1, <1>14, <2>1, AckedQuiet
<1>. QED
  BY <1>2, <1>4, <1>5, <1>6, <1>7, <1>8, <1>9, <1>10, <1>11, <1>12, <1>13, <1>14
     DEF Next, ConsumerStep, WindowEnds, vars

\* At first there is nothing to deliver.
LEMMA OwesInitially == Init => OwesInv
BY JobsTyped DEF Init, OwesInv, AllOwe, Owes, AckedTriedAll, Entries

\* Once an event is acknowledged, and no exception cut its handling short, its
\* trigger is published and, without a window, every recipient has its
\* notification and the one try at the outbound channels was made.
THEOREM AckedIsTried == Spec => []AckedTriedAll
<1>1. Init => TypeInv /\ OwesInv
  BY TypesInitially, OwesInitially
<1>2. (TypeInv /\ OwesInv) /\ [Next]_vars => (TypeInv /\ OwesInv)'
  BY TypesStay, OwesInvStays
<1>3. OwesInv => AckedTriedAll
  BY DEF OwesInv
<1>. QED
  BY <1>1, <1>2, <1>3, PTL DEF Spec
-----------------------------------------------------------------------------
(* The consumer group.                                                     *)

BarEntries == [i \in Entries |-> stream[i].state]
HoldOf(j) == [at |-> j.at, last |-> j.last, done |-> j.pc = "ack"]
BarHold == [c \in Consumers |-> HoldOf(job[c])]

\* What a consumer with a job holds.
LEMMA HoldFields ==
    ASSUME NEW j
    PROVE  /\ HoldOf(j).at = j.at /\ HoldOf(j).last = j.last
           /\ HoldOf(j).done = (j.pc = "ack")
BY DEF HoldOf

\* A consumer holds nothing in the group when it has no job.
LEMMA HoldsNothing ==
    ASSUME TypeInv, NEW c \in Consumers
    PROVE  job[c] = NoJob <=> BarHold[c] = Group!Nothing
<1>1. HoldOf(NoJob) = Group!Nothing
  BY DEF HoldOf, NoJob, At, Group!Nothing, Group!Holding
<1>2. ASSUME job[c] # NoJob PROVE BarHold[c] # Group!Nothing
  <2>1. job[c].at \in 1..Len(stream)
    BY <1>2, AtEntry
  <2>. QED
    BY <2>1 DEF BarHold, HoldOf, Group!Nothing, Group!Holding
<1>. QED
  BY <1>1, <1>2 DEF BarHold

\* One consumer's job is written.
LEMMA HoldSet ==
    ASSUME TypeInv, TypeInv', NEW c \in Consumers, \A d \in Consumers \ {c} : job'[d] = job[d]
    PROVE  BarHold' = [BarHold EXCEPT ![c] = HoldOf(job'[c])]
BY DEF BarHold, HoldOf

\* A consumer that keeps its entry, its batch and whether it is done.
LEMMA HoldSame ==
    ASSUME TypeInv, TypeInv', NEW c \in Consumers, \A d \in Consumers \ {c} : job'[d] = job[d],
           job'[c].at = job[c].at, job'[c].last = job[c].last,
           job'[c].pc = "ack" <=> job[c].pc = "ack"
    PROVE  BarHold' = BarHold
BY DEF BarHold, HoldOf

\* No delivery state changes.
LEMMA EntriesSame ==
    ASSUME Entries' = Entries, \A k \in Entries : stream'[k].state = stream[k].state
    PROVE  BarEntries' = BarEntries
BY DEF BarEntries

\* The group's steps are steps of ConsumerGroup under the mapping.
LEMMA AddIsGroup ==
    ASSUME BarEntries' = Append(BarEntries, "new"), BarHold' = BarHold PROVE Group!Add
BY DEF BarEntries, BarHold, HoldOf, Group!Add

LEMMA HandIsGroup ==
    ASSUME NEW c, NEW i, NEW last, BarHold[c] = Group!Nothing, i <= last, BarEntries[i] = "new",
           \A j \in 1..(i - 1) : BarEntries[j] # "new",
           BarEntries' = [j \in DOMAIN BarEntries |->
             IF j \in i..last THEN "pending" ELSE BarEntries[j]],
           BarHold' = [BarHold EXCEPT ![c] = Group!Holding(i, last, FALSE)]
    PROVE  Group!Hand(c, i, last)
BY DEF BarEntries, BarHold, HoldOf, Group!Hand

LEMMA AgainIsGroup ==
    ASSUME NEW c, NEW i, BarHold[c] = Group!Nothing, BarEntries[i] = "pending",
           BarHold' = [BarHold EXCEPT ![c] = Group!Holding(i, i, FALSE)], BarEntries' = BarEntries
    PROVE  Group!HandAgain(c, i)
BY DEF BarEntries, BarHold, HoldOf, Group!HandAgain

LEMMA FinishIsGroup ==
    ASSUME NEW c, BarHold[c] # Group!Nothing, ~BarHold[c].done, BarEntries' = BarEntries,
           BarHold' = [BarHold EXCEPT ![c] = Group!Holding(BarHold[c].at, BarHold[c].last, TRUE)]
    PROVE  Group!Finish(c)
BY DEF BarEntries, BarHold, HoldOf, Group!Finish

LEMMA SettleIsGroup ==
    ASSUME NEW c, BarHold[c] # Group!Nothing, BarHold[c].done,
           BarEntries' = [BarEntries EXCEPT ![BarHold[c].at] = "acked"],
           BarHold' = [BarHold EXCEPT ![c] = Group!AfterSettling(BarHold[c])]
    PROVE  Group!Settle(c)
BY DEF BarEntries, BarHold, HoldOf, Group!Settle

LEMMA DropIsGroup ==
    ASSUME NEW c, BarHold[c] # Group!Nothing, BarHold' = [BarHold EXCEPT ![c] = Group!Nothing],
           BarEntries' = BarEntries
    PROVE  Group!Drop(c)
BY DEF BarEntries, BarHold, HoldOf, Group!Drop

LEMMA StutterIsGroup ==
    ASSUME BarEntries' = BarEntries, BarHold' = BarHold PROVE UNCHANGED Group!groupVars
BY DEF BarEntries, BarHold, HoldOf, Group!groupVars

\* A step of the group by one of the consumers.
LEMMA ConsumerIsGroup ==
    ASSUME NEW c \in Consumers,
           \/ \E i, last \in DOMAIN BarEntries : Group!Hand(c, i, last)
           \/ \E i \in DOMAIN BarEntries : Group!HandAgain(c, i)
           \/ Group!Finish(c) \/ Group!Settle(c) \/ Group!Drop(c)
    PROVE  Group!GroupNext
BY DEF BarEntries, Group!GroupNext

\* Publishing adds an entry to the group.
LEMMA PublishAdds ==
    ASSUME TypeInv, NEW e \in Events, Publish(e) PROVE Group!GroupNext
<1>. DEFINE r == [ev |-> e, state |-> "new", lost |-> FALSE]
            n == Len(stream)
            States == {"new", "pending", "acked"}
<1>1. r \in StreamType /\ r.state = "new"
  BY DEF StreamType
<1>2. stream' = Append(stream, r) /\ job' = job
  BY DEF Publish
<1>. HIDE DEF r
<1>3. /\ Entries' = Entries \union {n + 1} /\ stream'[n + 1] = r /\ Entries = 1..n /\ n \in Nat
      /\ \A k \in Entries : stream'[k] = stream[k]
  BY <1>1, <1>2, Adding
<1>4. \A k \in 1..n : stream[k].state \in States
  <2>1. \A k \in 1..n : stream[k] \in StreamType
    BY ElementOfSeq DEF TypeInv
  <2>. QED
    BY <2>1 DEF StreamType
<1>. HIDE DEF n
<1>5. BarEntries \in [1..n -> States] /\ \A k \in 1..n : BarEntries[k] = stream[k].state
  BY <1>3, <1>4 DEF BarEntries
<1>6. BarEntries \in Seq(States) /\ Len(BarEntries) = n
  <2>1. BarEntries \in Seq(States)
    BY <1>3, <1>5, SeqDef
  <2>2. Len(BarEntries) \in Nat /\ 1..n = 1..Len(BarEntries)
    BY <1>5, <2>1, LenProperties
  <2>. QED
    BY <1>3, <2>1, <2>2
<1>7. /\ BarEntries' \in [1..(n + 1) -> States] /\ BarEntries'[n + 1] = "new"
      /\ \A k \in 1..n : BarEntries'[k] = stream[k].state
  <2>1. Entries' = 1..(n + 1)
    BY <1>3
  <2>. QED
    BY <1>1, <1>3, <1>4, <2>1 DEF BarEntries
<1>8. BarEntries' \in Seq(States) /\ Len(BarEntries') = n + 1
  <2>1. BarEntries' \in Seq(States)
    <3>1. n + 1 \in Nat
      BY <1>3
    <3>. QED
      BY <1>7, <3>1, SeqDef
  <2>2. Len(BarEntries') \in Nat /\ 1..(n + 1) = 1..Len(BarEntries')
    BY <1>7, <2>1, LenProperties
  <2>. QED
    BY <1>3, <2>1, <2>2
<1>. DEFINE s == Append(BarEntries, "new")
<1>9. /\ s \in Seq(States) /\ Len(s) = n + 1 /\ s[n + 1] = "new"
      /\ \A k \in 1..n : s[k] = BarEntries[k]
  BY <1>6
<1>. HIDE DEF s
<1>10. \A k \in 1..(n + 1) : BarEntries'[k] = s[k]
  BY <1>3, <1>5, <1>7, <1>9
<1>11. BarEntries' = s
  BY <1>8, <1>9, <1>10, SeqEqual
<1>12. BarHold' = BarHold
  BY <1>2 DEF BarHold
<1>13. Group!Add
  BY <1>11, <1>12, AddIsGroup DEF s
<1>. QED
  BY <1>13 DEF Group!GroupNext

\* A delivered batch is handed out.
LEMMA DeliverHands ==
    ASSUME TypeInv, NEW c \in Consumers, NEW i \in Entries, NEW last \in Entries,
           Deliver(c, i, last)
    PROVE  Group!GroupNext
<1>1. /\ job[c] = NoJob /\ i <= last /\ stream[i].state = "new"
      /\ \A j \in 1..(i - 1) : stream[j].state # "new" /\ Goto(c, Start(i, last))
  BY DEF Deliver
<1>2. Entries = 1..Len(stream) /\ Len(stream) \in Nat
  BY LenProperties DEF TypeInv, Entries
<1>3. BarHold[c] = Group!Nothing
  BY <1>1, HoldsNothing
<1>4. BarEntries[i] = "new" /\ \A j \in 1..(i - 1) : BarEntries[j] # "new"
  BY <1>1, <1>2 DEF BarEntries
<1>5. /\ Entries' = Entries
      /\ \A k \in Entries : stream'[k].state = IF k \in i..last THEN "pending"
                                               ELSE stream[k].state
  BY Delivering DEF Deliver
<1>6. BarEntries' = [j \in DOMAIN BarEntries |->
        IF j \in i..last THEN "pending" ELSE BarEntries[j]]
  BY <1>5 DEF BarEntries
<1>7. job' = [job EXCEPT ![c] = Start(i, last)] /\ job \in [Consumers -> JobType]
  BY DEF Deliver, Goto, TypeInv
<1>8. HoldOf(Start(i, last)) = Group!Holding(i, last, FALSE)
  BY DEF HoldOf, Start, At, Group!Holding
<1>9. BarHold' = [BarHold EXCEPT ![c] = Group!Holding(i, last, FALSE)]
  BY <1>7, <1>8 DEF BarHold
<1>10. Group!Hand(c, i, last)
  BY <1>1, <1>3, <1>4, <1>6, <1>9, HandIsGroup
<1>11. i \in DOMAIN BarEntries /\ last \in DOMAIN BarEntries
  BY DEF BarEntries
<1>. QED
  BY <1>10, <1>11, ConsumerIsGroup

\* A reclaimed entry is handed out again.
LEMMA ReclaimHands ==
    ASSUME TypeInv, NEW c \in Consumers, NEW i \in Entries, Reclaim(c, i)
    PROVE  Group!GroupNext
<1>1. /\ job[c] = NoJob /\ stream[i].state = "pending" /\ stream' = stream
      /\ job' = [job EXCEPT ![c] = Start(i, i)] /\ job \in [Consumers -> JobType]
  BY DEF Reclaim, Goto, TypeInv
<1>2. BarHold[c] = Group!Nothing /\ BarEntries[i] = "pending" /\ i \in DOMAIN BarEntries
  BY <1>1, HoldsNothing DEF BarEntries
<1>3. BarEntries' = BarEntries
  BY <1>1 DEF BarEntries, Entries
<1>4. HoldOf(Start(i, i)) = Group!Holding(i, i, FALSE)
  BY DEF HoldOf, Start, At, Group!Holding
<1>5. BarHold' = [BarHold EXCEPT ![c] = Group!Holding(i, i, FALSE)]
  BY <1>1, <1>4 DEF BarHold
<1>6. Group!HandAgain(c, i)
  BY <1>2, <1>3, <1>5, AgainIsGroup
<1>. QED
  BY <1>2, <1>6, ConsumerIsGroup

\* A crash drops what the consumer held.
LEMMA CrashDrops ==
    ASSUME TypeInv, NEW c \in Consumers, Crash(c) PROVE Group!GroupNext
<1>1. /\ job[c] # NoJob /\ stream' = stream
      /\ job' = [job EXCEPT ![c] = NoJob] /\ job \in [Consumers -> JobType]
  BY DEF Crash, Goto, TypeInv
<1>2. BarHold[c] # Group!Nothing
  BY <1>1, HoldsNothing
<1>3. BarEntries' = BarEntries
  BY <1>1 DEF BarEntries, Entries
<1>4. HoldOf(NoJob) = Group!Nothing
  BY DEF HoldOf, NoJob, At, Group!Nothing, Group!Holding
<1>5. BarHold' = [BarHold EXCEPT ![c] = Group!Nothing]
  BY <1>1, <1>4 DEF BarHold
<1>6. Group!Drop(c)
  BY <1>2, <1>3, <1>5, DropIsGroup
<1>. QED
  BY <1>6, ConsumerIsGroup

\* A consumer that comes to its acknowledgement finishes its entry.
LEMMA AckIsReached ==
    ASSUME TypeInv, TypeInv', NEW c \in Consumers, \A d \in Consumers \ {c} : job'[d] = job[d],
           job[c] # NoJob, job[c].pc # "ack", job'[c].pc = "ack", job'[c].at = job[c].at,
           job'[c].last = job[c].last, BarEntries' = BarEntries
    PROVE  Group!GroupNext
<1>1. BarHold[c] # Group!Nothing
  BY HoldsNothing
<1>2. BarHold[c] = HoldOf(job[c])
  BY DEF BarHold
<1>3. ~BarHold[c].done /\ BarHold[c].at = job[c].at /\ BarHold[c].last = job[c].last
  BY <1>2, HoldFields
<1>4. HoldOf(job'[c]) = Group!Holding(BarHold[c].at, BarHold[c].last, TRUE)
  <2>1. (job'[c].pc = "ack") = TRUE
    OBVIOUS
  <2>. QED
    BY <1>3, <2>1 DEF HoldOf, Group!Holding
<1>5. BarHold' = [BarHold EXCEPT ![c] = Group!Holding(BarHold[c].at, BarHold[c].last, TRUE)]
  BY <1>4, HoldSet
<1>6. Group!Finish(c)
  BY <1>1, <1>3, <1>5, FinishIsGroup
<1>. QED
  BY <1>6, ConsumerIsGroup

\* An acknowledgement settles the entry.
LEMMA AckSettles ==
    ASSUME TypeInv, NEW c \in Consumers, Ack(c) PROVE Group!GroupNext
<1>1. /\ TypeInv' /\ Entries' = Entries /\ \A d \in Consumers \ {c} : job'[d] = job[d]
      /\ job[c] # NoJob /\ job[c].pc = "ack" /\ stream'[job[c].at].state = "acked"
      /\ \A k \in Entries \ {job[c].at} : stream'[k] = stream[k]
  BY AckTypes
<1>2. BarHold[c] # Group!Nothing
  BY <1>1, HoldsNothing
<1>3. BarHold[c] = HoldOf(job[c])
  BY DEF BarHold
<1>4. BarHold[c].done /\ BarHold[c].at = job[c].at /\ BarHold[c].last = job[c].last
  BY <1>1, <1>3, HoldFields
<1>5. job'[c] = IF job[c].at < job[c].last THEN Start(job[c].at + 1, job[c].last) ELSE NoJob
  BY DEF Ack, Goto, TypeInv
<1>6. HoldOf(job'[c]) = Group!AfterSettling(BarHold[c])
  <2>. DEFINE i == job[c].at
              last == job[c].last
              h == BarHold[c]
  <2>1. CASE i < last
    <3>1. HoldOf(Start(i + 1, last)) = Group!Holding(i + 1, last, FALSE)
      BY DEF HoldOf, Start, At, Group!Holding
    <3>2. Group!AfterSettling(h) = Group!Holding(i + 1, last, FALSE)
      BY <1>4, <2>1 DEF Group!AfterSettling
    <3>. QED
      BY <1>5, <2>1, <3>1, <3>2
  <2>2. CASE ~(i < last)
    <3>1. HoldOf(NoJob) = Group!Nothing
      BY DEF HoldOf, NoJob, At, Group!Holding, Group!Nothing
    <3>2. Group!AfterSettling(h) = Group!Nothing
      BY <1>4, <2>2 DEF Group!AfterSettling
    <3>. QED
      BY <1>5, <2>2, <3>1, <3>2
  <2>. QED
    BY <2>1, <2>2
<1>7. BarHold' = [BarHold EXCEPT ![c] = Group!AfterSettling(BarHold[c])]
  BY <1>1, <1>6, HoldSet
<1>8. BarEntries' = [BarEntries EXCEPT ![BarHold[c].at] = "acked"]
  <2>1. job[c].at \in Entries
    BY <1>1, AtEntry
  <2>. QED
    BY <1>1, <1>4, <2>1 DEF BarEntries
<1>9. Group!Settle(c)
  BY <1>2, <1>4, <1>7, <1>8, SettleIsGroup
<1>. QED
  BY <1>9, ConsumerIsGroup

\* The steps of a handling in between are not the group's business.
LEMMA HandlingIsHidden ==
    ASSUME TypeInv, TypeInv', NEW c \in Consumers, \A d \in Consumers \ {c} : job'[d] = job[d],
           job'[c].at = job[c].at, job'[c].last = job[c].last,
           job'[c].pc = "ack" <=> job[c].pc = "ack", stream' = stream
    PROVE  UNCHANGED Group!groupVars
<1>1. BarHold' = BarHold
  BY HoldSame
<1>2. BarEntries' = BarEntries
  BY DEF BarEntries, Entries
<1>. QED
  BY <1>1, <1>2, StutterIsGroup

\* The event engine implements the consumer group: every step is one of the group's
\* steps or none.
THEOREM EngineImplementsGroup == Spec => Group!GroupSafety
<1>1. Init => Group!GroupInit
  <2>1. HoldOf(NoJob) = Group!Nothing
    BY DEF HoldOf, NoJob, At, Group!Nothing, Group!Holding
  <2>2. ASSUME Init PROVE BarEntries = <<>> /\ BarHold = [c \in Consumers |-> Group!Nothing]
    BY <2>1, <2>2 DEF Init, BarEntries, BarHold, Entries
  <2>. QED
    BY <2>2 DEF BarEntries, BarHold, HoldOf, Group!GroupInit
<1>2. TypeInv /\ TypeInv' /\ [Next]_vars => [Group!GroupNext]_Group!groupVars
  <2>. SUFFICES ASSUME TypeInv, TypeInv', [Next]_vars
                PROVE  Group!GroupNext \/ UNCHANGED Group!groupVars
    OBVIOUS
  <2>1. ASSUME NEW c \in Consumers, ConsumerStep(c)
        PROVE  Group!GroupNext \/ UNCHANGED Group!groupVars
    <3>1. CASE \E i, last \in Entries : Deliver(c, i, last)
      BY <3>1, DeliverHands
    <3>2. CASE \E i \in Entries : Reclaim(c, i)
      BY <3>2, ReclaimHands
    <3>3. CASE Resolve(c)
      BY <3>3, ResolveTypes, HandlingIsHidden DEF Resolve
    <3>4. CASE \E u \in Users : Claim(c, u)
      BY <3>4, ClaimTypes, HandlingIsHidden DEF Claim
    <3>5. CASE Insert(c)
      BY <3>5, InsertTypes, HandlingIsHidden DEF Insert
    <3>6. CASE Dispatch(c)
      BY <3>6, DispatchTypes, HandlingIsHidden DEF Dispatch
    <3>7. CASE PublishTrigger(c)
      <4>1. BarEntries' = BarEntries
        BY <3>7 DEF PublishTrigger, BarEntries, Entries
      <4>. QED
        BY <3>7, <4>1, PublishTriggerTypes, AckIsReached
    <3>8. CASE Ack(c)
      BY <3>8, AckSettles
    <3>. QED
      BY <2>1, <3>1, <3>2, <3>3, <3>4, <3>5, <3>6, <3>7, <3>8 DEF ConsumerStep
  <2>2. ASSUME NEW c \in Consumers, ResolveFails(c) \/ HandlerThrows(c)
        PROVE  Group!GroupNext \/ UNCHANGED Group!groupVars
    <3>1. /\ \A d \in Consumers \ {c} : job'[d] = job[d]
          /\ job[c] # NoJob /\ job'[c].at = job[c].at /\ job'[c].last = job[c].last
          /\ Entries' = Entries /\ stream'[job[c].at].state = stream[job[c].at].state
          /\ \A k \in Entries \ {job[c].at} : stream'[k] = stream[k]
      BY <2>2, ThrowTypes
    <3>2. BarEntries' = BarEntries
      BY <3>1, EntriesSame
    <3>3. CASE HandlerThrows(c)
      <4>1. job[c].pc # "ack" /\ job'[c].pc = "ack"
        BY <3>3 DEF HandlerThrows, Goto, To, At, TypeInv
      <4>. QED
        BY <3>1, <3>2, <4>1, AckIsReached
    <3>4. CASE ResolveFails(c)
      <4>1. job[c].pc # "ack" /\ job'[c].pc # "ack"
        BY <3>4 DEF ResolveFails, Goto, To, At, TypeInv
      <4>2. BarHold' = BarHold
        BY <3>1, <4>1, HoldSame
      <4>. QED
        BY <3>2, <4>2, StutterIsGroup
    <3>. QED
      BY <2>2, <3>3, <3>4
  <2>3. CASE UNCHANGED <<stream, job>>
    BY <2>3, StutterIsGroup DEF BarEntries, BarHold, Entries
  <2>. QED
    BY <2>1, <2>2, <2>3, PublishAdds, CrashDrops DEF Next, WindowEnds, vars
<1>. QED
  BY <1>1, <1>2, TypesInitially, TypesStay, PTL DEF Spec, Group!GroupSafety
=============================================================================

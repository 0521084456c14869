-------------------------- MODULE Suppression_proofs --------------------------
(***************************************************************************)
(* The types of Suppression, and that every stale "clear" in the cache has *)
(* its explanation, for every set of senders, admins and channels and any  *)
(* number of entries and failures.                                         *)
(***************************************************************************)
EXTENDS Suppression, TLAPS

USE SuppressionAssumption

Keys == Channels \union {"all"}
SenderType == [pc : {"idle", "lookup", "lookup again", "query", "store", "send"},
               ch : Channels \union {"none"}, found : BOOLEAN, firm : BOOLEAN, late : BOOLEAN]

StoresTyped ==
    /\ listed \subseteq AddChannels
    /\ cache \in [Keys -> {"none", "suppressed", "clear"}]
    /\ edit \in [Admins -> AddChannels \union {NoEdit}]
    /\ global \in BOOLEAN /\ spoiled \subseteq Keys
    /\ edits \in 0..MaxEdits /\ faults \in 0..MaxFaults

SendersTyped ==
    /\ sender \in [Senders -> SenderType]
    /\ \A s \in Senders : sender[s].pc # "idle" => sender[s].ch \in Channels

\* A request about to store a "clear" for a channel the address is listed for was
\* overtaken by the edit that listed it.
Excused(t, list) == t.pc = "store" /\ ~t.found /\ t.ch \in list => t.late

SuppressionInv ==
    /\ StoresTyped /\ SendersTyped /\ StaleIsExplained
    /\ \A s \in Senders : Excused(sender[s], listed)

\* A sender's own step: only what it holds afterwards matters.
LEMMA OneSender ==
    ASSUME SuppressionInv, NEW s \in Senders, NEW t \in SenderType, Goto(s, t),
           t.pc # "idle" => t.ch \in Channels, Excused(t, listed), listed' = listed,
           StoresTyped', StaleIsExplained'
    PROVE  SuppressionInv'
<1>1. sender' = [sender EXCEPT ![s] = t] /\ sender \in [Senders -> SenderType]
  BY DEF Goto, SuppressionInv, SendersTyped
<1>2. SendersTyped'
  BY <1>1 DEF SuppressionInv, SendersTyped
<1>3. \A r \in Senders : Excused(sender'[r], listed')
  BY <1>1 DEF SuppressionInv
<1>. QED
  BY <1>2, <1>3 DEF SuppressionInv

\* The sender at rest.
LEMMA AskingIsExcused == Asking \in SenderType /\ Excused(Asking, listed) /\ Asking.pc = "idle"
BY DEF Asking, SenderType, Excused

\* A sender that goes to another step than the store keeps the rest of what it holds.
LEMMA Moved ==
    ASSUME NEW t \in SenderType, NEW pc \in {"lookup again", "query", "send"}, NEW list
    PROVE  /\ [t EXCEPT !.pc = pc] \in SenderType
           /\ Excused([t EXCEPT !.pc = pc], list)
           /\ [t EXCEPT !.pc = pc].ch = t.ch
BY DEF SenderType, Excused

\* The query finds what the list says now.
LEMMA Queried ==
    ASSUME NEW t \in SenderType
    PROVE  /\ [t EXCEPT !.pc = "store", !.found = Suppressed(t.ch)] \in SenderType
           /\ Excused([t EXCEPT !.pc = "store", !.found = Suppressed(t.ch)], listed)
           /\ [t EXCEPT !.pc = "store", !.found = Suppressed(t.ch)].ch = t.ch
<1>. DEFINE f == Suppressed(t.ch)
            q == [t EXCEPT !.pc = "store", !.found = f]
<1>1. f \in BOOLEAN /\ (t.ch \in listed => f)
  BY DEF Suppressed
<1>. HIDE DEF f
<1>2. q \in SenderType /\ q.ch = t.ch /\ (q.found <=> f)
  BY <1>1 DEF SenderType
<1>. HIDE DEF q
<1>3. Excused(q, listed)
  BY <1>1, <1>2 DEF Excused
<1>. QED
  BY <1>2, <1>3 DEF q, f

\* The steps that leave list, cache, marks and edits alone explain what was.
LEMMA StaleKept ==
    ASSUME StaleIsExplained, UNCHANGED <<listed, cache, spoiled, edit>>
    PROVE  StaleIsExplained'
BY DEF StaleIsExplained

\* A check begins.
LEMMA AskStep ==
    ASSUME SuppressionInv, NEW s \in Senders, NEW ch \in Channels, Ask(s, ch)
    PROVE  SuppressionInv'
<1>. DEFINE firm == Firm(ch)
            t == [Asking EXCEPT !.pc = "lookup", !.ch = ch, !.firm = firm]
<1>1. firm \in BOOLEAN
  BY DEF Firm
<1>2. Goto(s, t) /\ listed' = listed /\ StoresTyped' /\ StaleIsExplained'
  BY StaleKept DEF Ask, SuppressionInv, StoresTyped
<1>. HIDE DEF firm
<1>3. t \in SenderType /\ t.ch \in Channels /\ Excused(t, listed)
  BY <1>1 DEF Asking, SenderType, Excused
<1>. HIDE DEF t
<1>. QED
  BY <1>2, <1>3, OneSender

\* The answer is stored: a "clear" that the list contradicts is marked.
LEMMA StoreExplained ==
    ASSUME SuppressionInv, NEW s \in Senders, Store(s)
    PROVE  StoresTyped' /\ StaleIsExplained' /\ listed' = listed
<1>. DEFINE t == sender[s]
            v == IF t.found THEN "suppressed" ELSE "clear"
<1>1. t \in SenderType /\ t.ch \in Channels /\ t.pc = "store" /\ Excused(t, listed)
  BY DEF Store, At, SuppressionInv, SendersTyped
<1>2. /\ cache' = [cache EXCEPT ![t.ch] = v] /\ v \in {"suppressed", "clear"}
      /\ spoiled' = IF t.late THEN spoiled \union {t.ch} ELSE spoiled \ {t.ch}
      /\ UNCHANGED <<listed, edit, global, edits, faults>>
  BY DEF Store
<1>3. v = "clear" => ~t.found
  OBVIOUS
<1>. HIDE DEF t, v
<1>4. cache \in [Keys -> {"none", "suppressed", "clear"}] /\ t.ch \in Keys
  BY <1>1 DEF SuppressionInv, StoresTyped, Keys
<1>5. StoresTyped'
  BY <1>1, <1>2, <1>4 DEF SuppressionInv, StoresTyped
<1>6. ASSUME NEW ch \in Channels, cache'[ch] = "clear", ch \in listed'
      PROVE  ch \in spoiled' \/ \E a \in Admins : edit'[a] = ch
  <2>1. CASE ch = t.ch
    BY <1>1, <1>2, <1>3, <1>4, <1>6, <2>1 DEF Excused
  <2>2. CASE ch # t.ch
    BY <1>2, <1>4, <1>6, <2>2 DEF SuppressionInv, StaleIsExplained, Keys
  <2>. QED
    BY <2>1, <2>2
<1>. QED
  BY <1>2, <1>5, <1>6 DEF StaleIsExplained

\* Every other step of a sender.
LEMMA SenderSteps ==
    ASSUME SuppressionInv, NEW s \in Senders, SenderStep(s) \/ RedisFails(s) \/ QueryFails(s)
    PROVE  SuppressionInv'
<1>. DEFINE t == sender[s]
            q == [t EXCEPT !.pc = "store", !.found = Suppressed(t.ch)]
            To(pc) == [t EXCEPT !.pc = pc]
<1>1. t \in SenderType
  BY DEF SuppressionInv, SendersTyped
<1>2. t.pc # "idle" /\ t.ch \in Channels
  BY DEF SenderStep, Lookup, LookupAgain, Query, Store, Send, RedisFails, QueryFails, At,
         SuppressionInv, SendersTyped
<1>3. StoresTyped' /\ StaleIsExplained' /\ listed' = listed
  <2>1. CASE Store(s)
    BY <2>1, StoreExplained
  <2>2. CASE ~Store(s)
    <3>1. UNCHANGED <<listed, cache, spoiled, edit, global, edits>> /\ faults' \in 0..MaxFaults
      <4>1. /\ UNCHANGED <<listed, cache, spoiled, edit, global, edits>>
            /\ Fault \/ UNCHANGED faults
        BY <2>2 DEF SenderStep, Lookup, LookupAgain, Query, Send, RedisFails, QueryFails
      <4>2. faults' \in 0..MaxFaults
        BY <4>1 DEF Fault, SuppressionInv, StoresTyped
      <4>. QED
        BY <4>1, <4>2
    <3>. QED
      BY <3>1, StaleKept DEF SuppressionInv, StoresTyped
  <2>. QED
    BY <2>1, <2>2
<1>4. \/ Goto(s, Asking) \/ Goto(s, q)
      \/ \E pc \in {"lookup again", "query", "send"} : Goto(s, To(pc))
  BY DEF SenderStep, Lookup, LookupAgain, Query, Store, Send, RedisFails, QueryFails
<1>. HIDE DEF t
<1>5. CASE Goto(s, Asking)
  BY <1>3, <1>5, AskingIsExcused, OneSender
<1>6. CASE Goto(s, q)
  <2>1. q \in SenderType /\ Excused(q, listed) /\ q.ch = t.ch
    BY <1>1, Queried
  <2>. HIDE DEF q
  <2>. QED
    BY <1>2, <1>3, <1>6, <2>1, OneSender
<1>7. CASE \E pc \in {"lookup again", "query", "send"} : Goto(s, To(pc))
  <2>1. PICK pc \in {"lookup again", "query", "send"} : Goto(s, To(pc))
    BY <1>7
  <2>2. To(pc) \in SenderType /\ Excused(To(pc), listed) /\ To(pc).ch = t.ch
    BY <1>1, Moved
  <2>. HIDE DEF To
  <2>. QED
    BY <1>2, <1>3, <2>1, <2>2, OneSender
<1>. QED
  BY <1>4, <1>5, <1>6, <1>7

\* An edit of the list: a "clear" it makes stale awaits its DEL, and a request that
\* read the list before it is late.
LEMMA EditStep ==
    ASSUME SuppressionInv, NEW a \in Admins, NEW ch \in AddChannels,
           NEW rows \in SUBSET AddChannels, rows \subseteq listed \union {ch}, Edit(a, ch, rows)
    PROVE  SuppressionInv'
<1>. DEFINE Kept(t) == Overtaken(t, ch, rows)
<1>1. /\ edit[a] = NoEdit /\ listed' = rows /\ edit' = [edit EXCEPT ![a] = ch]
      /\ sender' = [s \in Senders |-> Kept(sender[s])]
      /\ edits' \in 0..MaxEdits /\ UNCHANGED <<cache, global, spoiled, faults>>
  BY DEF Edit, SuppressionInv, StoresTyped
<1>2. StoresTyped'
  BY <1>1 DEF SuppressionInv, StoresTyped
<1>3. ASSUME NEW t \in SenderType, Excused(t, listed)
      PROVE  Kept(t) \in SenderType /\ Kept(t).pc = t.pc /\ Kept(t).ch = t.ch
             /\ Excused(Kept(t), rows)
  <2>. DEFINE f == t.firm /\ {t.ch, "all"} \intersect rows # {}
              l == t.late \/ (t.pc = "store" /\ ch \in {t.ch, "all"})
              k == [t EXCEPT !.firm = f, !.late = l]
  <2>1. Kept(t) = k
    BY <1>3 DEF Overtaken, SenderType
  <2>2. f \in BOOLEAN /\ l \in BOOLEAN
    BY <1>3 DEF SenderType
  <2>3. (t.late => l) /\ (t.pc = "store" /\ ch = t.ch => l)
    OBVIOUS
  <2>. HIDE DEF f, l
  <2>4. /\ k \in SenderType /\ k.pc = t.pc /\ k.ch = t.ch /\ (k.found <=> t.found)
        /\ (k.late <=> l)
    BY <1>3, <2>2 DEF SenderType
  <2>. HIDE DEF k
  <2>5. Excused(k, rows)
    BY <1>3, <2>3, <2>4 DEF Excused
  <2>. QED
    BY <2>1, <2>4, <2>5
<1>. HIDE DEF Kept
<1>4. SendersTyped'
  BY <1>1, <1>3 DEF SuppressionInv, SendersTyped
<1>5. \A s \in Senders : Excused(sender'[s], listed')
  BY <1>1, <1>3 DEF SuppressionInv, SendersTyped
<1>6. ASSUME NEW c \in Channels, cache'[c] = "clear", c \in listed'
      PROVE  c \in spoiled' \/ \E b \in Admins : edit'[b] = c
  <2>1. edit'[a] = ch /\ \A b \in Admins \ {a} : edit'[b] = edit[b]
    BY <1>1 DEF SuppressionInv, StoresTyped
  <2>2. CASE c = ch
    BY <2>1, <2>2
  <2>3. CASE c # ch
    <3>1. c \in spoiled \/ \E b \in Admins : edit[b] = c
      BY <1>1, <1>6, <2>3 DEF SuppressionInv, StaleIsExplained
    <3>2. c # NoEdit
      BY DEF NoEdit
    <3>. QED
      BY <1>1, <2>1, <3>1, <3>2
  <2>. QED
    BY <2>2, <2>3
<1>. QED
  BY <1>2, <1>4, <1>5, <1>6 DEF SuppressionInv, StaleIsExplained

\* The DEL, done or failed.
LEMMA InvalidateStep ==
    ASSUME SuppressionInv, NEW a \in Admins, Invalidate(a) \/ InvalidateFails(a)
    PROVE  SuppressionInv'
<1>. DEFINE k == edit[a]
<1>1. /\ k \in AddChannels /\ k \in Keys /\ k # NoEdit
      /\ edit' = [edit EXCEPT ![a] = NoEdit]
      /\ UNCHANGED <<listed, sender, global, edits>> /\ faults' \in 0..MaxFaults
  BY DEF Invalidate, InvalidateFails, Fault, SuppressionInv, StoresTyped, Keys
<1>2. \/ cache' = [cache EXCEPT ![k] = "none"] /\ spoiled' = spoiled \ {k}
      \/ cache' = cache /\ spoiled' = spoiled \union {k}
  BY DEF Invalidate, InvalidateFails
<1>. HIDE DEF k
<1>3. StoresTyped'
  BY <1>1, <1>2 DEF SuppressionInv, StoresTyped
<1>4. ASSUME NEW c \in Channels, cache'[c] = "clear", c \in listed'
      PROVE  c \in spoiled' \/ \E b \in Admins : edit'[b] = c
  <2>1. \A b \in Admins \ {a} : edit'[b] = edit[b]
    BY <1>1 DEF SuppressionInv, StoresTyped
  <2>2. CASE c = k
    BY <1>2, <1>4, <2>2 DEF SuppressionInv, StoresTyped, Keys
  <2>3. CASE c # k
    <3>1. cache[c] = "clear"
      BY <1>2, <1>4, <2>3 DEF SuppressionInv, StoresTyped, Keys
    <3>2. c \in spoiled \/ \E b \in Admins : edit[b] = c
      BY <1>1, <1>4, <3>1 DEF SuppressionInv, StaleIsExplained
    <3>. QED
      BY <1>2, <2>1, <2>3, <3>2 DEF k
  <2>. QED
    BY <2>2, <2>3
<1>. QED
  BY <1>1, <1>3, <1>4 DEF SuppressionInv, SendersTyped, StaleIsExplained

\* The cache forgets; the webhook writes its own list.
LEMMA OtherSteps ==
    ASSUME SuppressionInv,
           (\E ch \in Keys : CacheExpires(ch)) \/ Bounce \/ UNCHANGED vars
    PROVE  SuppressionInv'
<1>1. UNCHANGED <<listed, sender, edit>>
  BY DEF CacheExpires, Bounce, vars
<1>2. StoresTyped'
  BY DEF CacheExpires, Bounce, vars, SuppressionInv, StoresTyped
<1>3. StaleIsExplained'
  <2>1. CASE \E ch \in Keys : CacheExpires(ch)
    <3>1. PICK ch \in Keys : CacheExpires(ch)
      BY <2>1
    <3>2. cache' = [cache EXCEPT ![ch] = "none"] /\ spoiled' = spoiled \ {ch}
      BY <3>1 DEF CacheExpires
    <3>. QED
      BY <1>1, <3>2 DEF SuppressionInv, StoresTyped, StaleIsExplained, Keys
  <2>2. CASE Bounce \/ UNCHANGED vars
    BY <2>2, StaleKept DEF Bounce, vars, SuppressionInv
  <2>. QED
    BY <2>1, <2>2
<1>. QED
  BY <1>1, <1>2, <1>3 DEF SuppressionInv, SendersTyped

\* The invariant holds at the start and every step keeps it.
THEOREM SuppressionInvariant == Spec => []SuppressionInv
<1>1. Init => SuppressionInv
  <2>. SUFFICES ASSUME Init PROVE SuppressionInv
    OBVIOUS
  <2>1. StoresTyped
    <3>1. listed \subseteq AddChannels /\ cache \in [Keys -> {"none", "suppressed", "clear"}]
      BY DEF Init, Keys
    <3>2. /\ edit \in [Admins -> AddChannels \union {NoEdit}]
          /\ edits \in 0..MaxEdits /\ faults \in 0..MaxFaults /\ spoiled \subseteq Keys
      BY DEF Init
    <3>3. global \in BOOLEAN
      BY Zenon DEF Init
    <3>. QED
      BY <3>1, <3>2, <3>3 DEF StoresTyped
  <2>2. \A s \in Senders : sender[s] = Asking
    BY DEF Init
  <2>3. SendersTyped
    BY <2>2, AskingIsExcused DEF Init, SendersTyped
  <2>. QED
    BY <2>1, <2>2, <2>3, AskingIsExcused DEF Init, SuppressionInv, StaleIsExplained
<1>2. SuppressionInv /\ [Next]_vars => SuppressionInv'
  <2>. SUFFICES ASSUME SuppressionInv, [Next]_vars PROVE SuppressionInv'
    OBVIOUS
  <2>1. ASSUME NEW a \in Admins, NEW ch \in AddChannels, Add(a, ch) \/ Remove(a, ch)
        PROVE  SuppressionInv'
    <3>1. listed \subseteq AddChannels
      BY DEF SuppressionInv, StoresTyped
    <3>2. \E rows \in SUBSET AddChannels : rows \subseteq listed \union {ch} /\ Edit(a, ch, rows)
      <4>1. CASE Add(a, ch)
        BY <3>1, <4>1 DEF Add
      <4>2. CASE Remove(a, ch)
        BY <3>1, <4>2 DEF Remove
      <4>. QED
        BY <2>1, <4>1, <4>2
    <3>. QED
      BY <3>2, EditStep
  <2>. QED
    BY <2>1, AskStep, SenderSteps, InvalidateStep, OtherSteps DEF Next, Keys
<1>. QED
  BY <1>1, <1>2, PTL DEF Spec

\* The list, the cache and the requests keep their types.
THEOREM SuppressionTypes == Spec => []SuppressionTypeOK
<1>1. SuppressionInv => SuppressionTypeOK
  BY DEF SuppressionInv, StoresTyped, SendersTyped, SenderType, Keys, SuppressionTypeOK
<1>. QED
  BY <1>1, SuppressionInvariant, PTL

\* Whoever adds, removes, asks and stores at the same time: a "clear" kept for a
\* channel the address is listed for awaits a DEL, escaped one that failed, or was
\* stored by a request that the edit had overtaken.
THEOREM StaleClearsAreExplained == Spec => []StaleIsExplained
<1>1. SuppressionInv => StaleIsExplained
  BY DEF SuppressionInv
<1>. QED
  BY <1>1, SuppressionInvariant, PTL
=============================================================================

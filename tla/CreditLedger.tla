---------------------------- MODULE CreditLedger ----------------------------
(***************************************************************************)
(* backend/src/lib/creditLedger.ts with its callers in payments.ts and     *)
(* routes/: concurrent requests of one organisation, each a sequence of    *)
(* round trips to Postgres and Redis that other requests interleave with.  *)
(* A Postgres statement or transaction is one step; SELECT ... FOR UPDATE  *)
(* makes the whole of debitCredits' transaction one step.  A request runs  *)
(* one operation and is not reused, so Requests bounds the behaviours.     *)
(***************************************************************************)
EXTENDS CreditAccount, FiniteSets, Functions

CONSTANTS
    Requests,   \* API calls and webhook deliveries
    Refs,       \* Stripe checkout session ids (paymentRef)
    PackSize,   \* credits of the purchased pack
    MayCrash    \* whether processes and statements may fail

ASSUME RequestAssumption == PackSize \in Grants /\ MayCrash \in BOOLEAN

VARIABLES
    pc,       \* next round trip of each request
    op,       \* its operation
    row,      \* credits of the ledger row it still has to write
    seen,     \* the account row it read last
    cache,    \* the Redis entry credits:<org>: {} or {[acct, fresh]}
    ledger,   \* credit_ledger: its sum, the grant refs, the seed rows
    offBook,  \* history: balance changes that have no ledger row by design
    granted   \* history: how often each payment was added to the pack

requestVars == <<pc, op, row, seen>>
vars == <<accountVars, requestVars, cache, ledger, offBook, granted>>

Ops ==
    [kind : {"debit", "check"}, n : Costs]
    \union [kind : {"grant"}, n : Grants]
    \union [kind : {"plan"}, plan : Plans]
    \union [kind : {"spendCap"}, on : BOOLEAN, ceiling : Ceilings \union {NoCeiling}]
    \union [kind : {"fulfil"}, ref : Refs]
    \union [kind : {"none"}]

PCs == {"idle", "dedupe", "cacheGet", "account", "insert", "seedRow", "act",
        "select", "fill", "row", "cacheDel", "done", "crashed"}

Go(r, to) == pc' = [pc EXCEPT ![r] = to]

Lesser(a, b) == IF a < b THEN a ELSE b

Init ==
    /\ AInit
    /\ pc = [r \in Requests |-> "idle"]
    /\ op = [r \in Requests |-> [kind |-> "none"]]
    /\ row = [r \in Requests |-> 0]
    /\ seen = [r \in Requests |-> acct]
    /\ cache = {}
    /\ ledger = [total |-> 0, refs |-> {}, seeds |-> 0]
    /\ offBook = 0
    /\ granted = [f \in Refs |-> 0]
-----------------------------------------------------------------------------
(* A request arrives; fulfilment looks for the payment's grant row first.  *)

Arrive(r) ==
    /\ pc[r] = "idle"
    /\ \E o \in Ops :
        /\ o.kind # "none"
        /\ op' = [op EXCEPT ![r] = o]
        /\ Go(r, IF o.kind = "fulfil" THEN "dedupe"
                 ELSE IF o.kind = "check" THEN "cacheGet" ELSE "account")
    /\ UNCHANGED <<accountVars, row, seen, cache, ledger, offBook, granted>>

\* Mutant: the duplicate check finds nothing.
GrantUnchecked(r) ==
    /\ pc[r] = "dedupe"
    /\ Go(r, "account")
    /\ UNCHANGED <<accountVars, op, row, seen, cache, ledger, offBook, granted>>

\* fulfillPurchase: a payment whose grant row exists is a duplicate.
GrantExists(r) ==
    /\ pc[r] = "dedupe"
    /\ Go(r, IF op[r].ref \in ledger.refs THEN "done" ELSE "account")
    /\ UNCHANGED <<accountVars, op, row, seen, cache, ledger, offBook, granted>>

\* getBalance answers from Redis when it can.
CacheGet(r) ==
    /\ pc[r] = "cacheGet"
    /\ \/ cache # {} /\ Go(r, "done")
       \/ (cache = {} \/ MayCrash) /\ Go(r, "account")
    /\ UNCHANGED <<accountVars, op, row, seen, cache, ledger, offBook, granted>>

\* getOrCreateAccount: the SELECT, then INSERT ... ON CONFLICT DO NOTHING,
\* then, in the request whose INSERT won, the row of the lifetime grant.
SelectAccount(r) ==
    /\ pc[r] = "account"
    /\ Go(r, IF open THEN "act" ELSE "insert")
    /\ UNCHANGED <<accountVars, op, row, seen, cache, ledger, offBook, granted>>

\* Mutant: the request whose INSERT lost writes the seed row as well.
InsertAlwaysSeeds(r) ==
    /\ pc[r] = "insert"
    /\ IF open
       THEN UNCHANGED <<accountVars, offBook>>
       ELSE Open /\ offBook' = offBook + acct'.allowance
    /\ row' = [row EXCEPT ![r] = acct'.pack]
    /\ Go(r, "seedRow")
    /\ UNCHANGED <<op, seen, cache, ledger, granted>>

InsertAccount(r) ==
    /\ pc[r] = "insert"
    /\ IF open
       THEN Go(r, "act") /\ UNCHANGED <<accountVars, row, offBook>>
       ELSE /\ Open
            /\ offBook' = offBook + acct'.allowance
            /\ row' = [row EXCEPT ![r] = acct'.pack]
            /\ Go(r, IF acct'.pack > 0 THEN "seedRow" ELSE "act")
    /\ UNCHANGED <<op, seen, cache, ledger, granted>>

SeedRow(r) ==
    /\ pc[r] = "seedRow"
    /\ ledger' = [ledger EXCEPT !.total = @ + row[r], !.seeds = @ + 1]
    /\ row' = [row EXCEPT ![r] = 0]
    /\ Go(r, "act")
    /\ UNCHANGED <<accountVars, op, seen, cache, offBook, granted>>
-----------------------------------------------------------------------------
(* debitCredits: read under FOR UPDATE, renew an elapsed period, split the *)
(* cost, update the account and write its ledger rows, in one transaction. *)

FromAllowance(c) == Lesser(Current.allowance, c)
FromPack(c) == Lesser(Current.pack, c - FromAllowance(c))
FromOverage(c) == c - FromAllowance(c) - FromPack(c)

\* Mutant: the ceiling is not looked at.
AffordableIfEnabled(c) == FromOverage(c) > 0 => Current.enabled
Affordable(c) == FromOverage(c) > 0 => OverageAllows(Current, FromOverage(c))

\* Mutant: no ledger row.
DebitUnbooked(r) ==
    /\ pc[r] = "act" /\ op[r].kind = "debit" /\ Affordable(op[r].n)
    /\ acct' = [Current EXCEPT !.allowance = @ - FromAllowance(op[r].n),
                               !.pack = @ - FromPack(op[r].n),
                               !.used = @ + FromOverage(op[r].n)]
    /\ elapsed' = FALSE
    /\ Go(r, "cacheDel")
    /\ UNCHANGED <<open, profile, op, row, seen, cache, ledger, offBook, granted>>

Debit(r) ==
    /\ pc[r] = "act" /\ op[r].kind = "debit"
    /\ LET c == op[r].n
       IN IF ~Affordable(c)
          THEN Go(r, "done") /\ UNCHANGED <<accountVars, ledger, offBook>>
          ELSE /\ acct' = [Current EXCEPT !.allowance = @ - FromAllowance(c),
                                          !.pack = @ - FromPack(c),
                                          !.used = @ + FromOverage(c)]
               /\ elapsed' = FALSE
               /\ ledger' = [ledger EXCEPT !.total =
                                @ - c + (IF elapsed THEN acct.monthly ELSE 0)]
               /\ offBook' = offBook + FromOverage(c)
                                - (IF elapsed THEN acct.allowance ELSE 0)
               /\ Go(r, "cacheDel")
               /\ UNCHANGED <<open, profile>>
    /\ UNCHANGED <<op, row, seen, cache, granted>>

(* getBalance: the conditional renewal, its ledger row and invalidation,   *)
(* then the SELECT, then the cache entry.                                  *)

ResetIfElapsed(r) ==
    /\ pc[r] = "act" /\ op[r].kind = "check"
    /\ IF elapsed
       THEN /\ Renew
            /\ seen' = [seen EXCEPT ![r] = acct']
            /\ row' = [row EXCEPT ![r] = acct.monthly]
            /\ offBook' = offBook - acct.allowance
            /\ Go(r, "row")
       ELSE Go(r, "select") /\ UNCHANGED <<accountVars, seen, row, offBook>>
    /\ UNCHANGED <<op, cache, ledger, granted>>

SelectBalance(r) ==
    /\ pc[r] = "select"
    /\ seen' = [seen EXCEPT ![r] = acct]
    /\ Go(r, "fill")
    /\ UNCHANGED <<accountVars, op, row, cache, ledger, offBook, granted>>

\* "fresh" records whether the entry was right when it was stored and no
\* invalidation of it failed since.  Redis errors are ignored: fail open.
CacheSet(r) ==
    /\ pc[r] = "fill"
    /\ \/ cache' = {[acct |-> seen[r], fresh |-> seen[r] = acct]}
       \/ MayCrash /\ UNCHANGED cache
    /\ Go(r, "done")
    /\ UNCHANGED <<accountVars, op, row, seen, ledger, offBook, granted>>

(* grantCredits, setPlan, setOverage: the account statement.               *)

GrantSize(r) == IF op[r].kind = "fulfil" THEN PackSize ELSE op[r].n

GrantCredits(r) ==
    /\ pc[r] = "act" /\ op[r].kind \in {"grant", "fulfil"}
    /\ Grant(GrantSize(r))
    /\ row' = [row EXCEPT ![r] = GrantSize(r)]
    /\ granted' = IF op[r].kind = "fulfil"
                   THEN [granted EXCEPT ![op[r].ref] = @ + 1] ELSE granted
    /\ Go(r, "row")
    /\ UNCHANGED <<op, seen, cache, ledger, offBook>>

\* Mutant: the account moves to the plan and the profile stays behind.
SetPlanOfAccount(r) ==
    /\ pc[r] = "act" /\ op[r].kind = "plan"
    /\ acct' = [acct EXCEPT !.plan = op[r].plan, !.monthly = Allowance[op[r].plan],
                            !.allowance = Allowance[op[r].plan], !.used = 0]
    /\ row' = [row EXCEPT ![r] = Allowance[op[r].plan]]
    /\ offBook' = offBook - acct.allowance
    /\ Go(r, "row")
    /\ UNCHANGED <<open, profile, elapsed, op, seen, cache, ledger, granted>>

SetPlan(r) ==
    /\ pc[r] = "act" /\ op[r].kind = "plan"
    /\ ChangePlan(op[r].plan)
    /\ row' = [row EXCEPT ![r] = Allowance[op[r].plan]]
    /\ offBook' = offBook - acct.allowance
    /\ Go(r, "row")
    /\ UNCHANGED <<op, seen, cache, ledger, granted>>

\* Mutant: the cached balance is not invalidated.
SetOverageCached(r) ==
    /\ pc[r] = "act" /\ op[r].kind = "spendCap"
    /\ ChangeSpendCap(op[r].on, op[r].ceiling)
    /\ Go(r, "done")
    /\ UNCHANGED <<op, row, seen, cache, ledger, offBook, granted>>

SetOverage(r) ==
    /\ pc[r] = "act" /\ op[r].kind = "spendCap"
    /\ ChangeSpendCap(op[r].on, op[r].ceiling)
    /\ Go(r, "cacheDel")
    /\ UNCHANGED <<op, row, seen, cache, ledger, offBook, granted>>

\* Mutant: the row does not carry the payment's reference.
WriteNoRef(r) ==
    /\ pc[r] = "row"
    /\ ledger' = [ledger EXCEPT !.total = @ + row[r]]
    /\ row' = [row EXCEPT ![r] = 0]
    /\ Go(r, "cacheDel")
    /\ UNCHANGED <<accountVars, op, seen, cache, offBook, granted>>

\* The ledger row that follows the account statement, outside its transaction.
WriteLedger(r) ==
    /\ pc[r] = "row"
    /\ ledger' = [ledger EXCEPT !.total = @ + row[r],
                    !.refs = @ \union (IF op[r].kind = "fulfil" THEN {op[r].ref} ELSE {})]
    /\ row' = [row EXCEPT ![r] = 0]
    /\ Go(r, "cacheDel")
    /\ UNCHANGED <<accountVars, op, seen, cache, offBook, granted>>

\* The renewal of getBalance goes on to store the row it returned.
CacheDel(r) ==
    /\ pc[r] = "cacheDel"
    /\ \/ cache' = {}
       \/ MayCrash /\ cache' = {[e EXCEPT !.fresh = FALSE] : e \in cache}
    /\ Go(r, IF op[r].kind = "check" THEN "fill" ELSE "done")
    /\ UNCHANGED <<accountVars, op, row, seen, ledger, offBook, granted>>
-----------------------------------------------------------------------------
\* The process dies, or a statement throws, before the next round trip.
Crash(r) ==
    /\ MayCrash
    /\ pc[r] \notin {"idle", "done", "crashed"}
    /\ Go(r, "crashed")
    /\ UNCHANGED <<accountVars, op, row, seen, cache, ledger, offBook, granted>>

\* CACHE_TTL_SEC passes, or Redis is restarted.
CacheExpires ==
    /\ cache # {}
    /\ cache' = {}
    /\ UNCHANGED <<accountVars, requestVars, ledger, offBook, granted>>

PeriodElapses ==
    /\ PeriodEnds
    /\ UNCHANGED <<requestVars, cache, ledger, offBook, granted>>

Step(r) ==
    \/ Arrive(r) \/ GrantExists(r) \/ CacheGet(r)
    \/ SelectAccount(r) \/ InsertAccount(r) \/ SeedRow(r)
    \/ Debit(r) \/ ResetIfElapsed(r) \/ SelectBalance(r) \/ CacheSet(r)
    \/ GrantCredits(r) \/ SetPlan(r) \/ SetOverage(r)
    \/ WriteLedger(r) \/ CacheDel(r) \/ Crash(r)

Next == (\E r \in Requests : Step(r)) \/ CacheExpires \/ PeriodElapses

Spec == Init /\ [][Next]_vars
-----------------------------------------------------------------------------
\* The account row, the requests, the cache and the ledger keep their shape;
\* no purse of the account is ever overdrawn.
TypeOK ==
    /\ open \in BOOLEAN /\ elapsed \in BOOLEAN
    /\ profile \in Plans
    /\ acct \in Account
    /\ pc \in [Requests -> PCs]
    /\ op \in [Requests -> Ops]
    /\ row \in [Requests -> Nat]
    /\ seen \in [Requests -> Account]
    /\ cache \in SUBSET [acct : Account, fresh : BOOLEAN]
    /\ ledger \in [total : Int, refs : SUBSET Refs, seeds : Nat]
    /\ offBook \in Int
    /\ granted \in [Refs -> Nat]

\* The integrity job's four counters stay at zero (reconciliation.ts:14-28),
\* whatever debits, renewals, plan changes and grants interleave.  The two
\* about signs are Account's Nat; this is the one that relates two columns.
AllowanceWithinPlan ==
    /\ acct.allowance >= 0 /\ acct.pack >= 0
    /\ acct.allowance <= acct.monthly
    /\ acct.used >= 0

\* The plan that credits follow and the plan that feature gates follow never
\* drift apart (the drift setPlan's header describes), but for an account that
\* was opened when the profile could not be read and has its first plan still.
PlansAgree ==
    open => /\ acct.monthly = Allowance[acct.plan]
            /\ \/ acct.plan = profile
               \/ ~ProfileReadable /\ acct.plan = DefaultPlan

\* Such a drift ends with the next plan change, and for good: equal columns
\* stay equal whatever requests interleave.
DriftNeverReturns ==
    [][open /\ acct.plan = profile => acct'.plan = profile']_vars

\* The free tier's lifetime grant enters the ledger at most once, whatever
\* the race of first touches (getOrCreateAccount's ON CONFLICT).
LifetimeGrantOnce ==
    ledger.seeds + Cardinality({r \in Requests : pc[r] = "seedRow"}) <= 1

\* docs/pricing/IMPLEMENTATION.md:15, "credit_ledger (append-only audit)": the
\* ledger accounts for every credit of the balance, up to the rows requests
\* still have to write (or died with) and the changes that are never booked:
\* the allowance an account opens with, the remainder a renewal or plan
\* change discards, and overage, which is booked but leaves the balance.
LedgerExplainsBalance ==
    open => Balance(acct) = ledger.total + offBook + SumFunction(row)

\* Every mutation invalidates the balance cache (creditLedger.ts:190): an entry
\* that was right when it was stored, and that no DEL failed to remove, is wrong
\* only while the request that changed the account still has its invalidation
\* to do, or died before it.
InvalidationFollowsMutation ==
    \A e \in cache : e.fresh /\ e.acct # acct =>
        \E r \in Requests : pc[r] \in {"row", "cacheDel", "crashed"}

Delivers(r, f) == op[r].kind = "fulfil" /\ op[r].ref = f

\* A webhook delivery that was carried through has put its pack on the
\* account and in the ledger, or found that an earlier one had.
AnsweredPurchaseIsBooked ==
    \A r \in Requests, f \in Refs :
        Delivers(r, f) /\ pc[r] \in {"cacheDel", "done"} =>
            f \in ledger.refs /\ granted[f] >= 1

Settled(f) ==
    /\ f \in ledger.refs
    /\ \A r \in Requests : Delivers(r, f) => pc[r] \in {"dedupe", "done", "crashed"}

\* Once a payment is in the ledger and no delivery of it is past the duplicate
\* check, no delivery ever grants it again (payments.ts:98-101).
SettledPurchaseIsFinal ==
    [][\A f \in Refs :
         Settled(f) => Settled(f)' /\ granted'[f] = granted[f]]_vars

\* "a duplicate checkout.session.completed event can't double-credit"
\* (docs/pricing/IMPLEMENTATION.md:122-123).  It can: the grant row the check
\* looks for is written after the pack is credited.
DuplicateNeverDoubleCredits == \A f \in Refs : granted[f] <= 1
=============================================================================

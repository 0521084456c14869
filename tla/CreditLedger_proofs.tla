------------------------- MODULE CreditLedger_proofs -------------------------
(***************************************************************************)
(* For every set of requests, plans, amounts and ceilings: the account is  *)
(* well formed, the plan columns agree, and the interleaved round trips    *)
(* implement the indivisible operations of CreditAccount; the lifetime     *)
(* grant is booked once, a settled payment is never granted again, an      *)
(* answered delivery is booked, every mutation invalidates the cached      *)
(* balance, and the ledger explains every credit of the balance.           *)
(***************************************************************************)
EXTENDS CreditLedger, FiniteSetTheorems, WellFoundedInduction, TLAPS

USE PlanAssumption, AmountAssumption, RequestAssumption

\* A new account and a renewed one are well formed rows.
LEMMA NewAccountType ==
    ASSUME NEW plan \in Plans
    PROVE  /\ NewAccount(plan) \in Account
           /\ NewAccount(plan).plan = plan
           /\ NewAccount(plan).monthly = Allowance[plan]
           /\ NewAccount(plan).allowance = Allowance[plan]
BY DEF NewAccount, Account

\* A renewed row is well formed and keeps its plan.
LEMMA RenewedType ==
    ASSUME NEW a \in Account
    PROVE  /\ Renewed(a) \in Account
           /\ Renewed(a).plan = a.plan
           /\ Renewed(a).monthly = a.monthly
           /\ Renewed(a).allowance = a.monthly
BY DEF Renewed, Account

\* How a charge of c is split: the parts are amounts, they add up to c, no
\* purse gives more than it holds, and a later purse is touched only when the
\* earlier ones are empty.
LEMMA SplitAddsUp ==
    ASSUME TypeOK, NEW c \in Nat
    PROVE  /\ Current \in Account
           /\ FromAllowance(c) \in 0..c /\ FromPack(c) \in 0..c /\ FromOverage(c) \in 0..c
           /\ FromAllowance(c) + FromPack(c) + FromOverage(c) = c
           /\ FromAllowance(c) <= Current.allowance
           /\ FromPack(c) <= Current.pack
           /\ FromPack(c) > 0 => FromAllowance(c) = Current.allowance
           /\ FromOverage(c) > 0 => /\ FromPack(c) = Current.pack
                                    /\ FromAllowance(c) = Current.allowance
<1>1. Current \in Account
  BY RenewedType DEF TypeOK, Current
<1>2. Current.allowance \in Nat /\ Current.pack \in Nat
  BY <1>1 DEF Account
<1>. QED
  BY <1>1, <1>2 DEF FromAllowance, FromPack, FromOverage, Lesser

-----------------------------------------------------------------------------
(* The abstract account: its three invariants, inductive together.         *)

AccountTyped ==
    /\ open \in BOOLEAN /\ elapsed \in BOOLEAN
    /\ profile \in Plans
    /\ acct \in Account

AccountInv == AccountTyped /\ AllowanceWithinPlan /\ PlansAgree

\* The first abstract state satisfies the account's invariants.
LEMMA AbstractInit == AInit => AccountInv
<1>. SUFFICES ASSUME AInit PROVE AccountInv
  OBVIOUS
<1>1. profile \in Plans /\ acct = NewAccount(profile) /\ open = FALSE /\ elapsed = FALSE
  BY DEF AInit
<1>2. AccountTyped
  BY <1>1, NewAccountType DEF AccountTyped
<1>3. AllowanceWithinPlan
  BY <1>1, NewAccountType DEF AllowanceWithinPlan, Account
<1>. QED
  BY <1>1, <1>2, <1>3 DEF AccountInv, PlansAgree

\* Every indivisible operation keeps the account well formed, its allowance
\* within the plan and its plan columns equal.
LEMMA AbstractStep == AccountInv /\ [ANext]_accountVars => AccountInv'
<1>. SUFFICES ASSUME AccountInv, [ANext]_accountVars PROVE AccountInv'
  OBVIOUS
<1>. USE DEF AccountInv, AccountTyped, AllowanceWithinPlan, PlansAgree
<1>1. CASE Open
  <2>. PICK plan \in SeedPlans : acct' = NewAccount(plan)
    BY <1>1 DEF Open
  <2>1. /\ plan \in Plans
        /\ plan = profile \/ (~ProfileReadable /\ plan = DefaultPlan)
        /\ acct' = NewAccount(plan)
        /\ profile' = profile /\ open' = TRUE /\ elapsed' = FALSE
    BY <1>1 DEF Open, SeedPlans
  <2>2. /\ acct' \in Account /\ acct'.plan = plan
        /\ acct'.monthly = Allowance[plan] /\ acct'.allowance = Allowance[plan]
    BY <2>1, NewAccountType
  <2>3. AccountTyped' /\ PlansAgree'
    BY <2>1, <2>2
  <2>4. AllowanceWithinPlan'
    BY <2>2 DEF Account
  <2>. QED
    BY <2>3, <2>4
<1>2. CASE Renew
  <2>1. acct' = Renewed(acct) /\ elapsed' = FALSE /\ UNCHANGED <<open, profile>>
    BY <1>2 DEF Renew
  <2>2. AccountTyped' /\ PlansAgree'
    BY <2>1, RenewedType
  <2>3. AllowanceWithinPlan'
    BY <2>1, RenewedType DEF Account
  <2>. QED
    BY <2>2, <2>3
<1>3. CASE PeriodEnds
  BY <1>3 DEF PeriodEnds
<1>4. ASSUME NEW n \in Costs, Charge(n) PROVE AccountInv'
  <2>1. PICK a, p, o \in 0..n :
           /\ Split(n, a, p, o)
           /\ acct' = [Current EXCEPT !.allowance = @ - a, !.pack = @ - p,
                                      !.used = @ + o]
    BY <1>4, Zenon DEF Charge
  <2>2. /\ Current \in Account /\ Current.plan = acct.plan
        /\ Current.monthly = acct.monthly
        /\ Current.allowance <= acct.monthly
    BY RenewedType DEF Current, Account
  <2>3. a \in Nat /\ p \in Nat /\ o \in Nat
    OBVIOUS
  <2>4. /\ Current.allowance \in Nat /\ Current.pack \in Nat /\ Current.used \in Nat
        /\ Current.monthly \in Nat
    BY <2>2 DEF Account
  <2>5. /\ Current.allowance - a \in Nat /\ Current.allowance - a <= acct.monthly
        /\ Current.pack - p \in Nat /\ Current.used + o \in Nat
    BY <2>1, <2>2, <2>3, <2>4 DEF Split
  <2>6. acct' \in Account
    BY <2>1, <2>2, <2>5 DEF Account
  <2>7. /\ acct'.plan = acct.plan /\ acct'.monthly = acct.monthly
        /\ acct'.allowance = Current.allowance - a
    BY <2>1, <2>2 DEF Account
  <2>8. AllowanceWithinPlan'
    BY <2>5, <2>6, <2>7 DEF Account
  <2>. QED
    BY <1>4, <2>6, <2>7, <2>8 DEF Charge
<1>5. ASSUME NEW n \in Grants, Grant(n) PROVE AccountInv'
  BY <1>5 DEF Grant, Account
<1>6. ASSUME NEW plan \in Plans, ChangePlan(plan) PROVE AccountInv'
  <2>1. acct' = [acct EXCEPT !.plan = plan, !.monthly = Allowance[plan],
                            !.allowance = Allowance[plan], !.used = 0]
    BY <1>6 DEF ChangePlan
  <2>2. Allowance[plan] \in Nat
    OBVIOUS
  <2>3. acct' \in Account
    BY <2>1, <2>2 DEF Account
  <2>4. /\ acct'.plan = plan /\ acct'.monthly = Allowance[plan]
        /\ acct'.allowance = Allowance[plan]
    BY <2>1 DEF Account
  <2>5. AllowanceWithinPlan'
    BY <2>2, <2>3, <2>4 DEF Account
  <2>. QED
    BY <1>6, <2>3, <2>4, <2>5 DEF ChangePlan
<1>7. ASSUME NEW on \in BOOLEAN, NEW c \in Ceilings \union {NoCeiling},
             ChangeSpendCap(on, c)
      PROVE AccountInv'
  BY <1>7 DEF ChangeSpendCap, Account
<1>8. CASE UNCHANGED accountVars
  BY <1>8 DEF accountVars
<1>. QED
  BY <1>1, <1>2, <1>3, <1>4, <1>5, <1>6, <1>7, <1>8 DEF ANext

-----------------------------------------------------------------------------
\* The initial state is well formed.
LEMMA InitType == Init => TypeOK
<1>. SUFFICES ASSUME Init PROVE TypeOK
  OBVIOUS
<1>1. acct \in Account
  BY NewAccountType DEF Init, AInit
<1>2. [kind |-> "none"] \in Ops
  BY DEF Ops
<1>3. open \in BOOLEAN /\ elapsed \in BOOLEAN /\ profile \in Plans
  BY DEF Init, AInit
<1>4. pc \in [Requests -> PCs] /\ row \in [Requests -> Nat]
  BY DEF Init, PCs
<1>5. op \in [Requests -> Ops] /\ seen \in [Requests -> Account]
  BY <1>1, <1>2 DEF Init
<1>6. /\ cache \in SUBSET [acct : Account, fresh : BOOLEAN]
      /\ ledger \in [total : Int, refs : SUBSET Refs, seeds : Nat]
  BY DEF Init
<1>7. offBook \in Int /\ granted \in [Refs -> Nat]
  BY DEF Init
<1>. QED
  BY <1>1, <1>3, <1>4, <1>5, <1>6, <1>7 DEF TypeOK

-----------------------------------------------------------------------------
(* Every round trip is an indivisible operation of the account or leaves   *)
(* it alone.                                                               *)

\* The operands of each kind of operation are of the kind's type.
LEMMA OpFields ==
    ASSUME NEW o \in Ops
    PROVE  /\ o.kind \in {"debit", "check"} => o.n \in Costs
           /\ o.kind = "grant" => o.n \in Grants
           /\ o.kind = "plan" => o.plan \in Plans
           /\ o.kind = "spendCap" => /\ o.on \in BOOLEAN
                                     /\ o.ceiling \in Ceilings \union {NoCeiling}
           /\ o.kind = "fulfil" => o.ref \in Refs
BY DEF Ops

\* The minimum computations of debitCredits are a legal charge.
LEMMA DebitIsCharge ==
    ASSUME TypeOK, open, NEW r \in Requests, Debit(r)
    PROVE  [ANext]_accountVars
<1>. DEFINE c == op[r].n
<1>1. op[r] \in Ops /\ op[r].kind = "debit"
  BY DEF TypeOK, Debit
<1>2. c \in Costs /\ c \in Nat
  BY <1>1, OpFields
<1>3. CASE ~Affordable(c)
  BY <1>3 DEF Debit, accountVars
<1>4. CASE Affordable(c)
  <2>. DEFINE a == FromAllowance(c)
              p == FromPack(c)
              o == FromOverage(c)
  <2>1. /\ acct' = [Current EXCEPT !.allowance = @ - a, !.pack = @ - p, !.used = @ + o]
        /\ elapsed' = FALSE
        /\ UNCHANGED <<open, profile>>
    BY <1>4 DEF Debit
  <2>2. /\ a \in 0..c /\ p \in 0..c /\ o \in 0..c
        /\ a + p + o = c
        /\ a <= Current.allowance /\ p <= Current.pack
        /\ p > 0 => a = Current.allowance
        /\ o > 0 => p = Current.pack /\ a = Current.allowance
    BY <1>2, SplitAddsUp
  <2>3. o > 0 => OverageAllows(Current, o)
    BY <1>4 DEF Affordable
  <2>4. Split(c, a, p, o)
    BY <2>2, <2>3 DEF Split
  <2>. HIDE DEF a, p, o, c
  <2>5. Charge(c)
    BY <2>1, <2>2, <2>4 DEF Charge
  <2>. QED
    BY <2>5, <1>2 DEF ANext
<1>. QED
  BY <1>3, <1>4

\* Past getOrCreateAccount the account exists.
PastAccount == {"seedRow", "act", "select", "fill", "row", "cacheDel"}
StartedOnOpen == \A r \in Requests : pc[r] \in PastAccount => open

\* At first no request has started.
LEMMA InitStarted == Init => StartedOnOpen
BY DEF Init, StartedOnOpen, PastAccount

\* A step of one request is an operation of the abstract account or leaves it
\* unchanged.
LEMMA StepSimulates ==
    ASSUME TypeOK, StartedOnOpen, [Next]_vars
    PROVE  [ANext]_accountVars
<1>1. ASSUME NEW r \in Requests, Step(r) PROVE [ANext]_accountVars
  <2>. op[r] \in Ops /\ (pc[r] = "act" => open)
    BY DEF TypeOK, StartedOnOpen, PastAccount
  <2>1. CASE \/ Arrive(r) \/ GrantExists(r) \/ CacheGet(r) \/ SelectAccount(r)
             \/ SeedRow(r) \/ SelectBalance(r) \/ CacheSet(r)
             \/ WriteLedger(r) \/ CacheDel(r) \/ Crash(r)
    BY <2>1 DEF Arrive, GrantExists, CacheGet, SelectAccount, SeedRow, SelectBalance,
                CacheSet, WriteLedger, CacheDel, Crash
  <2>2. CASE InsertAccount(r)
    BY <2>2 DEF InsertAccount, ANext
  <2>3. CASE Debit(r)
    BY <2>3, DebitIsCharge DEF Debit
  <2>4. CASE ResetIfElapsed(r)
    BY <2>4 DEF ResetIfElapsed, ANext
  <2>5. CASE GrantCredits(r)
    <3>1. GrantSize(r) \in Grants /\ Grant(GrantSize(r))
      BY <2>5, OpFields DEF GrantCredits, GrantSize
    <3>. QED
      BY <3>1 DEF ANext
  <2>6. CASE SetPlan(r)
    BY <2>6, OpFields DEF SetPlan, ANext
  <2>7. CASE SetOverage(r)
    BY <2>7, OpFields DEF SetOverage, ANext
  <2>. QED
    BY <1>1, <2>1, <2>2, <2>3, <2>4, <2>5, <2>6, <2>7 DEF Step
<1>2. CASE CacheExpires
  BY <1>2 DEF CacheExpires
<1>3. CASE PeriodElapses
  BY <1>3 DEF PeriodElapses, ANext
<1>4. CASE UNCHANGED vars
  BY <1>4 DEF vars
<1>. QED
  BY <1>1, <1>2, <1>3, <1>4 DEF Next

\* The account never disappears, so a started request stays on an open one.
LEMMA StepStarted ==
    ASSUME TypeOK, StartedOnOpen, [Next]_vars
    PROVE  StartedOnOpen'
<1>1. open => open'
  BY StepSimulates, Zenon DEF ANext, Open, Renew, PeriodEnds, Charge, Grant, ChangePlan,
                      ChangeSpendCap, accountVars
<1>. USE <1>1 DEF StartedOnOpen, PastAccount
<1>2. ASSUME NEW r \in Requests, Step(r) PROVE StartedOnOpen'
  <2>1. pc[r] \in PastAccount \/ pc'[r] \notin PastAccount \/ open'
    BY <1>2 DEF Step, Arrive, GrantExists, CacheGet, SelectAccount, InsertAccount, Open, SeedRow,
                Debit, ResetIfElapsed, SelectBalance, CacheSet, GrantCredits, SetPlan, SetOverage,
                WriteLedger, CacheDel, Crash, Go, TypeOK
  <2>2. \A s \in Requests \ {r} : pc'[s] = pc[s]
    BY <1>2 DEF Step, Arrive, GrantExists, CacheGet, SelectAccount, InsertAccount, SeedRow,
                Debit, ResetIfElapsed, SelectBalance, CacheSet, GrantCredits, SetPlan, SetOverage,
                WriteLedger, CacheDel, Crash, Go, TypeOK
  <2>. QED
    BY <2>1, <2>2
<1>3. CASE CacheExpires \/ PeriodElapses \/ UNCHANGED vars
  BY <1>3 DEF CacheExpires, PeriodElapses, vars, requestVars
<1>. QED
  BY <1>2, <1>3 DEF Next

-----------------------------------------------------------------------------
(* Type correctness of the requests, the cache and the ledger.             *)

RequestTypeOK ==
    /\ pc \in [Requests -> PCs]
    /\ op \in [Requests -> Ops]
    /\ row \in [Requests -> Nat]
    /\ seen \in [Requests -> Account]
StoreTypeOK ==
    /\ cache \in SUBSET [acct : Account, fresh : BOOLEAN]
    /\ ledger \in [total : Int, refs : SUBSET Refs, seeds : Nat]
    /\ offBook \in Int
    /\ granted \in [Refs -> Nat]

\* The type invariant in the parts the proofs use.
LEMMA TypeParts == TypeOK <=> AccountTyped /\ RequestTypeOK /\ StoreTypeOK
BY DEF TypeOK, AccountTyped, RequestTypeOK, StoreTypeOK

\* A step of one request keeps the request table well formed.
LEMMA StepRequestType ==
    ASSUME TypeOK, acct' \in Account, NEW r \in Requests, Step(r)
    PROVE  RequestTypeOK'
<1>. USE DEF TypeOK, RequestTypeOK, Go, PCs
<1>1. CASE Arrive(r)
  BY <1>1 DEF Arrive
<1>2. CASE \/ GrantExists(r) \/ CacheGet(r) \/ SelectAccount(r) \/ CacheSet(r)
           \/ CacheDel(r) \/ Crash(r) \/ Debit(r) \/ SetOverage(r)
  BY <1>2 DEF GrantExists, CacheGet, SelectAccount, CacheSet, CacheDel, Crash, Debit,
              SetOverage
<1>3. CASE InsertAccount(r)
  <2>1. acct'.pack \in Nat
    BY DEF Account
  <2>. QED
    BY <1>3, <2>1 DEF InsertAccount
<1>4. CASE SeedRow(r) \/ WriteLedger(r)
  BY <1>4 DEF SeedRow, WriteLedger
<1>5. CASE ResetIfElapsed(r)
  <2>1. acct.monthly \in Nat
    BY DEF Account
  <2>. QED
    BY <1>5, <2>1 DEF ResetIfElapsed
<1>6. CASE SelectBalance(r)
  BY <1>6 DEF SelectBalance
<1>7. CASE GrantCredits(r)
  <2>1. GrantSize(r) \in Nat
    BY <1>7, OpFields DEF GrantSize, GrantCredits
  <2>. QED
    BY <1>7, <2>1 DEF GrantCredits
<1>8. CASE SetPlan(r)
  <2>1. Allowance[op[r].plan] \in Nat
    BY <1>8, OpFields DEF SetPlan
  <2>. QED
    BY <1>8, <2>1 DEF SetPlan
<1>. QED
  BY <1>1, <1>2, <1>3, <1>4, <1>5, <1>6, <1>7, <1>8 DEF Step

\* A step of one request keeps the cache, the ledger and the histories well formed.
LEMMA StepStoreType ==
    ASSUME TypeOK, acct' \in Account, NEW r \in Requests, Step(r)
    PROVE  StoreTypeOK'
<1>. USE DEF TypeOK, StoreTypeOK
<1>1. /\ acct.allowance \in Nat /\ acct.monthly \in Nat /\ acct'.allowance \in Nat
      /\ row[r] \in Nat /\ op[r] \in Ops
  BY DEF Account
<1>2. CASE \/ Arrive(r) \/ GrantExists(r) \/ CacheGet(r) \/ SelectAccount(r) \/ SelectBalance(r)
           \/ Crash(r) \/ SetOverage(r)
  BY <1>2 DEF Arrive, GrantExists, CacheGet, SelectAccount, SelectBalance, Crash, SetOverage
<1>3. CASE InsertAccount(r)
  <2>1. /\ offBook' = offBook \/ offBook' = offBook + acct'.allowance
        /\ UNCHANGED <<cache, ledger, granted>>
    BY <1>3 DEF InsertAccount
  <2>. QED
    BY <2>1, <1>1
<1>4. CASE SeedRow(r)
  <2>1. ledger.total + row[r] \in Int /\ ledger.seeds + 1 \in Nat
    BY <1>1
  <2>2. /\ ledger' = [ledger EXCEPT !.total = @ + row[r], !.seeds = @ + 1]
        /\ UNCHANGED <<cache, offBook, granted>>
    BY <1>4 DEF SeedRow
  <2>3. ledger' \in [total : Int, refs : SUBSET Refs, seeds : Nat]
    BY <2>1, <2>2
  <2>. QED
    BY <2>2, <2>3
<1>5. CASE Debit(r)
  <2>. DEFINE c == op[r].n
  <2>1. c \in Nat
    BY <1>5, <1>1, OpFields DEF Debit
  <2>2. FromOverage(c) \in Int
    BY <2>1, SplitAddsUp
  <2>3. CASE ~Affordable(c)
    BY <1>5, <2>3 DEF Debit
  <2>4. CASE Affordable(c)
    <3>1. /\ ledger' = [ledger EXCEPT !.total = @ - c + (IF elapsed THEN acct.monthly ELSE 0)]
          /\ offBook' = offBook + FromOverage(c) - (IF elapsed THEN acct.allowance ELSE 0)
          /\ UNCHANGED <<cache, granted>>
      BY <1>5, <2>4 DEF Debit
    <3>. QED
      BY <3>1, <2>1, <2>2, <1>1
  <2>. QED
    BY <2>3, <2>4
<1>6. CASE ResetIfElapsed(r)
  BY <1>6, <1>1 DEF ResetIfElapsed
<1>7. CASE CacheSet(r) \/ CacheDel(r)
  <2>1. [acct |-> seen[r], fresh |-> seen[r] = acct] \in [acct : Account, fresh : BOOLEAN]
    OBVIOUS
  <2>2. ASSUME NEW e \in cache
        PROVE  [e EXCEPT !.fresh = FALSE] \in [acct : Account, fresh : BOOLEAN]
    <3>1. e \in [acct : Account, fresh : BOOLEAN]
      OBVIOUS
    <3>. QED
      BY <3>1
  <2>3. {[e EXCEPT !.fresh = FALSE] : e \in cache} \subseteq [acct : Account, fresh : BOOLEAN]
    <3>. HIDE DEF TypeOK, StoreTypeOK
    <3>. QED
      BY <2>2, Zenon
  <2>4. CASE CacheSet(r)
    BY <2>4, <2>1 DEF CacheSet
  <2>5. CASE CacheDel(r)
    BY <2>5, <2>3 DEF CacheDel
  <2>6. cache' \in SUBSET [acct : Account, fresh : BOOLEAN]
    BY <1>7, <2>4, <2>5
  <2>. QED
    BY <1>7, <2>6 DEF CacheSet, CacheDel
<1>8. CASE GrantCredits(r)
  BY <1>8, <1>1, OpFields DEF GrantCredits
<1>9. CASE SetPlan(r)
  BY <1>9, <1>1 DEF SetPlan
<1>10. CASE WriteLedger(r)
  <2>. DEFINE refs == IF op[r].kind = "fulfil" THEN {op[r].ref} ELSE {}
  <2>1. refs \subseteq Refs
    BY <1>1, OpFields
  <2>2. /\ ledger' = [ledger EXCEPT !.total = @ + row[r], !.refs = @ \union refs]
        /\ UNCHANGED <<cache, offBook, granted>>
    BY <1>10 DEF WriteLedger
  <2>3. ledger.total + row[r] \in Int /\ ledger.refs \union refs \in SUBSET Refs
    BY <2>1, <1>1
  <2>. HIDE DEF refs
  <2>4. ledger' \in [total : Int, refs : SUBSET Refs, seeds : Nat]
    BY <2>2, <2>3
  <2>. QED
    BY <2>2, <2>4
<1>. QED
  BY <1>2, <1>3, <1>4, <1>5, <1>6, <1>7, <1>8, <1>9, <1>10 DEF Step

LedgerInv == TypeOK /\ AllowanceWithinPlan /\ PlansAgree /\ StartedOnOpen

\* The strengthened invariant is inductive: steps,
LEMMA LedgerStep == LedgerInv /\ [Next]_vars => LedgerInv'
<1>. SUFFICES ASSUME LedgerInv, [Next]_vars PROVE LedgerInv'
  OBVIOUS
<1>. USE DEF LedgerInv
<1>1. AccountInv'
  BY TypeParts, StepSimulates, AbstractStep DEF AccountInv
<1>2. StartedOnOpen'
  BY StepStarted
<1>3. RequestTypeOK' /\ StoreTypeOK'
  <2>1. acct' \in Account
    BY <1>1 DEF AccountInv, AccountTyped
  <2>2. ASSUME NEW r \in Requests, Step(r) PROVE RequestTypeOK' /\ StoreTypeOK'
    BY <2>1, <2>2, StepRequestType, StepStoreType
  <2>3. CASE CacheExpires \/ PeriodElapses \/ UNCHANGED vars
    BY <2>3, TypeParts DEF CacheExpires, PeriodElapses, vars, requestVars, RequestTypeOK, StoreTypeOK
  <2>. QED
    BY <2>2, <2>3 DEF Next
<1>4. TypeOK'
  BY <1>1, <1>3, TypeParts DEF AccountInv, AccountTyped, RequestTypeOK, StoreTypeOK, TypeOK
<1>. QED
  BY <1>1, <1>2, <1>4 DEF AccountInv

\* first state,
LEMMA LedgerInit == Init => LedgerInv
BY InitType, InitStarted, AbstractInit DEF Init, LedgerInv, AccountInv

\* and so it holds in every run.
LEMMA LedgerInvariant == Spec => []LedgerInv
<1>1. LedgerInv /\ [Next]_vars => LedgerInv'
  BY LedgerStep
<1>. QED
  BY <1>1, LedgerInit, PTL DEF Spec

\* Every reachable state is well typed.
THEOREM TypeCorrect == Spec => []TypeOK
BY LedgerInvariant, PTL DEF LedgerInv

\* The integrity job never finds a violation: no interleaving of debits, renewals,
\* grants, plan changes and crashes drives a purse negative or the allowance past the plan.
THEOREM IntegrityJobStaysQuiet == Spec => []AllowanceWithinPlan
BY LedgerInvariant, PTL DEF LedgerInv

\* Credits and feature gates follow the same plan.
THEOREM PlanColumnsAgree == Spec => []PlansAgree
BY LedgerInvariant, PTL DEF LedgerInv

\* No operation on an account whose plan is the profile's separates the two.
LEMMA OperationKeepsPlans ==
    ASSUME TypeOK, open, acct.plan = profile, [ANext]_accountVars
    PROVE  acct'.plan = profile'
<1>. USE DEF TypeOK
<1>1. CASE Renew
  BY <1>1, RenewedType DEF Renew
<1>2. ASSUME NEW n \in Costs, Charge(n) PROVE acct'.plan = profile'
  <2>1. Current \in Account /\ Current.plan = acct.plan
    BY RenewedType DEF Current
  <2>. QED
    BY <1>2, <2>1 DEF Charge, Account
<1>3. ASSUME NEW n \in Grants, Grant(n) PROVE acct'.plan = profile'
  BY <1>3 DEF Grant, Account
<1>4. ASSUME NEW plan \in Plans, ChangePlan(plan) PROVE acct'.plan = profile'
  BY <1>4 DEF ChangePlan, Account
<1>5. ASSUME NEW on \in BOOLEAN, NEW c \in Ceilings \union {NoCeiling},
             ChangeSpendCap(on, c)
      PROVE acct'.plan = profile'
  BY <1>5 DEF ChangeSpendCap, Account
<1>6. CASE Open \/ PeriodEnds \/ UNCHANGED accountVars
  BY <1>6 DEF Open, PeriodEnds, accountVars
<1>. QED
  BY <1>1, <1>2, <1>3, <1>4, <1>5, <1>6 DEF ANext

\* A drift left by an unreadable profile ends with a plan change and for good.
THEOREM DriftEnds == Spec => DriftNeverReturns
<1>1. LedgerInv /\ [Next]_vars
        => [open /\ acct.plan = profile => acct'.plan = profile']_vars
  BY StepSimulates, OperationKeepsPlans DEF LedgerInv
<1>. QED
  BY <1>1, LedgerInvariant, PTL DEF Spec, DriftNeverReturns

\* The requests' round trips implement the indivisible account: each charge is
\* taken in full, in the promised order and within the ceiling, or not at all.
THEOREM LedgerImplementsAccount == Spec => ASpec
<1>1. Init => AInit
  BY DEF Init
<1>2. LedgerInv /\ [Next]_vars => [ANext]_accountVars
  BY StepSimulates DEF LedgerInv
<1>. QED
  BY <1>1, <1>2, LedgerInvariant, PTL DEF Spec, ASpec
-----------------------------------------------------------------------------
(* The lifetime grant.                                                     *)

Seeding == {r \in Requests : pc[r] = "seedRow"}

\* Before the account exists nobody seeds; the one request whose INSERT won
\* has its row still to write, or nobody has.
SeededOnce ==
    /\ ~open => Seeding = {} /\ ledger.seeds = 0
    /\ \/ Seeding = {} /\ ledger.seeds <= 1
       \/ (\E r \in Requests : Seeding = {r}) /\ ledger.seeds = 0

\* A step of one request keeps it so.
LEMMA StepSeeded ==
    ASSUME LedgerInv, SeededOnce, NEW r \in Requests, Step(r)
    PROVE  SeededOnce'
<1>. USE DEF LedgerInv, TypeOK, SeededOnce, Seeding, Go
<1>1. CASE InsertAccount(r)
  <2>1. CASE open
    BY <1>1, <2>1 DEF InsertAccount, accountVars
  <2>2. CASE ~open
    <3>1. open' /\ ledger' = ledger /\ \E to \in {"seedRow", "act"} : pc' = [pc EXCEPT ![r] = to]
      BY <1>1, <2>2 DEF InsertAccount, Open
    <3>2. Seeding = {} /\ ledger.seeds = 0
      BY <2>2
    <3>3. Seeding' = {} \/ Seeding' = {r}
      BY <3>1, <3>2
    <3>. QED
      BY <3>1, <3>2, <3>3
  <2>. QED
    BY <2>1, <2>2
<1>2. CASE SeedRow(r)
  <2>1. r \in Seeding /\ Seeding' = Seeding \ {r}
    BY <1>2 DEF SeedRow
  <2>2. Seeding = {r} /\ ledger.seeds = 0 /\ open
    BY <2>1
  <2>3. ledger'.seeds = 1 /\ open' = open
    BY <1>2, <2>2 DEF SeedRow, accountVars
  <2>. QED
    BY <2>1, <2>2, <2>3
<1>3. CASE ~InsertAccount(r) /\ ~SeedRow(r)
  <2>1. Seeding' \subseteq Seeding
    BY <1>3 DEF Step, Arrive, GrantExists, CacheGet, SelectAccount, Debit, ResetIfElapsed,
                SelectBalance, CacheSet, GrantCredits, SetPlan, SetOverage, WriteLedger,
                CacheDel, Crash
  <2>2. ledger'.seeds = ledger.seeds
    BY <1>3 DEF Step, Arrive, GrantExists, CacheGet, SelectAccount, Debit, ResetIfElapsed,
                SelectBalance, CacheSet, GrantCredits, SetPlan, SetOverage, WriteLedger,
                CacheDel, Crash
  <2>3. open => open'
    BY <1>3 DEF Step, Arrive, GrantExists, CacheGet, SelectAccount, Debit, ResetIfElapsed,
                SelectBalance, CacheSet, GrantCredits, SetPlan, SetOverage, WriteLedger,
                CacheDel, Crash, accountVars, Renew, Grant, ChangePlan, ChangeSpendCap
  <2>. QED
    BY <2>1, <2>2, <2>3
<1>. QED
  BY <1>1, <1>2, <1>3

\* The free tier's lifetime grant is booked once, whatever first touches race.
THEOREM GrantSeededOnce == Spec => []LifetimeGrantOnce
<1>1. Init => SeededOnce
  BY DEF Init, AInit, SeededOnce, Seeding
<1>2. LedgerInv /\ SeededOnce /\ [Next]_vars => SeededOnce'
  <2>. SUFFICES ASSUME LedgerInv, SeededOnce, [Next]_vars PROVE SeededOnce'
    OBVIOUS
  <2>1. CASE CacheExpires \/ PeriodElapses \/ UNCHANGED vars
    BY <2>1 DEF CacheExpires, PeriodElapses, PeriodEnds, vars, requestVars, accountVars,
                SeededOnce, Seeding
  <2>. QED
    BY <2>1, StepSeeded DEF Next
<1>3. TypeOK /\ SeededOnce => LifetimeGrantOnce
  <2>. SUFFICES ASSUME TypeOK, SeededOnce PROVE LifetimeGrantOnce
    OBVIOUS
  <2>1. ledger.seeds \in Nat
    BY DEF TypeOK
  <2>2. LifetimeGrantOnce <=> ledger.seeds + Cardinality(Seeding) <= 1
    BY DEF LifetimeGrantOnce, Seeding
  <2>3. CASE Seeding = {} /\ ledger.seeds <= 1
    <3>1. Cardinality(Seeding) = 0
      BY <2>3, FS_EmptySet, Zenon
    <3>. QED
      BY <2>1, <2>2, <2>3, <3>1
  <2>4. ASSUME NEW r \in Requests, Seeding = {r}, ledger.seeds = 0 PROVE LifetimeGrantOnce
    <3>1. Cardinality(Seeding) = 1
      BY <2>4, FS_Singleton, Zenon
    <3>. QED
      BY <2>2, <2>4, <3>1
  <2>. QED
    BY <2>3, <2>4 DEF SeededOnce
<1>. QED
  BY <1>1, <1>2, <1>3, LedgerInvariant, TypeCorrect, PTL DEF Spec
-----------------------------------------------------------------------------
(* Payments.                                                               *)

\* What a step does to the histories of payments, from the round trip it is.
LEMMA GrantsOfStep ==
    ASSUME TypeOK, NEW r \in Requests, Step(r), NEW f \in Refs
    PROVE  \/ granted'[f] = granted[f]
           \/ /\ pc[r] = "act" /\ Delivers(r, f)
              /\ granted'[f] = granted[f] + 1
<1>. USE DEF TypeOK
<1>1. CASE GrantCredits(r)
  BY <1>1, OpFields DEF GrantCredits, Delivers
<1>2. CASE ~GrantCredits(r)
  BY <1>2 DEF Step, Arrive, GrantExists, CacheGet, SelectAccount, InsertAccount, SeedRow, Debit,
              ResetIfElapsed, SelectBalance, CacheSet, SetPlan, SetOverage, WriteLedger,
              CacheDel, Crash
<1>. QED
  BY <1>1, <1>2

\* Payment references only enter the ledger.
LEMMA RefsStay ==
    ASSUME TypeOK, NEW r \in Requests, Step(r)
    PROVE  ledger.refs \subseteq ledger'.refs
<1>. USE DEF TypeOK
<1>1. CASE Debit(r)
  <2>1. ledger'.refs = ledger.refs
    BY <1>1 DEF Debit
  <2>. QED
    BY <2>1
<1>2. CASE SeedRow(r)
  <2>1. ledger'.refs = ledger.refs
    BY <1>2 DEF SeedRow
  <2>. QED
    BY <2>1
<1>3. CASE WriteLedger(r)
  BY <1>3 DEF WriteLedger
<1>4. CASE ~(Debit(r) \/ SeedRow(r) \/ WriteLedger(r))
  BY <1>4 DEF Step, Arrive, GrantExists, CacheGet, SelectAccount, InsertAccount,
              ResetIfElapsed, SelectBalance, CacheSet, GrantCredits, SetPlan, SetOverage,
              CacheDel, Crash
<1>. QED
  BY <1>1, <1>2, <1>3, <1>4

\* A delivery before or after the grant goes nowhere else when its payment is
\* in the ledger.
LEMMA SettledDelivery ==
    ASSUME TypeOK, NEW r \in Requests, Step(r), NEW f \in ledger.refs,
           Delivers(r, f) => pc[r] \in {"dedupe", "done", "crashed"}
    PROVE  Delivers(r, f)' => pc'[r] \in {"dedupe", "done", "crashed"}
<1>. USE DEF TypeOK, Go, Delivers
<1>1. CASE Arrive(r)
  BY <1>1 DEF Arrive
<1>2. CASE GrantExists(r)
  BY <1>2 DEF GrantExists
<1>3. CASE Crash(r)
  BY <1>3 DEF Crash
<1>4. CASE ~Arrive(r) /\ ~GrantExists(r) /\ ~Crash(r)
  <2>1. op' = op /\ pc[r] \notin {"dedupe", "done", "crashed"}
    BY <1>4 DEF Step, CacheGet, SelectAccount, InsertAccount, SeedRow, Debit, ResetIfElapsed,
                SelectBalance, CacheSet, GrantCredits, SetPlan, SetOverage, WriteLedger,
                CacheDel
  <2>. QED
    BY <2>1
<1>. QED
  BY <1>1, <1>2, <1>3, <1>4

\* The other requests stay where they are.
LEMMA OthersStay ==
    ASSUME TypeOK, NEW r \in Requests, Step(r), NEW s \in Requests \ {r}
    PROVE  pc'[s] = pc[s] /\ op'[s] = op[s]
BY DEF TypeOK, Go, Step, Arrive, GrantExists, CacheGet, SelectAccount, InsertAccount, SeedRow,
       Debit, ResetIfElapsed, SelectBalance, CacheSet, GrantCredits, SetPlan, SetOverage,
       WriteLedger, CacheDel, Crash

\* payments.ts:98-101: the duplicate check protects a payment once it is in the
\* ledger and no delivery is past the check.
THEOREM SettledStaysSettled == Spec => SettledPurchaseIsFinal
<1>1. TypeOK /\ [Next]_vars
        => [\A f \in Refs : Settled(f) => Settled(f)' /\ granted'[f] = granted[f]]_vars
  <2>. SUFFICES ASSUME TypeOK, [Next]_vars, NEW f \in Refs, Settled(f)
                PROVE  Settled(f)' /\ granted'[f] = granted[f]
    OBVIOUS
  <2>1. ASSUME NEW r \in Requests, Step(r) PROVE Settled(f)' /\ granted'[f] = granted[f]
    <3>1. granted'[f] = granted[f]
      BY <2>1, GrantsOfStep DEF Settled
    <3>2. f \in ledger'.refs
      BY <2>1, RefsStay DEF Settled
    <3>3. ASSUME NEW s \in Requests, Delivers(s, f)'
          PROVE  pc'[s] \in {"dedupe", "done", "crashed"}
      <4>1. CASE s = r
        BY <2>1, <3>3, <4>1, SettledDelivery DEF Settled
      <4>2. CASE s # r
        BY <2>1, <3>3, <4>2, OthersStay DEF Settled, Delivers
      <4>. QED
        BY <4>1, <4>2
    <3>. QED
      BY <3>1, <3>2, <3>3 DEF Settled
  <2>2. CASE CacheExpires \/ PeriodElapses \/ UNCHANGED vars
    BY <2>2 DEF CacheExpires, PeriodElapses, vars, requestVars, Settled, Delivers
  <2>. QED
    BY <2>1, <2>2 DEF Next
<1>. QED
  BY <1>1, TypeCorrect, PTL DEF Spec, SettledPurchaseIsFinal

\* A delivery has put its pack on the account once its grant is made, and in
\* the ledger once its row is written; a payment in the ledger was granted.
Booked(r, f) ==
    Delivers(r, f) =>
        /\ pc[r] \in {"row", "cacheDel", "done"} => granted[f] >= 1
        /\ pc[r] \in {"cacheDel", "done"} => f \in ledger.refs
        /\ pc[r] \notin {"cacheGet", "select", "fill"}

PurchasesBooked ==
    /\ \A f \in ledger.refs : granted[f] >= 1
    /\ \A r \in Requests, f \in Refs : Booked(r, f)

\* The step of a request leaves its own delivery booked,
LEMMA StepBooksOwn ==
    ASSUME TypeOK, PurchasesBooked, NEW r \in Requests, Step(r), NEW f \in Refs
    PROVE  Booked(r, f)'
<1>. USE DEF TypeOK, PurchasesBooked, Booked, Delivers, Go
<1>1. granted[f] \in Nat /\ granted'[f] >= granted[f] /\ ledger.refs \subseteq ledger'.refs
  BY GrantsOfStep, RefsStay
<1>2. CASE Arrive(r)
  BY <1>2, <1>1 DEF Arrive, Ops
<1>3. CASE GrantExists(r)
  BY <1>3, <1>1 DEF GrantExists
<1>4. CASE GrantCredits(r)
  BY <1>4, <1>1 DEF GrantCredits
<1>5. CASE WriteLedger(r)
  BY <1>5, <1>1 DEF WriteLedger
<1>6. CASE CacheDel(r)
  BY <1>6, <1>1 DEF CacheDel
<1>7. CASE SelectAccount(r) \/ InsertAccount(r) \/ SeedRow(r) \/ Crash(r)
  BY <1>7, <1>1 DEF SelectAccount, InsertAccount, SeedRow, Crash
<1>8. CASE CacheGet(r) \/ SelectBalance(r) \/ CacheSet(r)
  BY <1>8, <1>1 DEF CacheGet, SelectBalance, CacheSet
<1>9. CASE Debit(r) \/ ResetIfElapsed(r) \/ SetPlan(r) \/ SetOverage(r)
  BY <1>9, <1>1 DEF Debit, ResetIfElapsed, SetPlan, SetOverage
<1>. QED
  BY <1>2, <1>3, <1>4, <1>5, <1>6, <1>7, <1>8, <1>9 DEF Step

\* and a reference it adds to the ledger is of a payment that was granted.
LEMMA StepBooksRefs ==
    ASSUME TypeOK, PurchasesBooked, NEW r \in Requests, Step(r), NEW f \in ledger'.refs
    PROVE  f \in Refs /\ granted'[f] >= 1
<1>. USE DEF TypeOK, PurchasesBooked, Booked, Delivers
<1>1. CASE WriteLedger(r)
  <2>1. f \in ledger.refs \/ (pc[r] = "row" /\ op[r].kind = "fulfil" /\ f = op[r].ref)
    BY <1>1 DEF WriteLedger
  <2>2. granted' = granted
    BY <1>1 DEF WriteLedger
  <2>. QED
    BY <2>1, <2>2, OpFields
<1>2. CASE ~WriteLedger(r)
  <2>1. f \in ledger.refs
    BY <1>2 DEF Step, Arrive, GrantExists, CacheGet, SelectAccount, InsertAccount, SeedRow,
                Debit, ResetIfElapsed, SelectBalance, CacheSet, GrantCredits, SetPlan,
                SetOverage, CacheDel, Crash
  <2>. QED
    BY <2>1, GrantsOfStep
<1>. QED
  BY <1>1, <1>2

\* stripe.ts:23-43: a webhook delivery that was carried through left its pack
\* on the account and in the ledger, or found that an earlier one had.
THEOREM DeliveriesAreBooked == Spec => []AnsweredPurchaseIsBooked
<1>1. Init => PurchasesBooked
  BY DEF Init, PurchasesBooked, Booked, Delivers
<1>2. TypeOK /\ PurchasesBooked /\ [Next]_vars => PurchasesBooked'
  <2>. SUFFICES ASSUME TypeOK, PurchasesBooked, [Next]_vars PROVE PurchasesBooked'
    OBVIOUS
  <2>1. ASSUME NEW r \in Requests, Step(r) PROVE PurchasesBooked'
    <3>1. ASSUME NEW s \in Requests \ {r}, NEW f \in Refs PROVE Booked(s, f)'
      <4>1. Booked(s, f) /\ pc'[s] = pc[s] /\ op'[s] = op[s]
        BY <2>1, OthersStay DEF PurchasesBooked
      <4>2. granted[f] \in Nat /\ (granted[f] >= 1 => granted'[f] >= 1)
        BY <2>1, GrantsOfStep DEF TypeOK
      <4>3. f \in ledger.refs => f \in ledger'.refs
        BY <2>1, RefsStay
      <4>. QED
        BY <4>1, <4>2, <4>3, Zenon DEF Booked, Delivers
    <3>. QED
      BY <2>1, <3>1, StepBooksOwn, StepBooksRefs DEF PurchasesBooked
  <2>2. CASE CacheExpires \/ PeriodElapses \/ UNCHANGED vars
    BY <2>2 DEF CacheExpires, PeriodElapses, vars, requestVars, PurchasesBooked, Booked, Delivers
  <2>. QED
    BY <2>1, <2>2 DEF Next
<1>3. PurchasesBooked => AnsweredPurchaseIsBooked
  BY DEF PurchasesBooked, Booked, AnsweredPurchaseIsBooked
<1>. QED
  BY <1>1, <1>2, <1>3, TypeCorrect, PTL DEF Spec
-----------------------------------------------------------------------------
(* The balance cache.                                                      *)

\* A request that changes the account has its invalidation before it.
LEMMA MutationHasInvalidation ==
    ASSUME TypeOK, StartedOnOpen, open, NEW r \in Requests, Step(r)
    PROVE  acct' = acct \/ pc'[r] \in {"row", "cacheDel"}
<1>. USE DEF TypeOK, Go, accountVars
<1>1. CASE InsertAccount(r)
  BY <1>1 DEF InsertAccount
<1>2. CASE Debit(r) \/ ResetIfElapsed(r) \/ GrantCredits(r) \/ SetPlan(r) \/ SetOverage(r)
  BY <1>2 DEF Debit, ResetIfElapsed, GrantCredits, SetPlan, SetOverage
<1>3. CASE ~(\/ InsertAccount(r) \/ Debit(r) \/ ResetIfElapsed(r) \/ GrantCredits(r)
             \/ SetPlan(r) \/ SetOverage(r))
  BY <1>3 DEF Step, Arrive, GrantExists, CacheGet, SelectAccount, SeedRow, SelectBalance,
              CacheSet, WriteLedger, CacheDel, Crash
<1>. QED
  BY <1>1, <1>2, <1>3

\* What a failing DEL leaves counts as stale.
LEMMA MarkedAreStale ==
    ASSUME TypeOK
    PROVE  \A e \in {[d EXCEPT !.fresh = FALSE] : d \in cache} : ~e.fresh
<1>. SUFFICES ASSUME NEW d \in cache PROVE ~[d EXCEPT !.fresh = FALSE].fresh
  OBVIOUS
<1>1. d \in [acct : Account, fresh : BOOLEAN]
  BY DEF TypeOK
<1>. QED
  BY <1>1

Invalidating == {"row", "cacheDel", "crashed"}

\* A request leaves these states only by removing or marking every entry.
LEMMA InvalidationRemoves ==
    ASSUME TypeOK, NEW r \in Requests, Step(r), pc[r] \in Invalidating
    PROVE  pc'[r] \in Invalidating \/ \A e \in cache' : ~e.fresh
<1>. USE DEF TypeOK, Go, Invalidating
<1>1. CASE CacheDel(r)
  BY <1>1, MarkedAreStale DEF CacheDel
<1>2. CASE WriteLedger(r) \/ Crash(r)
  BY <1>2 DEF WriteLedger, Crash
<1>3. CASE ~CacheDel(r) /\ ~WriteLedger(r) /\ ~Crash(r)
  BY <1>3 DEF Step, Arrive, GrantExists, CacheGet, SelectAccount, InsertAccount, SeedRow,
              Debit, ResetIfElapsed, SelectBalance, CacheSet, GrantCredits, SetPlan, SetOverage
<1>. QED
  BY <1>1, <1>2, <1>3

\* An entry a step leaves was there before, is not fresh, or is the account.
LEMMA EntriesOfStep ==
    ASSUME TypeOK, NEW r \in Requests, Step(r), NEW e \in cache', e.fresh
    PROVE  e \in cache \/ (pc[r] = "fill" /\ e.acct = acct /\ acct' = acct)
<1>. USE DEF TypeOK, accountVars
<1>1. CASE CacheSet(r)
  <2>1. pc[r] = "fill" /\ acct' = acct
    BY <1>1 DEF CacheSet
  <2>2. e \in cache \/ e = [acct |-> seen[r], fresh |-> (seen[r] = acct)]
    BY <1>1 DEF CacheSet
  <2>3. CASE e = [acct |-> seen[r], fresh |-> (seen[r] = acct)]
    <3>1. e.acct = seen[r] /\ e.fresh = (seen[r] = acct)
      BY <2>3
    <3>2. seen[r] = acct
      BY <3>1, Zenon
    <3>. QED
      BY <2>1, <3>1, <3>2
  <2>. QED
    BY <2>2, <2>3
<1>2. CASE CacheDel(r)
  BY <1>2, MarkedAreStale DEF CacheDel
<1>3. CASE ~CacheSet(r) /\ ~CacheDel(r)
  BY <1>3 DEF Step, Arrive, GrantExists, CacheGet, SelectAccount, InsertAccount, SeedRow,
              Debit, ResetIfElapsed, SelectBalance, GrantCredits, SetPlan, SetOverage,
              WriteLedger, Crash
<1>. QED
  BY <1>1, <1>2, <1>3

CacheInv == (cache # {} => open) /\ InvalidationFollowsMutation

\* A step of one request keeps fresh entries right or about to be removed.
LEMMA StepInvalidates ==
    ASSUME LedgerInv, CacheInv, NEW r \in Requests, Step(r)
    PROVE  CacheInv'
<1>. USE DEF LedgerInv, CacheInv
<1>1. cache' # {} => open'
  <2>1. open => open'
    BY StepSimulates, Zenon DEF Next, ANext, Open, Renew, PeriodEnds, Charge, Grant,
                                ChangePlan, ChangeSpendCap, accountVars
  <2>2. pc[r] = "fill" => open
    BY DEF StartedOnOpen, PastAccount
  <2>3. cache' = cache \/ open
    BY <2>2 DEF Step, Arrive, GrantExists, CacheGet, SelectAccount, InsertAccount, SeedRow,
                Debit, ResetIfElapsed, SelectBalance, CacheSet, GrantCredits, SetPlan,
                SetOverage, WriteLedger, CacheDel, Crash, StartedOnOpen, PastAccount
  <2>. QED
    BY <2>1, <2>3
<1>2. ASSUME NEW e \in cache', e.fresh, e.acct # acct'
      PROVE  \E s \in Requests : pc'[s] \in Invalidating
  <2>1. e \in cache
    BY <1>2, EntriesOfStep
  <2>2. open
    BY <2>1
  <2>3. CASE pc'[r] \in {"row", "cacheDel"}
    BY <2>3 DEF Invalidating
  <2>4. CASE acct' = acct
    <3>1. PICK s \in Requests : pc[s] \in Invalidating
      BY <1>2, <2>1, <2>4 DEF InvalidationFollowsMutation, Invalidating
    <3>2. CASE s = r
      BY <1>2, <3>1, <3>2, InvalidationRemoves
    <3>3. CASE s # r
      BY <3>1, <3>3, OthersStay
    <3>. QED
      BY <3>2, <3>3
  <2>. QED
    BY <2>2, <2>3, <2>4, MutationHasInvalidation
<1>. QED
  BY <1>1, <1>2 DEF InvalidationFollowsMutation, Invalidating

\* creditLedger.ts:190: whatever reads and mutations interleave, an entry that
\* was right when it was stored is not left behind by a mutation.
THEOREM MutationsInvalidate == Spec => []InvalidationFollowsMutation
<1>1. Init => CacheInv
  BY DEF Init, CacheInv, InvalidationFollowsMutation
<1>2. LedgerInv /\ CacheInv /\ [Next]_vars => CacheInv'
  <2>. SUFFICES ASSUME LedgerInv, CacheInv, [Next]_vars PROVE CacheInv'
    OBVIOUS
  <2>1. CASE CacheExpires \/ PeriodElapses \/ UNCHANGED vars
    BY <2>1 DEF CacheExpires, PeriodElapses, PeriodEnds, vars, requestVars, accountVars,
                CacheInv, InvalidationFollowsMutation
  <2>. QED
    BY <2>1, StepInvalidates DEF Next
<1>. QED
  BY <1>1, <1>2, LedgerInvariant, PTL DEF Spec, CacheInv
-----------------------------------------------------------------------------
(* Sums over the requests: the induction over finite sets, that the fold   *)
(* has a value, and what a new value of one argument does to it.           *)

\* Pairs in order.
Below == {ss \in Nat \X Nat : ss[1] < ss[2]}

\* A set of natural numbers has a least one.
LEMMA LeastNumber == ASSUME NEW T \in SUBSET Nat, T # {} PROVE \E x \in T : \A y \in T : x <= y
<1>1. IsWellFoundedOn(Below, Nat)
  BY NatLessThanWellFounded DEF OpToRel, Below
<1>2. PICK x \in T : \A y \in T : ~(<<y, x>> \in Below)
  BY <1>1, WFMin
<1>3. ASSUME NEW y \in T PROVE x <= y
  <2>1. x \in Nat /\ y \in Nat /\ <<y, x>> \notin Below
    BY <1>2
  <2>. QED
    BY <2>1 DEF Below
<1>. QED
  BY <1>3

\* Of a set of finite sets some member has none of its parts in it.
LEMMA SmallestSet ==
    ASSUME NEW D, IsFiniteSet(D), NEW B \in SUBSET SUBSET D, B # {}
    PROVE  \E s \in B : \A x \in s : s \ {x} \notin B
<1>. DEFINE T == {Cardinality(s) : s \in B}
<1>1. \A s \in SUBSET D : IsFiniteSet(s) /\ Cardinality(s) \in Nat
  BY FS_Subset, FS_CardinalityType
<1>2. T \in SUBSET Nat /\ T # {}
  BY <1>1
<1>3. PICK n \in T : \A m \in T : n <= m
  BY <1>2, LeastNumber
<1>4. PICK s \in B : Cardinality(s) = n
  BY <1>3
<1>5. ASSUME NEW x \in s, s \ {x} \in B PROVE FALSE
  <2>1. Cardinality(s \ {x}) = n - 1
    BY <1>1, <1>4, FS_RemoveElement
  <2>2. Cardinality(s \ {x}) \in T
    BY <1>5
  <2>3. n <= n - 1 /\ n \in Nat
    <3>. HIDE DEF T
    <3>. QED
      BY <1>2, <1>3, <2>1, <2>2
  <2>. QED
    BY <2>3
<1>. QED
  BY <1>5

\* What SumFunction computes: the partial sums over the sets that remain when
\* one argument after the other is picked.
PickOf(s) == CHOOSE x \in s : TRUE
Partial(f, D, g) ==
    [s \in SUBSET D |-> IF s = {} THEN 0 ELSE f[PickOf(s)] + g[s \ {PickOf(s)}]]
Partials(f, D) == CHOOSE g : g = Partial(f, D, g)

\* SumFunction is a fold, and a fold a function defined by recursion.
LEMMA SumIsPartial == ASSUME NEW f PROVE SumFunction(f) = Partials(f, DOMAIN f)[DOMAIN f]
BY DEF SumFunction, SumFunctionOnSet, FoldFunctionOnSet, MapThenFoldSet, Partials, Partial,
       PickOf

\* The partial sums exist.
LEMMA PartialsExist ==
    ASSUME NEW D, IsFiniteSet(D), NEW f \in [D -> Int]
    PROVE  \E g \in [SUBSET D -> Int] : g = Partial(f, D, g)
<1>. DEFINE Small(n) == {s \in SUBSET D : Cardinality(s) <= n}
            Sums(n, g) == \A s \in Small(n) :
                g[s] = IF s = {} THEN 0 ELSE f[PickOf(s)] + g[s \ {PickOf(s)}]
            Bad == {n \in Nat : \A g \in [Small(n) -> Int] : ~Sums(n, g)}
<1>1. \A s \in SUBSET D : IsFiniteSet(s) /\ Cardinality(s) \in Nat
  BY FS_Subset, FS_CardinalityType
<1>2. \A s \in SUBSET D : s # {} => PickOf(s) \in s
  BY DEF PickOf
<1>3. ASSUME NEW s \in SUBSET D, s # {}
      PROVE  /\ s \ {PickOf(s)} \in SUBSET D
             /\ Cardinality(s \ {PickOf(s)}) = Cardinality(s) - 1
  BY <1>1, <1>2, <1>3, FS_RemoveElement
<1>4. Bad = {}
  <2>1. SUFFICES ASSUME Bad # {} PROVE FALSE
    OBVIOUS
  <2>2. PICK n \in Bad : \A m \in Bad : n <= m
    <3>. HIDE DEF Small, Sums
    <3>. QED
      BY <2>1, LeastNumber
  <2>3. CASE n = 0
    <3>1. \A s \in Small(0) : s = {}
      BY <1>1, FS_EmptySet
    <3>. DEFINE g == [s \in Small(0) |-> 0]
    <3>2. Sums(0, g) /\ g \in [Small(0) -> Int]
      BY <3>1
    <3>. HIDE DEF g, Small, Sums
    <3>. QED
      BY <2>2, <2>3, <3>2
  <2>4. CASE n # 0
    <3>1. n \in Nat /\ n - 1 \in Nat
      BY <2>2, <2>4
    <3>2. n - 1 \notin Bad
      <4>. HIDE DEF Bad
      <4>. QED
        BY <2>2, <3>1
    <3>3. PICK g \in [Small(n - 1) -> Int] : Sums(n - 1, g)
      <4>. HIDE DEF Small, Sums
      <4>. QED
        BY <3>1, <3>2 DEF Bad
    <3>. DEFINE h == [s \in Small(n) |->
                        IF s = {} THEN 0 ELSE f[PickOf(s)] + g[s \ {PickOf(s)}]]
    <3>4. ASSUME NEW s \in Small(n), s # {} PROVE s \ {PickOf(s)} \in Small(n - 1)
      BY <1>1, <1>3, <3>1, <3>4
    <3>5. h \in [Small(n) -> Int]
      <4>1. ASSUME NEW s \in Small(n), s # {} PROVE f[PickOf(s)] + g[s \ {PickOf(s)}] \in Int
        <5>1. PickOf(s) \in D
          BY <1>2, <4>1
        <5>2. g[s \ {PickOf(s)}] \in Int /\ f[PickOf(s)] \in Int
          BY <3>4, <4>1, <5>1
        <5>. QED
          BY <5>2
      <4>. QED
        BY <4>1
    <3>6. ASSUME NEW s \in Small(n - 1) PROVE s \in Small(n) /\ h[s] = g[s]
      <4>1. s \in Small(n)
        BY <1>1, <3>1
      <4>. QED
        BY <4>1, <3>3
    <3>7. Sums(n, h)
      <4>. SUFFICES ASSUME NEW s \in Small(n), s # {}
                    PROVE  h[s] = f[PickOf(s)] + h[s \ {PickOf(s)}]
        OBVIOUS
      <4>1. h[s \ {PickOf(s)}] = g[s \ {PickOf(s)}]
        <5>. HIDE DEF h, Small
        <5>. QED
          BY <3>4, <3>6
      <4>. QED
        BY <4>1
    <3>. HIDE DEF h, Sums, Small
    <3>. QED
      BY <2>2, <3>5, <3>7
  <2>. QED
    BY <2>3, <2>4
<1>5. Cardinality(D) \in Nat
  BY <1>1
<1>6. PICK g \in [Small(Cardinality(D)) -> Int] : Sums(Cardinality(D), g)
  BY <1>4, <1>5
<1>7. Small(Cardinality(D)) = SUBSET D
  BY FS_Subset
<1>8. g \in [SUBSET D -> Int] /\ g = Partial(f, D, g)
  BY <1>6, <1>7 DEF Partial
<1>. QED
  BY <1>8

\* The partial sums of f over the parts of its domain.
AddsUp(f, D, g) ==
    /\ g \in [SUBSET D -> Int] /\ g[{}] = 0 /\ g[D] = SumFunction(f)
    /\ \A s \in (SUBSET D) \ {{}} : g[s] = f[PickOf(s)] + g[s \ {PickOf(s)}]

\* What is picked is one of them.
LEMMA PickIn ==
    ASSUME NEW D, NEW s \in SUBSET D, s # {}
    PROVE  PickOf(s) \in s /\ PickOf(s) \in D /\ s \ {PickOf(s)} \in SUBSET D
BY DEF PickOf

\* And they are what they are defined to be.
LEMMA PartialSums ==
    ASSUME NEW D, IsFiniteSet(D), NEW f \in [D -> Int]
    PROVE  AddsUp(f, D, Partials(f, D))
<1>. DEFINE g == Partials(f, D)
            Bad == {s \in SUBSET D : g[s] \notin Int}
<1>1. g = Partial(f, D, g)
  BY PartialsExist DEF Partials
<1>2. g[D] = SumFunction(f)
  <2>1. DOMAIN f = D
    OBVIOUS
  <2>. QED
    BY <2>1, SumIsPartial
<1>. HIDE DEF g
<1>3. g = [s \in SUBSET D |-> g[s]]
  BY <1>1 DEF Partial
<1>4. ASSUME NEW s \in SUBSET D
      PROVE  g[s] = IF s = {} THEN 0 ELSE f[PickOf(s)] + g[s \ {PickOf(s)}]
  BY <1>1 DEF Partial
<1>5. Bad = {}
  <2>. SUFFICES ASSUME Bad # {} PROVE FALSE
    OBVIOUS
  <2>1. PICK s \in Bad : \A x \in s : s \ {x} \notin Bad
    <3>1. Bad \in SUBSET SUBSET D
      OBVIOUS
    <3>. HIDE DEF Bad
    <3>. QED
      BY <3>1, SmallestSet
  <2>2. s \in SUBSET D /\ g[s] \notin Int
    BY <2>1
  <2>3. g[s] = IF s = {} THEN 0 ELSE f[PickOf(s)] + g[s \ {PickOf(s)}]
    BY <1>4, <2>2
  <2>4. s # {}
    BY <2>2, <2>3
  <2>5. PickOf(s) \in s /\ PickOf(s) \in D /\ s \ {PickOf(s)} \in SUBSET D
    BY <2>2, <2>4, PickIn
  <2>6. f[PickOf(s)] \in Int /\ g[s \ {PickOf(s)}] \in Int
    BY <2>1, <2>5
  <2>. QED
    BY <2>2, <2>3, <2>4, <2>6
<1>6. g \in [SUBSET D -> Int]
  BY <1>3, <1>5
<1>. QED
  BY <1>2, <1>4, <1>6 DEF g, AddsUp

\* The sum of a function changes with a value by as much as the value.
LEMMA SumOfUpdate ==
    ASSUME NEW D, IsFiniteSet(D), NEW f \in [D -> Int], NEW e \in [D -> Int], NEW r \in D,
           \A x \in D \ {r} : e[x] = f[x]
    PROVE  SumFunction(f) \in Int /\ SumFunction(e) = SumFunction(f) - f[r] + e[r]
<1>. DEFINE g == Partials(f, D)
            h == Partials(e, D)
            Right(s) == h[s] = IF r \in s THEN g[s] - f[r] + e[r] ELSE g[s]
            Bad == {s \in SUBSET D : ~Right(s)}
<1>1. AddsUp(f, D, g) /\ AddsUp(e, D, h)
  BY PartialSums
<1>. HIDE DEF g, h
<1>2. Bad = {}
  <2>. SUFFICES ASSUME Bad # {} PROVE FALSE
    OBVIOUS
  <2>1. PICK s \in Bad : \A x \in s : s \ {x} \notin Bad
    <3>1. Bad \in SUBSET SUBSET D
      OBVIOUS
    <3>. HIDE DEF Bad
    <3>. QED
      BY <3>1, SmallestSet
  <2>2. s \in SUBSET D /\ ~Right(s)
    BY <2>1
  <2>3. s # {}
    BY <1>1, <2>2 DEF AddsUp
  <2>. DEFINE x == PickOf(s)
  <2>4. x \in s /\ x \in D /\ s \ {x} \in SUBSET D
    BY <2>2, <2>3, PickIn
  <2>5. g[s] = f[x] + g[s \ {x}] /\ h[s] = e[x] + h[s \ {x}]
    BY <1>1, <2>2, <2>3 DEF AddsUp
  <2>. HIDE DEF x
  <2>6. Right(s \ {x})
    BY <2>1, <2>4
  <2>7. g[s \ {x}] \in Int /\ f[x] \in Int /\ f[r] \in Int /\ e[r] \in Int
    BY <1>1, <2>4 DEF AddsUp
  <2>8. CASE x = r
    BY <2>2, <2>4, <2>5, <2>6, <2>7, <2>8
  <2>9. CASE x # r
    BY <2>2, <2>4, <2>5, <2>6, <2>7, <2>9
  <2>. QED
    BY <2>8, <2>9
<1>3. Right(D)
  BY <1>2
<1>. QED
  BY <1>1, <1>3 DEF AddsUp

\* Nothing adds up to nothing.
LEMMA SumOfZeros ==
    ASSUME NEW D, IsFiniteSet(D)
    PROVE  SumFunction([x \in D |-> 0]) = 0
<1>. DEFINE f == [x \in D |-> 0]
            g == Partials(f, D)
            Bad == {s \in SUBSET D : g[s] # 0}
<1>1. f \in [D -> Int] /\ \A x \in D : f[x] = 0
  OBVIOUS
<1>. HIDE DEF f
<1>2. AddsUp(f, D, g)
  BY <1>1, PartialSums
<1>. HIDE DEF g
<1>3. Bad = {}
  <2>. SUFFICES ASSUME Bad # {} PROVE FALSE
    OBVIOUS
  <2>1. PICK s \in Bad : \A x \in s : s \ {x} \notin Bad
    <3>1. Bad \in SUBSET SUBSET D
      OBVIOUS
    <3>. HIDE DEF Bad
    <3>. QED
      BY <3>1, SmallestSet
  <2>2. s \in SUBSET D /\ g[s] # 0
    BY <2>1
  <2>3. s # {}
    BY <1>2, <2>2 DEF AddsUp
  <2>4. PickOf(s) \in s /\ PickOf(s) \in D /\ s \ {PickOf(s)} \in SUBSET D
    BY <2>2, <2>3, PickIn
  <2>5. g[s \ {PickOf(s)}] = 0 /\ f[PickOf(s)] = 0
    BY <1>1, <2>1, <2>4
  <2>6. g[s] = f[PickOf(s)] + g[s \ {PickOf(s)}]
    BY <1>2, <2>2, <2>3 DEF AddsUp
  <2>. QED
    BY <2>2, <2>5, <2>6
<1>. QED
  BY <1>2, <1>3 DEF f, AddsUp
-----------------------------------------------------------------------------
(* The books.                                                              *)

\* What of the balance no booked change explains.
Unexplained == Balance(acct) - ledger.total - offBook

\* A request owes a ledger row only between its statement and that row.
Owing == \A r \in Requests : pc[r] \notin {"row", "seedRow", "crashed"} => row[r] = 0

\* Before the account exists nothing is booked, and then what is unexplained is owed.
BooksInv ==
    /\ Owing
    /\ ~open => row = [r \in Requests |-> 0] /\ ledger.total = 0 /\ offBook = 0
    /\ LedgerExplainsBalance

\* A step of r makes it owe v, for as much as is unexplained by the step.
Owes(r, v) ==
    /\ v \in Nat /\ row' = [row EXCEPT ![r] = v]
    /\ open => Unexplained' = Unexplained - row[r] + v
    /\ ~open /\ open' => Unexplained' = v - ledger.total - offBook
    /\ ~open' => v = row[r] /\ ledger'.total = ledger.total /\ offBook' = offBook

\* The parts of the account and of the books are numbers.
LEMMA BookTypes ==
    ASSUME TypeOK
    PROVE  /\ acct.allowance \in Nat /\ acct.pack \in Nat /\ acct.monthly \in Nat
           /\ ledger.total \in Int /\ offBook \in Int /\ Balance(acct) \in Int
           /\ row \in [Requests -> Int]
BY DEF TypeOK, Account, Balance

\* Every round trip books what it changes, or owes it.
LEMMA StepOwes ==
    ASSUME LedgerInv, Owing, NEW r \in Requests, Step(r)
    PROVE  \E v \in Nat : Owes(r, v)
<1>. USE DEF LedgerInv
<1>1. TypeOK /\ TypeOK'
  BY LedgerStep DEF Next
<1>2. row[r] \in Nat /\ row = [row EXCEPT ![r] = row[r]]
  BY <1>1 DEF TypeOK
<1>3. pc[r] \in PastAccount => open
  BY DEF StartedOnOpen
<1>. USE BookTypes
<1>4. CASE UNCHANGED <<open, row, ledger, offBook>> /\ Balance(acct)' = Balance(acct)
  BY <1>1, <1>2, <1>4 DEF Owes, Unexplained
<1>5. CASE InsertAccount(r) /\ ~open
  <2>1. /\ row' = [row EXCEPT ![r] = acct'.pack] /\ open' /\ acct'.pack \in Nat
        /\ ledger' = ledger /\ offBook' = offBook + acct'.allowance /\ acct'.allowance \in Nat
    BY <1>1, <1>5, BookTypes DEF InsertAccount, Open, TypeOK, Account
  <2>2. Unexplained' = acct'.pack - ledger.total - offBook
    BY <1>1, <2>1 DEF Unexplained, Balance
  <2>. QED
    BY <1>5, <2>1, <2>2 DEF Owes
<1>6. CASE SeedRow(r) \/ WriteLedger(r)
  <2>1. /\ row' = [row EXCEPT ![r] = 0] /\ UNCHANGED <<open, acct, offBook>>
        /\ ledger'.total = ledger.total + row[r] /\ open
    BY <1>1, <1>3, <1>6 DEF SeedRow, WriteLedger, accountVars, PastAccount, TypeOK
  <2>2. Unexplained' = Unexplained - row[r] + 0
    BY <1>1, <1>2, <2>1 DEF Unexplained, Balance
  <2>. QED
    BY <2>1, <2>2 DEF Owes
<1>7. CASE Debit(r) /\ Affordable(op[r].n)
  <2>. DEFINE c == op[r].n
  <2>1. /\ open /\ open' = open /\ row' = row /\ c \in Nat
        /\ acct' = [Current EXCEPT !.allowance = @ - FromAllowance(c),
                                   !.pack = @ - FromPack(c), !.used = @ + FromOverage(c)]
        /\ ledger'.total = ledger.total - c + (IF elapsed THEN acct.monthly ELSE 0)
        /\ offBook' = offBook + FromOverage(c) - (IF elapsed THEN acct.allowance ELSE 0)
    BY <1>1, <1>3, <1>7, OpFields DEF Debit, PastAccount, accountVars, TypeOK
  <2>2. /\ Current \in Account
        /\ FromAllowance(c) \in 0..c /\ FromPack(c) \in 0..c /\ FromOverage(c) \in 0..c
        /\ FromAllowance(c) + FromPack(c) + FromOverage(c) = c
    BY <1>1, <2>1, SplitAddsUp
  <2>3. /\ Current.pack = acct.pack
        /\ Current.allowance = IF elapsed THEN acct.monthly ELSE acct.allowance
    BY <1>1 DEF Current, Renewed, TypeOK, Account
  <2>4. Balance(acct)' = Current.allowance - FromAllowance(c) + Current.pack - FromPack(c)
    BY <2>1, <2>2 DEF Balance, Account
  <2>. HIDE DEF c
  <2>5. Unexplained' = Unexplained - row[r] + row[r]
    BY <1>1, <1>2, <2>1, <2>2, <2>3, <2>4 DEF Unexplained, Balance
  <2>. QED
    BY <1>2, <2>1, <2>5 DEF Owes
<1>8. CASE ResetIfElapsed(r) /\ elapsed
  <2>1. /\ row[r] = 0 /\ open /\ open' = open /\ row' = [row EXCEPT ![r] = acct.monthly]
        /\ acct' = Renewed(acct) /\ ledger' = ledger /\ offBook' = offBook - acct.allowance
    BY <1>8 DEF ResetIfElapsed, Renew, Owing
  <2>2. Balance(acct)' = acct.monthly + acct.pack
    BY <1>1, <2>1 DEF Balance, Renewed, TypeOK, Account
  <2>3. Unexplained' = Unexplained - row[r] + acct.monthly
    BY <1>1, <2>1, <2>2 DEF Unexplained, Balance
  <2>. QED
    BY <1>1, <2>1, <2>3 DEF Owes
<1>9. CASE GrantCredits(r)
  <2>1. /\ row[r] = 0 /\ open /\ open' = open /\ row' = [row EXCEPT ![r] = GrantSize(r)]
        /\ acct' = [acct EXCEPT !.pack = @ + GrantSize(r)]
        /\ ledger' = ledger /\ offBook' = offBook
    BY <1>9 DEF GrantCredits, Grant, Owing
  <2>. GrantSize(r) \in Nat
    <3>1. op[r] \in Ops
      BY <1>1 DEF TypeOK
    <3>. QED
      BY <1>9, <3>1, OpFields DEF GrantCredits, GrantSize
  <2>2. Balance(acct)' = Balance(acct) + GrantSize(r)
    BY <1>1, <2>1 DEF Balance, TypeOK, Account
  <2>3. Unexplained' = Unexplained - row[r] + GrantSize(r)
    BY <1>1, <2>1, <2>2 DEF Unexplained
  <2>. QED
    BY <2>1, <2>3 DEF Owes
<1>10. CASE SetPlan(r)
  <2>. DEFINE n == Allowance[op[r].plan]
  <2>1. /\ row[r] = 0 /\ open /\ open' = open /\ row' = [row EXCEPT ![r] = n]
        /\ acct' = [acct EXCEPT !.plan = op[r].plan, !.monthly = n, !.allowance = n, !.used = 0]
        /\ ledger' = ledger /\ offBook' = offBook - acct.allowance
    BY <1>10 DEF SetPlan, ChangePlan, Owing
  <2>. n \in Nat
    <3>1. op[r] \in Ops
      BY <1>1 DEF TypeOK
    <3>. QED
      BY <1>10, <3>1, OpFields DEF SetPlan
  <2>. HIDE DEF n
  <2>2. Balance(acct)' = n + acct.pack
    BY <1>1, <2>1 DEF Balance, TypeOK, Account
  <2>3. Unexplained' = Unexplained - row[r] + n
    BY <1>1, <2>1, <2>2 DEF Unexplained, Balance
  <2>. QED
    BY <2>1, <2>3 DEF Owes
<1>11. CASE SetOverage(r)
  <2>1. Balance(acct)' = Balance(acct) /\ UNCHANGED <<open, row, ledger, offBook>>
    BY <1>1, <1>11 DEF SetOverage, ChangeSpendCap, Balance, TypeOK, Account
  <2>. QED
    BY <1>4, <2>1
<1>12. CASE \/ Arrive(r) \/ GrantExists(r) \/ CacheGet(r) \/ SelectAccount(r)
            \/ SelectBalance(r) \/ CacheSet(r) \/ CacheDel(r) \/ Crash(r)
            \/ (InsertAccount(r) /\ open) \/ (ResetIfElapsed(r) /\ ~elapsed)
  <2>1. UNCHANGED <<open, acct, row, ledger, offBook>>
    BY <1>12 DEF Arrive, GrantExists, CacheGet, SelectAccount, SelectBalance, CacheSet,
                 CacheDel, Crash, InsertAccount, ResetIfElapsed, accountVars
  <2>. QED
    BY <1>4, <2>1
<1>13. CASE Debit(r) /\ ~Affordable(op[r].n)
  <2>1. UNCHANGED <<open, acct, row, ledger, offBook>>
    BY <1>13 DEF Debit, accountVars
  <2>. QED
    BY <1>4, <2>1
<1>. QED
  BY <1>5, <1>6, <1>7, <1>8, <1>9, <1>10, <1>11, <1>12, <1>13 DEF Step

\* A request that ends a round trip elsewhere owes nothing.
LEMMA StepOwing ==
    ASSUME LedgerInv, Owing, NEW r \in Requests, Step(r)
    PROVE  Owing'
<1>. USE DEF LedgerInv, TypeOK, Owing, Go
<1>1. \A s \in Requests \ {r} : pc'[s] = pc[s] /\ row'[s] = row[s]
  BY DEF Step, Arrive, GrantExists, CacheGet, SelectAccount, InsertAccount, SeedRow, Debit,
         ResetIfElapsed, SelectBalance, CacheSet, GrantCredits, SetPlan, SetOverage,
         WriteLedger, CacheDel, Crash
<1>2. pc'[r] \notin {"row", "seedRow", "crashed"} => row'[r] = 0
  <2>1. CASE InsertAccount(r)
    <3>1. CASE open
      BY <2>1, <3>1 DEF InsertAccount
    <3>2. CASE ~open
      <4>1. acct' \in Account
        BY LedgerStep DEF Next
      <4>. QED
        BY <2>1, <3>2, <4>1 DEF InsertAccount, Account
    <3>. QED
      BY <3>1, <3>2
  <2>2. CASE ~InsertAccount(r)
    BY <2>2 DEF Step, Arrive, GrantExists, CacheGet, SelectAccount, SeedRow, Debit,
         ResetIfElapsed, SelectBalance, CacheSet, GrantCredits, SetPlan, SetOverage,
         WriteLedger, CacheDel, Crash
  <2>. QED
    BY <2>1, <2>2
<1>. QED
  BY <1>1, <1>2

\* No step of a request loses the account of a credit.
LEMMA StepKeepsBooks ==
    ASSUME IsFiniteSet(Requests), LedgerInv, BooksInv, NEW r \in Requests, Step(r)
    PROVE  BooksInv'
<1>. USE DEF BooksInv
<1>1. PICK v \in Nat : Owes(r, v)
  BY StepOwes
<1>2. Owing'
  BY StepOwing
<1>3. TypeOK /\ TypeOK'
  BY LedgerStep DEF Next, LedgerInv
<1>4. open => open'
  BY <1>3, StepSimulates, Zenon DEF LedgerInv, Next, ANext, Open, Renew, PeriodEnds, Charge,
                      Grant, ChangePlan, ChangeSpendCap, accountVars
<1>5. SumFunction(row) \in Int /\ SumFunction(row)' = SumFunction(row) - row[r] + v
  <2>1. row' = [row EXCEPT ![r] = v] /\ v \in Int
    BY <1>1 DEF Owes
  <2>2. row \in [Requests -> Int]
    BY <1>3, BookTypes
  <2>3. row' \in [Requests -> Int] /\ row'[r] = v
    BY <2>1, <2>2
  <2>4. \A x \in Requests \ {r} : row'[x] = row[x]
    BY <2>1, <2>2
  <2>. QED
    BY <2>2, <2>3, <2>4, SumOfUpdate
<1>6. row[r] \in Int /\ ledger.total \in Int /\ offBook \in Int /\ Balance(acct) \in Int
  BY <1>3, BookTypes
<1>7. ledger'.total \in Int /\ offBook' \in Int /\ Balance(acct)' \in Int
  BY <1>3 DEF TypeOK, Account, Balance
<1>8. CASE open
  <2>1. Balance(acct) = ledger.total + offBook + SumFunction(row)
    BY <1>8 DEF LedgerExplainsBalance
  <2>2. Unexplained' = Unexplained - row[r] + v
    BY <1>1, <1>8 DEF Owes
  <2>3. Balance(acct)' = ledger'.total + offBook' + SumFunction(row)'
    BY <1>5, <1>6, <1>7, <2>1, <2>2 DEF Unexplained
  <2>. QED
    BY <1>2, <1>4, <1>8, <2>3 DEF LedgerExplainsBalance
<1>9. CASE ~open /\ open'
  <2>1. SumFunction(row) = 0 /\ row[r] = 0 /\ ledger.total = 0 /\ offBook = 0
    BY <1>9, SumOfZeros
  <2>2. Unexplained' = v
    BY <1>1, <1>9, <2>1 DEF Owes
  <2>3. Balance(acct)' = ledger'.total + offBook' + SumFunction(row)'
    BY <1>5, <1>7, <2>1, <2>2 DEF Unexplained
  <2>. QED
    BY <1>2, <1>9, <2>3 DEF LedgerExplainsBalance
<1>10. CASE ~open'
  <2>1. row' = row /\ ledger'.total = 0 /\ offBook' = 0 /\ row = [q \in Requests |-> 0]
    BY <1>1, <1>3, <1>4, <1>10 DEF Owes, TypeOK
  <2>. QED
    BY <1>2, <1>10, <2>1 DEF LedgerExplainsBalance
<1>. QED
  BY <1>4, <1>8, <1>9, <1>10

\* docs/pricing/IMPLEMENTATION.md:15: however many requests race, crash and retry, the
\* ledger explains every credit of the balance.
THEOREM BooksBalance == ASSUME IsFiniteSet(Requests) PROVE Spec => []LedgerExplainsBalance
<1>1. Init => BooksInv
  BY DEF Init, AInit, BooksInv, Owing, LedgerExplainsBalance
<1>2. LedgerInv /\ BooksInv /\ [Next]_vars => BooksInv'
  <2>. SUFFICES ASSUME LedgerInv, BooksInv, [Next]_vars PROVE BooksInv'
    OBVIOUS
  <2>1. CASE CacheExpires \/ PeriodElapses \/ UNCHANGED vars
    <3>1. UNCHANGED <<open, acct, pc, row, ledger, offBook>>
      BY <2>1 DEF CacheExpires, PeriodElapses, PeriodEnds, vars, requestVars, accountVars
    <3>. QED
      BY <3>1 DEF BooksInv, Owing, LedgerExplainsBalance
  <2>. QED
    BY <2>1, StepKeepsBooks DEF Next
<1>3. BooksInv => LedgerExplainsBalance
  BY DEF BooksInv
<1>. QED
  BY <1>1, <1>2, <1>3, LedgerInvariant, PTL DEF Spec
=============================================================================

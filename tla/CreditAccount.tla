---------------------------- MODULE CreditAccount ----------------------------
(***************************************************************************)
(* What the credit ledger promises: one organisation's credit account as a *)
(* sequence of indivisible operations.  A charge is described by the split *)
(* it may take (allowance first, then pack, then overage within the        *)
(* ceiling), not by how the split is computed.  CreditLedger, where every  *)
(* operation is several database and cache round trips of concurrent       *)
(* requests, is shown to implement this module.                            *)
(***************************************************************************)
EXTENDS Integers

CONSTANTS
    Plans,          \* plan tiers
    FreePlan,       \* the tier that comes with the lifetime grant
    DefaultPlan,    \* DEFAULT_PLAN, for an organisation whose profile is not read
    ProfileReadable,\* whether the profile's plan is there and its SELECT succeeds
    Allowance,      \* [Plans -> Nat]: PLAN_MONTHLY_ALLOWANCE
    LifetimeGrant,  \* FREE_LIFETIME_GRANT
    Costs,          \* amounts a request may charge
    Grants,         \* amounts a grant may add, pack sizes included
    Ceilings,       \* overage ceilings an admin may set
    NoCeiling       \* overage_ceiling IS NULL

ASSUME PlanAssumption == /\ FreePlan \in Plans /\ DefaultPlan \in Plans
                         /\ ProfileReadable \in BOOLEAN
                         /\ Allowance \in [Plans -> Nat]
                         /\ LifetimeGrant \in Nat
ASSUME AmountAssumption == /\ Costs \subseteq Nat
                           /\ Grants \subseteq Nat
                           /\ Ceilings \subseteq Nat
                           /\ NoCeiling \notin Nat

VARIABLES
    open,     \* the credit_accounts row exists
    acct,     \* that row
    profile,  \* org_profiles.plan_tier
    elapsed   \* NOW() - period_start >= PLAN_PERIOD_DAYS

accountVars == <<open, acct, profile, elapsed>>

Account == [plan : Plans, monthly : Nat, allowance : Nat, pack : Nat,
            enabled : BOOLEAN, ceiling : Ceilings \union {NoCeiling},
            used : Nat]

\* The row getOrCreateAccount inserts for an organisation on this plan.
NewAccount(plan) ==
    [plan |-> plan, monthly |-> Allowance[plan], allowance |-> Allowance[plan],
     pack |-> IF plan = FreePlan THEN LifetimeGrant ELSE 0,
     enabled |-> FALSE, ceiling |-> NoCeiling, used |-> 0]

\* resolvePlanTier: the profile's plan, or the default when it is not read.
SeedPlans == {profile} \union (IF ProfileReadable THEN {} ELSE {DefaultPlan})

Renewed(a) == [a EXCEPT !.allowance = a.monthly, !.used = 0]

\* The row a charge starts from: a period that ran out is renewed first.
Current == IF elapsed THEN Renewed(acct) ELSE acct

\* Overage may grow by n: opted in, and the ceiling is not passed.
OverageAllows(a, n) ==
    /\ a.enabled
    /\ a.ceiling = NoCeiling \/ a.used + n <= a.ceiling

Balance(a) == a.allowance + a.pack
-----------------------------------------------------------------------------
AInit ==
    /\ open = FALSE
    /\ profile \in Plans
    /\ acct = NewAccount(profile)
    /\ elapsed = FALSE

Open ==
    /\ ~open
    /\ open' = TRUE
    /\ \E plan \in SeedPlans : acct' = NewAccount(plan)
    /\ elapsed' = FALSE
    /\ UNCHANGED profile

\* n credits taken as a from the allowance, p from the pack, o as overage.
Split(n, a, p, o) ==
    /\ a + p + o = n
    /\ a <= Current.allowance /\ p <= Current.pack
    /\ p > 0 => a = Current.allowance
    /\ o > 0 => /\ p = Current.pack /\ a = Current.allowance
                /\ OverageAllows(Current, o)

\* A charge of n credits in full, or not at all.
Charge(n) ==
    /\ open
    /\ \E a, p, o \in 0..n :
        /\ Split(n, a, p, o)
        /\ acct' = [Current EXCEPT !.allowance = @ - a, !.pack = @ - p,
                                   !.used = @ + o]
    /\ elapsed' = FALSE
    /\ UNCHANGED <<open, profile>>

Renew ==
    /\ open /\ elapsed
    /\ acct' = Renewed(acct)
    /\ elapsed' = FALSE
    /\ UNCHANGED <<open, profile>>

Grant(n) ==
    /\ open
    /\ acct' = [acct EXCEPT !.pack = @ + n]
    /\ UNCHANGED <<open, profile, elapsed>>

ChangePlan(plan) ==
    /\ open
    /\ acct' = [acct EXCEPT !.plan = plan, !.monthly = Allowance[plan],
                            !.allowance = Allowance[plan], !.used = 0]
    /\ profile' = plan
    /\ elapsed' = FALSE
    /\ UNCHANGED open

ChangeSpendCap(on, ceiling) ==
    /\ open
    /\ acct' = [acct EXCEPT !.enabled = on, !.ceiling = ceiling]
    /\ UNCHANGED <<open, profile, elapsed>>

PeriodEnds ==
    /\ open /\ ~elapsed
    /\ elapsed' = TRUE
    /\ UNCHANGED <<open, acct, profile>>

ANext ==
    \/ Open \/ Renew \/ PeriodEnds
    \/ \E n \in Costs : Charge(n)
    \/ \E n \in Grants : Grant(n)
    \/ \E plan \in Plans : ChangePlan(plan)
    \/ \E on \in BOOLEAN, c \in Ceilings \union {NoCeiling} : ChangeSpendCap(on, c)

ASpec == AInit /\ [][ANext]_accountVars
=============================================================================

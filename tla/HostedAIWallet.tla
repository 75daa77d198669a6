--------------------------- MODULE HostedAIWallet ---------------------------
(***************************************************************************)
(* The weekly hosted-AI allowance: personal and Space wallets, reservations *)
(* against them, and the settlement, release and refund of reservations.    *)
(*                                                                         *)
(* A wallet account is a user or a Space; a Space-attributed reservation    *)
(* holds the same amount in both.  Every database transaction is one        *)
(* action.  A reserving request takes three separate steps: the license     *)
(* read, the refresh of the personal wallet, the reservation itself, so the *)
(* plan it applies may be out of date by the time it is applied.            *)
(*                                                                         *)
(* Reservations are numbered by their idempotency key: key k belongs to one *)
(* member, one Space (or none) and one agent run.                           *)
(***************************************************************************)
EXTENDS Sums

CONSTANTS
    Users,              \* members with a personal wallet
    Spaces,             \* Spaces with a wallet of their own
    NoSpace,            \* the empty space_id of a personal reservation
    NKeys,              \* idempotency keys are 1..NKeys
    UserOf,             \* the member a key's reservation is for
    SpaceOf,            \* the Space it is attributed to, or NoSpace
    Runs,               \* agent runs
    RunOf,              \* the run whose key prefix the key carries
    Plans,              \* license states: a tier, a trial, an expired trial
    PersonalAllowance,  \* WeeklyHostedAIAllowance of the license's tier
    SpaceAllowance,     \* SpaceWeeklyHostedAIAllowance of the owner's license,
                        \* which also looks at the end of a trial
    Amounts,            \* amounts a caller may ask to reserve
    Charges,            \* charges a provider call may come to
    Workers,            \* requests in flight
    MaxWeek             \* bound on weekly resets

Keys == 1..NKeys
Accounts == Users \cup Spaces

ASSUME WalletConstants ==
    /\ NKeys \in Nat
    /\ Users \cap Spaces = {}
    /\ NoSpace \notin Spaces
    /\ UserOf \in [Keys -> Users]
    /\ SpaceOf \in [Keys -> Spaces \cup {NoSpace}]
    /\ RunOf \in [Keys -> Runs]
    /\ PersonalAllowance \in [Plans -> Nat]
    /\ SpaceAllowance \in [Plans -> Nat]
    /\ Amounts \subseteq Nat \ {0}
    /\ Charges \subseteq Nat \ {0}
    /\ MaxWeek \in Nat

VARIABLES
    wallet,   \* hosted_ai_wallets and space_hosted_ai_wallets, by account
    res,      \* hosted_ai_reservations, by idempotency key
    stale,    \* keys whose row is older than fifteen minutes
    charged,  \* what the consumption ledger row of a key charged, or NoRow
    refunds,  \* keys that have a refund ledger row
    ledger,   \* sum of a member's ledger deltas since the last weekly grant
    spent,    \* history: what settlements took from an account, net of
              \* refunds, since its allowance was last granted in full
    plan,     \* licenses: the tier of every user
    owner,    \* spaces.owner_user_id
    week,     \* the calendar week; a reset is due when the week reaches it
    req       \* requests between their steps

vars == <<wallet, res, stale, charged, refunds, ledger, spent,
          plan, owner, week, req>>

Statuses == {"none", "reserved", "released", "settled", "refunded"}
NoRow == -1
Idle == [stage |-> "idle"]
Requests == [stage : {"license", "wallet"}, key : Keys, plan : Plans, now : Nat]
Wallets == [open : BOOLEAN, allowance : Nat, remaining : Nat,
            reserved : Nat, reset : Nat]

-----------------------------------------------------------------------------
(* Arithmetic helpers.                                                      *)

NoClamp(n) == n
AtLeastZero(n) == IF n < 0 THEN 0 ELSE n
Least(m, n) == IF m <= n THEN m ELSE n

\* The wallets a key's reservation is held in.
AccountsOf(k) == {UserOf[k]} \cup ({SpaceOf[k]} \ {NoSpace})

\* What each key holds in account a, counting only the keys of the set ks.
Hold(rows, a, ks) ==
    [k \in Keys |-> IF k \in ks /\ a \in AccountsOf(k) /\ rows[k].status = "reserved"
                    THEN rows[k].amount ELSE 0]

IgnoreReserved(w) == w.remaining
Available(w) == AtLeastZero(w.remaining - w.reserved)

-----------------------------------------------------------------------------
(* Reclaiming and refreshing wallets.                                       *)

AnyStatus(ks) == ks

\* The keys a reclaim of ks really changes: those still reserved.
Reserved(ks) == {k \in ks : res[k].status = "reserved"}

\* UPDATE hosted_ai_reservations SET status='released' ... WHERE status='reserved'
ReleasedRows(ks) ==
    [k \in Keys |-> IF k \in Reserved(ks) THEN [res[k] EXCEPT !.status = "released"]
                                          ELSE res[k]]

ReleasedPersonalOnly(ks) ==
    [a \in Accounts |-> IF a \in Spaces THEN wallet[a] ELSE [wallet[a] EXCEPT
        !.reserved = AtLeastZero(@ - SumTo(Hold(res, a, ks), NKeys))]]

\* reserved_microusd = GREATEST(0, reserved_microusd - total) in every wallet
\* the released rows were held in.
ReleasedWallets(ks) ==
    [a \in Accounts |-> [wallet[a] EXCEPT
        !.reserved = AtLeastZero(@ - SumTo(Hold(res, a, ks), NKeys))]]

UpgradeKeepsRemaining(w, allowance) == Least(w.remaining, allowance)

Granted(w, now) == ~w.open \/ w.reset <= now

\* Applying an allowance to a wallet at week now: the row is created with the
\* full allowance, granted afresh when its reset is due, and otherwise adjusted
\* to a changed plan by carrying the used part over, clamped at zero.
RemainingAfter(w, allowance) ==
    IF allowance = w.allowance THEN w.remaining
    ELSE AtLeastZero(allowance - AtLeastZero(w.allowance - w.remaining))

Refreshed(w, allowance, now) ==
    [w EXCEPT !.open = TRUE,
              !.allowance = allowance,
              !.remaining = IF Granted(w, now) THEN allowance
                            ELSE RemainingAfter(w, allowance),
              !.reset = IF Granted(w, now) THEN now + 1 ELSE @]

StalePersonal(u) ==
    {k \in stale : UserOf[k] = u /\ SpaceOf[k] = NoSpace}

StaleOfSpace(s) == {k \in stale : SpaceOf[k] = s}

\* The wallets after refreshSpaceHostedAIWalletTx: every stale reservation of
\* the Space is reclaimed from both sides, then the owner's plan is applied.
SpaceRefreshed(s, now) ==
    LET w == ReleasedWallets(StaleOfSpace(s))
    IN [w EXCEPT ![s] = Refreshed(@, SpaceAllowance[plan[owner[s]]], now)]

SpaceSpent(s, now) ==
    [spent EXCEPT ![s] = IF Granted(wallet[s], now) THEN 0 ELSE @]

-----------------------------------------------------------------------------
Init ==
    /\ wallet = [a \in Accounts |-> [open |-> FALSE, allowance |-> 0,
                    remaining |-> 0, reserved |-> 0, reset |-> 0]]
    /\ res = [k \in Keys |-> [status |-> "none", amount |-> 0]]
    /\ stale = {}
    /\ charged = [k \in Keys |-> NoRow]
    /\ refunds = {}
    /\ ledger = [u \in Users |-> 0]
    /\ spent = [a \in Accounts |-> 0]
    /\ plan \in [Users -> Plans]
    /\ owner \in [Spaces -> Users]
    /\ week = 0
    /\ req = [w \in Workers |-> Idle]

\* CreditMeter.reserve reads the license and the clock before it reserves.
ReadLicense(w, k) ==
    /\ req[w] = Idle
    /\ req' = [req EXCEPT ![w] = [stage |-> "license", key |-> k,
                                  plan |-> plan[UserOf[k]], now |-> week]]
    /\ UNCHANGED <<wallet, res, stale, charged, refunds, ledger, spent,
                   plan, owner, week>>

\* GetOrCreateHostedAIWallet: reclaim the member's stale personal reservations,
\* then create, reset or adjust the wallet to the plan the request has read.
GetOrCreateWallet(w) ==
    /\ req[w].stage = "license"
    /\ LET u   == UserOf[req[w].key]
           ks  == StalePersonal(u)
           old == ReleasedWallets(ks)
           new == Refreshed(old[u], PersonalAllowance[req[w].plan], req[w].now)
           granted == Granted(old[u], req[w].now)
       IN /\ wallet' = [old EXCEPT ![u] = new]
          /\ res' = ReleasedRows(ks)
          /\ stale' = stale \ ks
          /\ ledger' = [ledger EXCEPT ![u] =
                IF granted THEN new.allowance
                ELSE @ + (new.remaining - old[u].remaining)]
          /\ spent' = [spent EXCEPT ![u] = IF granted THEN 0 ELSE @]
    /\ req' = [req EXCEPT ![w].stage = "wallet"]
    /\ UNCHANGED <<charged, refunds, plan, owner, week>>

\* hostedAIReserveAmount: the amount granted, or 0 when the limit is reached.
ReserveAmount(ws, k, amount, allowPartial) ==
    LET available == IF SpaceOf[k] = NoSpace THEN Available(ws[UserOf[k]])
                     ELSE Least(Available(ws[UserOf[k]]), Available(ws[SpaceOf[k]]))
    IN CASE available >= amount -> amount
         [] available < amount /\ allowPartial -> available
         [] OTHER -> 0

\* The key was used before for another amount: the call is refused.
AmountMatches(k, amount, allowPartial) ==
    \/ res[k].status = "none"
    \/ res[k].amount = amount
    \/ allowPartial /\ res[k].amount < amount

\* reserveHostedAIUsage's second transaction.  For a Space key it first refreshes
\* the Space wallet.  An existing reservation that is not released is returned
\* as it is; a released one is reserved again; otherwise one is inserted.
Reserve(w, amount, allowPartial) ==
    /\ req[w].stage = "wallet"
    /\ LET k    == req[w].key
           s    == SpaceOf[k]
           ks   == IF s = NoSpace THEN {} ELSE StaleOfSpace(s)
           ws   == IF s = NoSpace THEN wallet ELSE SpaceRefreshed(s, req[w].now)
           rows == ReleasedRows(ks)
           amt  == ReserveAmount(ws, k, amount, allowPartial)
       IN /\ AmountMatches(k, amount, allowPartial)
          /\ spent' = IF s = NoSpace THEN spent ELSE SpaceSpent(s, req[w].now)
          /\ \/ /\ rows[k].status \in {"none", "released"}
                /\ amt > 0
                /\ res' = [rows EXCEPT ![k] = [status |-> "reserved", amount |-> amt]]
                /\ stale' = (stale \ ks) \ {k}
                /\ wallet' = [a \in Accounts |-> IF a \in AccountsOf(k)
                                THEN [ws[a] EXCEPT !.reserved = @ + amt] ELSE ws[a]]
             \/ /\ rows[k].status \notin {"none", "released"}
                /\ res' = rows
                /\ stale' = stale \ ks
                /\ wallet' = ws
    /\ req' = [req EXCEPT ![w] = Idle]
    /\ UNCHANGED <<charged, refunds, ledger, plan, owner, week>>

\* The second transaction rolls back: the limit is reached, the key was reused
\* with other parameters, the caller left the Space, or the Space is not active.
\* A wallet read for display ends here too.
ReserveRefused(w) ==
    /\ req[w].stage = "wallet"
    /\ req' = [req EXCEPT ![w] = Idle]
    /\ UNCHANGED <<wallet, res, stale, charged, refunds, ledger, spent,
                   plan, owner, week>>

\* GetOrCreateSpaceHostedAIWallet.
RefreshSpace(s) ==
    /\ wallet' = SpaceRefreshed(s, week)
    /\ res' = ReleasedRows(StaleOfSpace(s))
    /\ stale' = stale \ StaleOfSpace(s)
    /\ spent' = SpaceSpent(s, week)
    /\ UNCHANGED <<charged, refunds, ledger, plan, owner, week, req>>

\* Releasing a set of reservations in one transaction.
ReleaseKeys(ks) ==
    /\ Reserved(ks) # {}
    /\ res' = ReleasedRows(ks)
    /\ wallet' = ReleasedWallets(ks)
    /\ stale' = stale \ Reserved(ks)
    /\ UNCHANGED <<charged, refunds, ledger, spent, plan, owner, week, req>>

\* ReleaseHostedAIReservation.
Release(k) == ReleaseKeys({k})

\* releasePersonalAgentRuntimeReservationsTx: all keys with the run's prefix.
ReleaseRun(r) == ReleaseKeys({k \in Keys : RunOf[k] = r})

\* What a settlement may take from a wallet without touching what the other
\* reservations hold in it.
MaximumCharge(w, held) == AtLeastZero(w.remaining - (w.reserved - held))

\* SettleHostedAIReservation.  A reservation that is not 'reserved' any more is
\* left alone.
Settle(k, usage) ==
    LET held   == res[k].amount
        cap    == [a \in AccountsOf(k) |-> MaximumCharge(wallet[a], held)]
        own    == Least(usage, cap[UserOf[k]])
        charge == IF SpaceOf[k] = NoSpace THEN own ELSE Least(own, cap[SpaceOf[k]])
    IN /\ res[k].status = "reserved"
       /\ wallet' = [a \in Accounts |-> IF a \in AccountsOf(k)
             THEN [wallet[a] EXCEPT !.remaining = @ - charge,
                                    !.reserved = AtLeastZero(@ - held)]
             ELSE wallet[a]]
       /\ res' = [res EXCEPT ![k].status = "settled"]
       /\ stale' = stale \ {k}
       /\ charged' = [charged EXCEPT ![k] = charge]
       /\ ledger' = [ledger EXCEPT ![UserOf[k]] = @ - charge]
       /\ spent' = [a \in Accounts |-> IF a \in AccountsOf(k)
                                       THEN spent[a] + charge ELSE spent[a]]
       /\ UNCHANGED <<refunds, plan, owner, week, req>>

RefundInFull(w, charge) == charge

\* What a refund gives back to a wallet: never more than its used part.
Refundable(w, charge) == AtLeastZero(Least(charge, w.allowance - w.remaining))

\* RefundHostedAIReservation: needs the consumption row, and does nothing when
\* the refund row is already there.
Refund(k) ==
    /\ charged[k] # NoRow
    /\ k \notin refunds
    /\ wallet' = [a \in Accounts |-> IF a \in AccountsOf(k)
          THEN [wallet[a] EXCEPT !.remaining =
                    Least(wallet[a].allowance, @ + Refundable(wallet[a], charged[k]))]
          ELSE wallet[a]]
    /\ ledger' = [ledger EXCEPT ![UserOf[k]] =
                    @ + Refundable(wallet[UserOf[k]], charged[k])]
    /\ spent' = [a \in Accounts |-> IF a \in AccountsOf(k)
                    THEN AtLeastZero(spent[a] - charged[k]) ELSE spent[a]]
    /\ refunds' = refunds \cup {k}
    /\ res' = [res EXCEPT ![k].status = "refunded"]
    /\ UNCHANGED <<stale, charged, plan, owner, week, req>>

-----------------------------------------------------------------------------
(* The environment: time, subscriptions and ownership.                      *)

\* Fifteen minutes pass without an answer.
GrowStale(k) ==
    /\ res[k].status = "reserved"
    /\ stale' = stale \cup {k}
    /\ UNCHANGED <<wallet, res, charged, refunds, ledger, spent,
                   plan, owner, week, req>>

NewWeek ==
    /\ week < MaxWeek
    /\ week' = week + 1
    /\ UNCHANGED <<wallet, res, stale, charged, refunds, ledger, spent,
                   plan, owner, req>>

\* A subscription event or the end of a trial.
ChangePlan(u, p) ==
    /\ plan' = [plan EXCEPT ![u] = p]
    /\ UNCHANGED <<wallet, res, stale, charged, refunds, ledger, spent,
                   owner, week, req>>

\* TransferSpaceOwnership: refresh, refuse while the Space holds a reservation,
\* hand over, and apply the incoming owner's plan in the same transaction.
TransferOwnership(s, u) ==
    LET ws == SpaceRefreshed(s, week)
        rows == ReleasedRows(StaleOfSpace(s))
    IN /\ owner[s] # u
       /\ \A k \in Keys : SpaceOf[k] = s => rows[k].status # "reserved"
       /\ owner' = [owner EXCEPT ![s] = u]
       /\ wallet' = [ws EXCEPT ![s] = Refreshed(@, SpaceAllowance[plan[u]], week)]
       /\ spent' = [SpaceSpent(s, week) EXCEPT ![s] =
                        IF Granted(ws[s], week) THEN 0 ELSE @]
       /\ res' = rows
       /\ stale' = stale \ StaleOfSpace(s)
       /\ UNCHANGED <<charged, refunds, ledger, plan, week, req>>

Next ==
    \/ \E w \in Workers : \/ \E k \in Keys : ReadLicense(w, k)
                          \/ GetOrCreateWallet(w)
                          \/ \E n \in Amounts, p \in BOOLEAN : Reserve(w, n, p)
                          \/ ReserveRefused(w)
    \/ \E s \in Spaces : RefreshSpace(s)
    \/ \E k \in Keys : \/ Release(k)
                       \/ \E n \in Charges : Settle(k, n)
                       \/ Refund(k)
                       \/ GrowStale(k)
    \/ \E r \in Runs : ReleaseRun(r)
    \/ NewWeek
    \/ \E u \in Users : \/ \E p \in Plans : ChangePlan(u, p)
                        \/ \E s \in Spaces : TransferOwnership(s, u)

Spec == Init /\ [][Next]_vars
-----------------------------------------------------------------------------
TypeOK ==
    /\ wallet \in [Accounts -> Wallets]
    /\ res \in [Keys -> [status : Statuses, amount : Nat]]
    /\ stale \subseteq Keys
    /\ charged \in [Keys -> Nat \cup {NoRow}]
    /\ refunds \subseteq Keys
    /\ ledger \in [Users -> Int]
    /\ spent \in [Accounts -> Nat]
    /\ plan \in [Users -> Plans]
    /\ owner \in [Spaces -> Users]
    /\ week \in 0..MaxWeek
    /\ req \in [Workers -> Requests \cup {Idle}]

\* The reserved counter of every wallet is exactly the sum of the reservations
\* held in it: no interleaving of reserving, the two stale reclaims, release by
\* id, release by run and settlement loses or double-counts a hold.
ReservedExact ==
    \A a \in Accounts : wallet[a].reserved = SumTo(Hold(res, a, Keys), NKeys)

\* A wallet is never overdrawn nor filled above its allowance: a settlement,
\* a refund of an earlier week's charge or a plan change never makes the
\* CHECK (weekly_remaining_microusd >= 0) of the tables fail.
RemainingWithinAllowance ==
    \A a \in Accounts : wallet[a].remaining \in 0..wallet[a].allowance

\* The used part of an allowance never exceeds what was really charged to it,
\* whatever plan changes, late refunds and resets came in between.
NeverOverbilled ==
    \A a \in Accounts : wallet[a].allowance - wallet[a].remaining <= spent[a]

\* The audit ledger explains the wallet: the deltas written since the last
\* weekly grant add up to the remaining allowance.
LedgerReconciles == \A u \in Users : ledger[u] = wallet[u].remaining

\* Once the reservations in a wallet are covered by its remaining allowance
\* they stay covered, unless a plan change shrinks the allowance: concurrent
\* completions can not overspend a wallet.
OnlyPlanChangeUnderbacks ==
    [][\A a \in Accounts :
        /\ wallet[a].reserved <= wallet[a].remaining
        /\ wallet'[a].allowance >= wallet[a].allowance
        => wallet'[a].reserved <= wallet'[a].remaining]_vars

\* A consumption row is written once and for good, and a settled reservation
\* is never reserved, released or charged again, however often its completion
\* is delivered; a refunded one never is refunded twice.
ChargedOnce ==
    [][\A k \in Keys : charged[k] # NoRow =>
        /\ charged'[k] = charged[k]
        /\ res'[k].status \in {"settled", "refunded"}
        /\ k \in refunds => res'[k].status = "refunded"]_vars
\* GetOrCreateSpaceHostedAIWallet's comment: the owner's plan is applied "while
\* preserving already-consumed usage across upgrades and downgrades".
UsagePreserved ==
    \A s \in Spaces : wallet[s].allowance - wallet[s].remaining
                        >= Least(spent[s], wallet[s].allowance)
=============================================================================

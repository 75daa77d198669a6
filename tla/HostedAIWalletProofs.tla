------------------------ MODULE HostedAIWalletProofs ------------------------
(***************************************************************************)
(* The wallet invariants for any number of members, Spaces, keys, plans and *)
(* requests.  The type invariant is not inductive alone: that a settlement  *)
(* leaves remaining >= 0 rests on the reserved counter covering the         *)
(* reservation being settled, which is ReservedExact.                       *)
(*                                                                         *)
(* The module begins with what SumTo computes, for every number of rows.    *)
(* Induction is carried out on sets of naturals: the least element of the   *)
(* complement, which exists because < is well-founded on Nat.               *)
(***************************************************************************)
EXTENDS HostedAIWallet, WellFoundedInduction, TLAPS

\* A set that holds 0 and the successor of each of its elements holds every
\* natural number.
LEMMA SetInduction ==
    ASSUME NEW S, 0 \in S, \A n \in Nat : n \in S => n + 1 \in S
    PROVE  Nat \subseteq S
<1> DEFINE T == Nat \ S
           R == {p \in Nat \X Nat : p[1] < p[2]}
<1> SUFFICES ASSUME T # {} PROVE FALSE
  OBVIOUS
<1>1. IsWellFoundedOn(R, Nat)
  BY NatLessThanWellFounded, Zenon DEF OpToRel
<1>2. T \subseteq Nat
  OBVIOUS
<1> HIDE DEF R
<1>3. PICK x \in T : \A y \in T : ~ (<<y, x>> \in R)
  BY <1>1, <1>2, WFMin
<1>4. x - 1 \in Nat /\ x = (x - 1) + 1
  OBVIOUS
<1>5. x - 1 \in T
  BY <1>4
<1>6. <<x - 1, x>> \in R
  BY <1>4 DEF R
<1> QED
  BY <1>3, <1>5, <1>6

\* s is the running total of f over the first n rows.
Totals(s, f, n) ==
    /\ s \in [0..n -> Int]
    /\ s[0] = 0
    /\ \A i \in 1..n : s[i] = s[i-1] + f[i]

\* Running totals exist.
LEMMA TotalsExist ==
    ASSUME NEW n \in Nat, NEW f \in [1..n -> Int]
    PROVE  \E s : Totals(s, f, n)
<1> DEFINE S == {m \in Nat : m <= n => \E s : Totals(s, f, m)}
<1>1. 0 \in S
  <2>1. Totals([i \in 0..0 |-> 0], f, 0)
    BY DEF Totals
  <2> QED
    BY <2>1
<1>2. ASSUME NEW m \in Nat, m \in S PROVE m + 1 \in S
  <2> SUFFICES ASSUME m + 1 <= n PROVE \E s : Totals(s, f, m + 1)
    OBVIOUS
  <2>1. PICK s : Totals(s, f, m)
    BY <1>2
  <2> DEFINE t == [i \in 0..(m+1) |-> IF i = m + 1 THEN s[m] + f[m+1] ELSE s[i]]
  <2>2. t \in [0..(m+1) -> Int]
    BY <2>1 DEF Totals
  <2>3. t[0] = 0
    BY <2>1 DEF Totals
  <2>4. ASSUME NEW i \in 1..(m+1) PROVE t[i] = t[i-1] + f[i]
    <3>1. CASE i = m + 1
      BY <3>1
    <3>2. CASE i # m + 1
      <4>1. i \in 1..m /\ i - 1 \in 0..(m+1) /\ i - 1 # m + 1
        BY <3>2
      <4> QED
        BY <4>1, <2>1 DEF Totals
    <3> QED
      BY <3>1, <3>2
  <2> QED
    BY <2>2, <2>3, <2>4 DEF Totals
<1>3. n \in S
  <2> HIDE DEF S
  <2> QED
    BY <1>1, <1>2, SetInduction
<1> QED
  BY <1>3

\* SumTo is the last running total.
LEMMA SumIsTotal ==
    ASSUME NEW n \in Nat, NEW f \in [1..n -> Int]
    PROVE  \E s : Totals(s, f, n) /\ SumTo(f, n) = s[n]
<1> DEFINE Eq(s) == s = [i \in 0..n |-> IF i = 0 THEN 0 ELSE s[i-1] + f[i]]
           c == CHOOSE s : Eq(s)
<1>1. \E s : Eq(s)
  <2>1. PICK s : Totals(s, f, n)
    BY TotalsExist
  <2>2. Eq(s)
    BY <2>1 DEF Totals
  <2> QED
    BY <2>2
<1>2. Eq(c)
  BY <1>1
<1>3. SumTo(f, n) = c[n]
  BY DEF SumTo
<1> HIDE DEF c
<1> DEFINE S == {m \in Nat : m <= n => c[m] \in Int}
<1>4. 0 \in S
  BY <1>2
<1>5. ASSUME NEW m \in Nat, m \in S PROVE m + 1 \in S
  <2> SUFFICES ASSUME m + 1 <= n PROVE c[m+1] \in Int
    OBVIOUS
  <2>1. c[m+1] = c[m] + f[m+1]
    BY <1>2
  <2> QED
    BY <2>1, <1>5
<1>6. Nat \subseteq S
  <2> HIDE DEF S
  <2> QED
    BY <1>4, <1>5, SetInduction
<1>7. Totals(c, f, n)
  <2>1. \A i \in 0..n : c[i] \in Int
    BY <1>6
  <2>2. c \in [0..n -> Int]
    <3>1. c = [i \in 0..n |-> c[i]]
      BY <1>2
    <3> QED
      BY <2>1, <3>1
  <2>3. c[0] = 0 /\ \A i \in 1..n : c[i] = c[i-1] + f[i]
    BY <1>2
  <2> QED
    BY <2>2, <2>3 DEF Totals
<1> QED
  BY <1>7, <1>3

\* The sum of integer rows is an integer.
LEMMA SumType ==
    ASSUME NEW n \in Nat, NEW f \in [1..n -> Int]
    PROVE  SumTo(f, n) \in Int
<1>1. PICK s : Totals(s, f, n) /\ SumTo(f, n) = s[n]
  BY SumIsTotal
<1> QED
  BY <1>1 DEF Totals

\* Sums add up row by row.
LEMMA SumAdd ==
    ASSUME NEW n \in Nat, NEW f \in [1..n -> Int], NEW g \in [1..n -> Int],
           NEW h \in [1..n -> Int], \A i \in 1..n : h[i] = f[i] + g[i]
    PROVE  SumTo(h, n) = SumTo(f, n) + SumTo(g, n)
<1>1. PICK sf : Totals(sf, f, n) /\ SumTo(f, n) = sf[n]
  BY SumIsTotal
<1>2. PICK sg : Totals(sg, g, n) /\ SumTo(g, n) = sg[n]
  BY SumIsTotal
<1>3. PICK sh : Totals(sh, h, n) /\ SumTo(h, n) = sh[n]
  BY SumIsTotal
<1> DEFINE S == {m \in Nat : m <= n => sh[m] = sf[m] + sg[m]}
<1>4. 0 \in S
  BY <1>1, <1>2, <1>3 DEF Totals
<1>5. ASSUME NEW m \in Nat, m \in S PROVE m + 1 \in S
  <2> SUFFICES ASSUME m + 1 <= n PROVE sh[m+1] = sf[m+1] + sg[m+1]
    OBVIOUS
  <2>1. m + 1 \in 1..n /\ m \in 0..n /\ (m + 1) - 1 = m
    OBVIOUS
  <2>2. sh[m+1] = sh[m] + h[m+1] /\ sf[m+1] = sf[m] + f[m+1] /\ sg[m+1] = sg[m] + g[m+1]
    BY <1>1, <1>2, <1>3, <2>1 DEF Totals
  <2>3. sf[m] \in Int /\ sg[m] \in Int /\ f[m+1] \in Int /\ g[m+1] \in Int
    BY <1>1, <1>2, <2>1 DEF Totals
  <2> QED
    BY <2>1, <2>2, <2>3, <1>5
<1>6. n \in S
  <2> HIDE DEF S
  <2> QED
    BY <1>4, <1>5, SetInduction
<1> QED
  BY <1>1, <1>2, <1>3, <1>6

\* The sum of rows that are not negative is not negative.
LEMMA SumNat ==
    ASSUME NEW n \in Nat, NEW f \in [1..n -> Nat]
    PROVE  SumTo(f, n) \in Nat
<1>1. PICK s : Totals(s, f, n) /\ SumTo(f, n) = s[n]
  BY SumIsTotal
<1> DEFINE S == {m \in Nat : m <= n => s[m] \in Nat}
<1>2. 0 \in S
  BY <1>1 DEF Totals
<1>3. ASSUME NEW m \in Nat, m \in S PROVE m + 1 \in S
  <2> SUFFICES ASSUME m + 1 <= n PROVE s[m+1] \in Nat
    OBVIOUS
  <2>1. m + 1 \in 1..n /\ (m + 1) - 1 = m
    OBVIOUS
  <2>2. s[m+1] = s[m] + f[m+1]
    BY <1>1, <2>1 DEF Totals
  <2> QED
    BY <2>1, <2>2, <1>3
<1>4. n \in S
  <2> HIDE DEF S
  <2> QED
    BY <1>2, <1>3, SetInduction
<1> QED
  BY <1>1, <1>4

\* Rows that are all zero but one add up to that one.
LEMMA SumSingle ==
    ASSUME NEW n \in Nat, NEW f \in [1..n -> Int], NEW k \in 1..n,
           \A i \in 1..n : i # k => f[i] = 0
    PROVE  SumTo(f, n) = f[k]
<1>1. PICK s : Totals(s, f, n) /\ SumTo(f, n) = s[n]
  BY SumIsTotal
<1> DEFINE S == {m \in Nat : m <= n => s[m] = IF m < k THEN 0 ELSE f[k]}
<1>2. 0 \in S
  BY <1>1 DEF Totals
<1>3. ASSUME NEW m \in Nat, m \in S PROVE m + 1 \in S
  <2> SUFFICES ASSUME m + 1 <= n PROVE s[m+1] = IF m + 1 < k THEN 0 ELSE f[k]
    OBVIOUS
  <2>1. m + 1 \in 1..n /\ (m + 1) - 1 = m
    OBVIOUS
  <2>2. s[m+1] = s[m] + f[m+1]
    BY <1>1, <2>1 DEF Totals
  <2>3. CASE m + 1 = k
    BY <2>1, <2>2, <2>3, <1>3
  <2>4. CASE m + 1 # k
    <3>1. f[m+1] = 0 /\ f[k] \in Int
      BY <2>1, <2>4
    <3> QED
      BY <3>1, <2>2, <2>4, <1>3
  <2> QED
    BY <2>3, <2>4
<1>4. n \in S
  <2> HIDE DEF S
  <2> QED
    BY <1>2, <1>3, SetInduction
<1> QED
  BY <1>1, <1>4

\* Every row that is not negative is part of the sum.
LEMMA SumCovers ==
    ASSUME NEW n \in Nat, NEW f \in [1..n -> Nat], NEW k \in 1..n
    PROVE  f[k] <= SumTo(f, n)
<1> DEFINE one == [i \in 1..n |-> IF i = k THEN f[k] ELSE 0]
           rest == [i \in 1..n |-> IF i = k THEN 0 ELSE f[i]]
<1>1. one \in [1..n -> Nat] /\ rest \in [1..n -> Nat] /\ one \in [1..n -> Int]
      /\ rest \in [1..n -> Int] /\ f \in [1..n -> Int]
  OBVIOUS
<1>2. SumTo(one, n) = one[k]
  BY <1>1, SumSingle
<1>3. SumTo(f, n) = SumTo(one, n) + SumTo(rest, n)
  <2>1. \A i \in 1..n : f[i] = one[i] + rest[i]
    OBVIOUS
  <2> HIDE DEF one, rest
  <2> QED
    BY <1>1, <2>1, SumAdd
<1>4. SumTo(rest, n) \in Nat
  BY <1>1, SumNat
<1> QED
  BY <1>2, <1>3, <1>4

\* The sum of the empty set of rows.
LEMMA SumZero ==
    ASSUME NEW n \in Nat, NEW f \in [1..n -> Int], \A i \in 1..n : f[i] = 0
    PROVE  SumTo(f, n) = 0
<1>1. SumTo(f, n) = SumTo(f, n) + SumTo(f, n)
  BY SumAdd
<1>2. SumTo(f, n) \in Int
  BY SumType
<1> QED
  BY <1>1, <1>2

-----------------------------------------------------------------------------
(* The wallets.                                                             *)

Rows == [Keys -> [status : Statuses, amount : Nat]]

\* ReservedExact of wallets w and rows r that need not be the current ones.
Exact(w, r) ==
    \A a \in Accounts : w[a].reserved = SumTo(Hold(r, a, Keys), NKeys)

Within(w) == \A a \in Accounts : w[a].remaining <= w[a].allowance

\* Ledger rows agree with the status of their reservation.
RowsAgree ==
    \A k \in Keys : /\ charged[k] # NoRow => res[k].status \in {"settled", "refunded"}
                    /\ k \in refunds => res[k].status = "refunded" /\ charged[k] # NoRow

\* The inductive invariant.
Inv ==
    /\ TypeOK
    /\ ReservedExact
    /\ RemainingWithinAllowance
    /\ NeverOverbilled
    /\ LedgerReconciles
    /\ RowsAgree

-----------------------------------------------------------------------------
\* What rows hold in an account is a function to the naturals.
LEMMA HoldType ==
    ASSUME NEW r \in Rows, NEW a, NEW ks
    PROVE  Hold(r, a, ks) \in [1..NKeys -> Nat] /\ Hold(r, a, ks) \in [1..NKeys -> Int]
BY DEF Hold, Rows, Keys

\* Releasing a set of rows subtracts exactly what they hold: the GREATEST(0, ..)
\* of the SQL never clamps.
LEMMA ReleaseExact ==
    ASSUME TypeOK, ReservedExact, NEW ks
    PROVE  /\ ReleasedRows(ks) \in Rows
           /\ ReleasedWallets(ks) \in [Accounts -> Wallets]
           /\ Exact(ReleasedWallets(ks), ReleasedRows(ks))
           /\ \A a \in Accounts : \E n \in Nat :
                 ReleasedWallets(ks)[a] = [wallet[a] EXCEPT !.reserved = n]
<1> DEFINE rel == ReleasedRows(ks)
           new == ReleasedWallets(ks)
<1>0. res \in Rows /\ NKeys \in Nat
  BY WalletConstants DEF TypeOK, Rows
<1>1. rel \in Rows
  BY <1>0 DEF ReleasedRows, Rows, Statuses
<1>2. ASSUME NEW a \in Accounts
      PROVE  /\ wallet[a].reserved - SumTo(Hold(res, a, ks), NKeys)
                  = SumTo(Hold(rel, a, Keys), NKeys)
             /\ SumTo(Hold(rel, a, Keys), NKeys) \in Nat
  <2>1. \A i \in 1..NKeys :
          Hold(res, a, Keys)[i] = Hold(res, a, ks)[i] + Hold(rel, a, Keys)[i]
    BY <1>0 DEF Hold, ReleasedRows, Reserved, Keys, Rows
  <2>2. SumTo(Hold(res, a, Keys), NKeys)
          = SumTo(Hold(res, a, ks), NKeys) + SumTo(Hold(rel, a, Keys), NKeys)
    <3> HIDE DEF rel
    <3> QED
      BY <1>0, <1>1, <2>1, HoldType, SumAdd
  <2>3. SumTo(Hold(rel, a, Keys), NKeys) \in Nat
    BY <1>0, <1>1, HoldType, SumNat
  <2>4. SumTo(Hold(res, a, ks), NKeys) \in Nat
    BY <1>0, HoldType, SumNat
  <2> QED
    BY <2>2, <2>3, <2>4 DEF ReservedExact
<1>3. ASSUME NEW a \in Accounts
      PROVE  /\ new[a] = [wallet[a] EXCEPT !.reserved = SumTo(Hold(rel, a, Keys), NKeys)]
             /\ SumTo(Hold(rel, a, Keys), NKeys) \in Nat
  <2>1. new[a] = [wallet[a] EXCEPT !.reserved =
                    AtLeastZero(wallet[a].reserved - SumTo(Hold(res, a, ks), NKeys))]
    BY DEF ReleasedWallets
  <2>2. AtLeastZero(SumTo(Hold(rel, a, Keys), NKeys)) = SumTo(Hold(rel, a, Keys), NKeys)
    BY <1>2 DEF AtLeastZero
  <2> QED
    BY <1>2, <2>1, <2>2
<1>4. wallet \in [Accounts -> Wallets] /\ DOMAIN new = Accounts
  BY DEF TypeOK, ReleasedWallets
<1> HIDE DEF new, rel
<1>5. \A a \in Accounts : new[a] \in Wallets /\ new[a].reserved = SumTo(Hold(rel, a, Keys), NKeys)
  BY <1>3, <1>4 DEF Wallets
<1>6. new \in [Accounts -> Wallets]
  <2>1. new = [a \in Accounts |-> new[a]]
    BY DEF new, ReleasedWallets
  <2> QED
    BY <2>1, <1>5
<1>7. Exact(new, rel)
  BY <1>5 DEF Exact
<1> QED
  BY <1>1, <1>3, <1>6, <1>7 DEF new, rel

\* Refreshing keeps a wallet well-formed and what it reserves, and never raises
\* the used part: a grant clears it, a plan change carries at most all of it.
LEMMA RefreshSound ==
    ASSUME NEW w \in Wallets, w.remaining <= w.allowance,
           NEW allowance \in Nat, NEW now \in Nat
    PROVE  LET v == Refreshed(w, allowance, now)
           IN /\ v \in Wallets
              /\ v.reserved = w.reserved
              /\ v.remaining <= v.allowance
              /\ v.allowance - v.remaining <= w.allowance - w.remaining
              /\ Granted(w, now) => v.remaining = v.allowance
<1> DEFINE left == RemainingAfter(w, allowance)
<1>1. w.allowance \in Nat /\ w.remaining \in Nat /\ w.reset \in Nat /\ w.reserved \in Nat
  BY DEF Wallets
<1>2. left \in Nat /\ left <= allowance /\ allowance - left <= w.allowance - w.remaining
  BY <1>1 DEF RemainingAfter, AtLeastZero
<1> DEFINE v == Refreshed(w, allowance, now)
<1>3. CASE Granted(w, now)
  <2>1. v = [w EXCEPT !.open = TRUE, !.allowance = allowance,
                      !.remaining = allowance, !.reset = now + 1]
    BY <1>3 DEF Refreshed
  <2> HIDE DEF v
  <2>2. v \in Wallets /\ v.reserved = w.reserved
        /\ v.allowance = allowance /\ v.remaining = allowance
    <3>1. now + 1 \in Nat
      OBVIOUS
    <3> DEFINE next == now + 1
    <3> HIDE DEF next
    <3>2. v = [w EXCEPT !.open = TRUE, !.allowance = allowance,
                        !.remaining = allowance, !.reset = next] /\ next \in Nat
      BY <2>1, <3>1 DEF next
    <3> QED
      BY <3>2 DEF Wallets
  <2>3. v.remaining <= v.allowance /\ v.allowance - v.remaining <= w.allowance - w.remaining
    BY <1>1, <2>2
  <2> QED
    BY <2>2, <2>3, Zenon DEF v
<1>4. CASE ~Granted(w, now)
  <2>1. v = [w EXCEPT !.open = TRUE, !.allowance = allowance, !.remaining = left]
    <3>1. v = [w EXCEPT !.open = TRUE, !.allowance = allowance,
                        !.remaining = left, !.reset = w.reset]
      BY <1>4 DEF Refreshed
    <3> QED
      BY <3>1 DEF Wallets
  <2> HIDE DEF v, left
  <2>2. v \in Wallets /\ v.reserved = w.reserved
        /\ v.allowance = allowance /\ v.remaining = left
    BY <1>2, <2>1 DEF Wallets
  <2> QED
    BY <1>1, <1>2, <1>4, <2>2 DEF v
<1> QED
  BY <1>3, <1>4

\* Adding a hold of key k to the wallets it is held in.
AddHold(w, k, amt) ==
    [a \in Accounts |-> IF a \in AccountsOf(k)
        THEN [w[a] EXCEPT !.reserved = @ + amt] ELSE w[a]]

\* A new hold is counted once in every wallet it is held in.
LEMMA AddHoldExact ==
    ASSUME NEW w \in [Accounts -> Wallets], NEW r \in Rows, Exact(w, r),
           NEW k \in Keys, r[k].status # "reserved", NEW amt \in Nat
    PROVE  LET q == [r EXCEPT ![k] = [status |-> "reserved", amount |-> amt]]
           IN /\ q \in Rows
              /\ AddHold(w, k, amt) \in [Accounts -> Wallets]
              /\ Exact(AddHold(w, k, amt), q)
<1> DEFINE q == [r EXCEPT ![k] = [status |-> "reserved", amount |-> amt]]
           v == AddHold(w, k, amt)
<1>0. NKeys \in Nat /\ k \in 1..NKeys
  BY WalletConstants DEF Keys
<1>1. q \in Rows
  BY DEF Rows, Statuses
<1>2. v \in [Accounts -> Wallets]
  BY DEF AddHold, Wallets
<1>3. ASSUME NEW a \in Accounts PROVE v[a].reserved = SumTo(Hold(q, a, Keys), NKeys)
  <2> DEFINE one == [i \in 1..NKeys |-> IF i = k /\ a \in AccountsOf(k) THEN amt ELSE 0]
  <2>1. one \in [1..NKeys -> Int]
    OBVIOUS
  <2>2. \A i \in 1..NKeys : Hold(q, a, Keys)[i] = Hold(r, a, Keys)[i] + one[i]
    BY <1>0 DEF Hold, Keys, Rows
  <2>3. SumTo(one, NKeys) = one[k]
    <3>1. \A i \in 1..NKeys : i # k => one[i] = 0
      OBVIOUS
    <3> HIDE DEF one
    <3> QED
      BY <1>0, <2>1, <3>1, SumSingle
  <2>4. SumTo(Hold(q, a, Keys), NKeys) = SumTo(Hold(r, a, Keys), NKeys) + SumTo(one, NKeys)
    <3> HIDE DEF one, q
    <3> QED
      BY <1>0, <1>1, <2>1, <2>2, HoldType, SumAdd
  <2>5. SumTo(Hold(r, a, Keys), NKeys) = w[a].reserved
    BY DEF Exact
  <2>6. w[a].reserved \in Nat
    BY DEF Wallets
  <2>7. v[a].reserved = w[a].reserved + one[k]
    BY <1>0, <2>6 DEF AddHold, Wallets
  <2> QED
    BY <2>3, <2>4, <2>5, <2>7
<1> QED
  BY <1>1, <1>2, <1>3 DEF Exact

\* The counter of a wallet covers each reservation held in it, and settling the
\* reservation removes exactly its amount.
LEMMA DropHoldExact ==
    ASSUME TypeOK, ReservedExact, NEW k \in Keys, res[k].status = "reserved",
           NEW st \in Statuses \ {"reserved"}
    PROVE  LET q == [res EXCEPT ![k].status = st]
           IN /\ q \in Rows
              /\ \A a \in Accounts :
                    IF a \in AccountsOf(k)
                    THEN /\ res[k].amount <= wallet[a].reserved
                         /\ wallet[a].reserved - res[k].amount = SumTo(Hold(q, a, Keys), NKeys)
                    ELSE wallet[a].reserved = SumTo(Hold(q, a, Keys), NKeys)
<1> DEFINE q == [res EXCEPT ![k].status = st]
<1>0. NKeys \in Nat /\ k \in 1..NKeys /\ res \in Rows /\ wallet \in [Accounts -> Wallets]
  BY WalletConstants DEF Keys, TypeOK, Rows
<1>1. q \in Rows
  BY <1>0 DEF Rows
<1>2. ASSUME NEW a \in Accounts
      PROVE  IF a \in AccountsOf(k)
             THEN /\ res[k].amount <= wallet[a].reserved
                  /\ wallet[a].reserved - res[k].amount = SumTo(Hold(q, a, Keys), NKeys)
             ELSE wallet[a].reserved = SumTo(Hold(q, a, Keys), NKeys)
  <2> DEFINE one == [i \in 1..NKeys |-> IF i = k /\ a \in AccountsOf(k) THEN res[k].amount ELSE 0]
  <2>1. one \in [1..NKeys -> Int] /\ res[k].amount \in Nat
    BY <1>0 DEF Rows, Keys
  <2>2. \A i \in 1..NKeys : Hold(res, a, Keys)[i] = Hold(q, a, Keys)[i] + one[i]
    BY <1>0 DEF Hold, Keys, Rows
  <2>3. SumTo(one, NKeys) = one[k]
    <3>1. \A i \in 1..NKeys : i # k => one[i] = 0
      OBVIOUS
    <3> HIDE DEF one
    <3> QED
      BY <1>0, <2>1, <3>1, SumSingle
  <2>4. SumTo(Hold(res, a, Keys), NKeys) = SumTo(Hold(q, a, Keys), NKeys) + SumTo(one, NKeys)
    <3> HIDE DEF one, q
    <3> QED
      BY <1>0, <1>1, <2>1, <2>2, HoldType, SumAdd
  <2>5. SumTo(Hold(res, a, Keys), NKeys) = wallet[a].reserved
    BY DEF ReservedExact
  <2>6. SumTo(Hold(q, a, Keys), NKeys) \in Nat
    <3> HIDE DEF q
    <3> QED
      BY <1>0, <1>1, HoldType, SumNat
  <2>7. one[k] = IF a \in AccountsOf(k) THEN res[k].amount ELSE 0
    BY <1>0
  <2> HIDE DEF one, q
  <2> QED
    BY <2>1, <2>3, <2>4, <2>5, <2>6, <2>7
<1> QED
  BY <1>1, <1>2

-----------------------------------------------------------------------------
Billed(w, sp) == \A a \in Accounts : w[a].allowance - w[a].remaining <= sp[a]

LedgerOf(l, w) == \A u \in Users : l[u] = w[u].remaining

\* The part of Inv that is about the wallets, for any wallets, rows, ledger sums
\* and charges.
Sound(w, r, l, sp) ==
    /\ w \in [Accounts -> Wallets]
    /\ r \in Rows
    /\ sp \in [Accounts -> Nat]
    /\ Exact(w, r)
    /\ Within(w)
    /\ Billed(w, sp)
    /\ LedgerOf(l, w)

\* The invariant says that the current wallets are sound.
LEMMA InvIsSound == Inv => Sound(wallet, res, ledger, spent)
BY DEF Inv, Sound, TypeOK, Rows, ReservedExact, Exact, RemainingWithinAllowance, Within,
       NeverOverbilled, Billed, LedgerReconciles, LedgerOf

\* Sound wallets with well-typed remaining variables and agreeing rows make the
\* invariant hold in the next state.
LEMMA SoundIsInv ==
    ASSUME Sound(wallet', res', ledger', spent'), RowsAgree',
           stale' \subseteq Keys, charged' \in [Keys -> Nat \cup {NoRow}],
           refunds' \subseteq Keys, ledger' \in [Users -> Int],
           plan' \in [Users -> Plans], owner' \in [Spaces -> Users],
           week' \in 0..MaxWeek, req' \in [Workers -> Requests \cup {Idle}]
    PROVE  Inv'
<1>1. TypeOK'
  BY DEF Sound, TypeOK, Rows
<1>2. RemainingWithinAllowance'
  BY DEF Sound, Within, RemainingWithinAllowance, Wallets
<1> QED
  BY <1>1, <1>2 DEF Inv, Sound, ReservedExact, Exact, NeverOverbilled, Billed,
                    LedgerReconciles, LedgerOf

\* Changing only the reserved counter keeps everything but Exact.
LEMMA ReservedOnly ==
    ASSUME Sound(wallet, res, ledger, spent), NEW w \in [Accounts -> Wallets],
           \A a \in Accounts : \E n \in Nat : w[a] = [wallet[a] EXCEPT !.reserved = n]
    PROVE  /\ Within(w) /\ Billed(w, spent) /\ LedgerOf(ledger, w)
           /\ \A a \in Accounts : /\ w[a].allowance = wallet[a].allowance
                                  /\ w[a].remaining = wallet[a].remaining
                                  /\ w[a].open = wallet[a].open
                                  /\ w[a].reset = wallet[a].reset
<1>1. ASSUME NEW a \in Accounts
      PROVE  /\ w[a].allowance = wallet[a].allowance /\ w[a].remaining = wallet[a].remaining
             /\ w[a].open = wallet[a].open /\ w[a].reset = wallet[a].reset
  <2>1. PICK n \in Nat : w[a] = [wallet[a] EXCEPT !.reserved = n]
    OBVIOUS
  <2>2. wallet[a] \in Wallets
    BY DEF Sound
  <2> QED
    BY <2>1, <2>2 DEF Wallets
<1>2. Users \subseteq Accounts
  BY DEF Accounts
<1> QED
  BY <1>1, <1>2 DEF Sound, Within, Billed, LedgerOf

\* Refreshing one account of sound wallets.
LEMMA RefreshAccount ==
    ASSUME NEW w \in [Accounts -> Wallets], NEW r \in Rows, NEW sp \in [Accounts -> Nat],
           Exact(w, r), Within(w), Billed(w, sp),
           NEW a \in Accounts, NEW allowance \in Nat, NEW now \in Nat
    PROVE  LET v == [w EXCEPT ![a] = Refreshed(w[a], allowance, now)]
               sq == [sp EXCEPT ![a] = IF Granted(w[a], now) THEN 0 ELSE sp[a]]
           IN /\ v \in [Accounts -> Wallets] /\ sq \in [Accounts -> Nat]
              /\ Exact(v, r) /\ Within(v) /\ Billed(v, sq)
<1> DEFINE new == Refreshed(w[a], allowance, now)
           left == IF Granted(w[a], now) THEN 0 ELSE sp[a]
           v == [w EXCEPT ![a] = new]
           sq == [sp EXCEPT ![a] = left]
<1>1. w[a] \in Wallets /\ w[a].remaining <= w[a].allowance
      /\ w[a].allowance - w[a].remaining <= sp[a]
      /\ sp[a] \in Nat /\ w[a].allowance \in Nat /\ w[a].remaining \in Nat
  BY DEF Within, Billed, Wallets
<1>2. /\ new \in Wallets /\ new.reserved = w[a].reserved /\ new.remaining <= new.allowance
      /\ new.allowance - new.remaining <= w[a].allowance - w[a].remaining
      /\ Granted(w[a], now) => new.remaining = new.allowance
  BY <1>1, RefreshSound
<1>3. new.allowance \in Nat /\ new.remaining \in Nat
  <2> HIDE DEF new
  <2> QED
    BY <1>2 DEF Wallets
<1>4. left \in Nat /\ new.allowance - new.remaining <= left
  <2> HIDE DEF new
  <2>1. CASE Granted(w[a], now)
    BY <1>2, <1>3, <2>1
  <2>2. CASE ~Granted(w[a], now)
    BY <1>1, <1>2, <1>3, <2>2
  <2> QED
    BY <2>1, <2>2
<1> HIDE DEF new, left
<1>5. v \in [Accounts -> Wallets] /\ sq \in [Accounts -> Nat]
  BY <1>2, <1>4
<1>6. Exact(v, r)
  BY <1>2 DEF Exact
<1>7. Within(v) /\ Billed(v, sq)
  BY <1>2, <1>4 DEF Within, Billed
<1> QED
  BY <1>5, <1>6, <1>7 DEF new, left

\* refreshSpaceHostedAIWalletTx keeps wallets sound.
LEMMA SpaceRefreshSound ==
    ASSUME Inv, NEW s \in Spaces, NEW now \in Nat
    PROVE  /\ Sound(SpaceRefreshed(s, now), ReleasedRows(StaleOfSpace(s)),
                    ledger, SpaceSpent(s, now))
           /\ \A u \in Users : SpaceRefreshed(s, now)[u].remaining = wallet[u].remaining
<1> DEFINE ks == StaleOfSpace(s)
           w == ReleasedWallets(ks)
           r == ReleasedRows(ks)
           allowance == SpaceAllowance[plan[owner[s]]]
           v == [w EXCEPT ![s] = Refreshed(w[s], allowance, now)]
           sq == [spent EXCEPT ![s] = IF Granted(w[s], now) THEN 0 ELSE spent[s]]
<1>1. Sound(wallet, res, ledger, spent) /\ TypeOK /\ ReservedExact
  BY InvIsSound DEF Inv
<1>2. /\ r \in Rows /\ w \in [Accounts -> Wallets] /\ Exact(w, r)
      /\ \A a \in Accounts : \E n \in Nat : w[a] = [wallet[a] EXCEPT !.reserved = n]
  BY <1>1, ReleaseExact
<1>3. allowance \in Nat /\ s \in Accounts /\ Users \subseteq Accounts /\ Users \cap Spaces = {}
  BY <1>1, WalletConstants DEF TypeOK, Accounts
<1> HIDE DEF w, r
<1>4. /\ Within(w) /\ Billed(w, spent) /\ LedgerOf(ledger, w)
      /\ \A a \in Accounts : /\ w[a].remaining = wallet[a].remaining
                             /\ w[a].open = wallet[a].open /\ w[a].reset = wallet[a].reset
  BY <1>1, <1>2, ReservedOnly
<1>5. spent \in [Accounts -> Nat]
  BY <1>1 DEF Sound
<1> HIDE DEF allowance
<1>6. v \in [Accounts -> Wallets] /\ sq \in [Accounts -> Nat]
      /\ Exact(v, r) /\ Within(v) /\ Billed(v, sq)
  BY <1>2, <1>3, <1>4, <1>5, RefreshAccount
<1>7. \A u \in Users : v[u].remaining = wallet[u].remaining
  BY <1>2, <1>3, <1>4
<1>8. LedgerOf(ledger, v)
  BY <1>1, <1>7 DEF Sound, LedgerOf
<1>9. v = SpaceRefreshed(s, now) /\ r = ReleasedRows(StaleOfSpace(s))
  BY DEF SpaceRefreshed, w, r, allowance
<1>10. sq = SpaceSpent(s, now)
  <2>1. w[s].open = wallet[s].open /\ w[s].reset = wallet[s].reset
    BY <1>3, <1>4
  <2>2. Granted(w[s], now) = Granted(wallet[s], now)
    BY <2>1, Zenon DEF Granted
  <2> QED
    BY <2>2 DEF SpaceSpent
<1> QED
  BY <1>2, <1>6, <1>7, <1>8, <1>9, <1>10 DEF Sound

\* Releasing rows does not touch the rows a ledger entry belongs to.
LEMMA ReleaseAgrees ==
    ASSUME RowsAgree, res \in Rows, NEW ks
    PROVE  \A k \in Keys :
             /\ charged[k] # NoRow => ReleasedRows(ks)[k].status \in {"settled", "refunded"}
             /\ k \in refunds => ReleasedRows(ks)[k].status = "refunded" /\ charged[k] # NoRow
BY DEF RowsAgree, ReleasedRows, Reserved

\* A request that is in flight has a key, a plan and a week.
LEMMA RequestType ==
    ASSUME TypeOK, NEW w \in Workers, req[w].stage \in {"license", "wallet"}
    PROVE  req[w] \in Requests /\ req[w].key \in Keys /\ req[w].plan \in Plans /\ req[w].now \in Nat
           /\ [req EXCEPT ![w].stage = "wallet"] \in [Workers -> Requests \cup {Idle}]
           /\ [req EXCEPT ![w] = Idle] \in [Workers -> Requests \cup {Idle}]
<1>1. req[w] \in Requests \cup {Idle}
  BY DEF TypeOK
<1>2. req[w] # Idle
  BY DEF Idle
<1>3. req[w] \in Requests
  BY <1>1, <1>2
<1>4. [req[w] EXCEPT !.stage = "wallet"] \in Requests
  BY <1>3 DEF Requests
<1> QED
  BY <1>3, <1>4 DEF Requests, TypeOK

\* Applying the license a request has read, however stale, keeps the invariant.
LEMMA GetOrCreateWalletInv ==
    ASSUME Inv, NEW w \in Workers, GetOrCreateWallet(w)
    PROVE  Inv'
<1> DEFINE u == UserOf[req[w].key]
           ks == StalePersonal(u)
           old == ReleasedWallets(ks)
           r == ReleasedRows(ks)
           allowance == PersonalAllowance[req[w].plan]
           now == req[w].now
           new == Refreshed(old[u], allowance, now)
           granted == Granted(old[u], now)
<1>1. Sound(wallet, res, ledger, spent) /\ TypeOK /\ ReservedExact /\ RowsAgree
  BY InvIsSound DEF Inv
<1>2. /\ req[w].key \in Keys /\ req[w].plan \in Plans /\ now \in Nat
      /\ req' \in [Workers -> Requests \cup {Idle}]
  BY <1>1, RequestType DEF GetOrCreateWallet
<1>3. u \in Users /\ u \in Accounts /\ allowance \in Nat
  BY <1>2, WalletConstants DEF Accounts
<1>4. /\ r \in Rows /\ old \in [Accounts -> Wallets] /\ Exact(old, r)
      /\ \A a \in Accounts : \E n \in Nat : old[a] = [wallet[a] EXCEPT !.reserved = n]
  BY <1>1, ReleaseExact
<1>5. /\ wallet' = [old EXCEPT ![u] = new]
      /\ res' = r
      /\ stale' = stale \ ks
      /\ ledger' = [ledger EXCEPT ![u] =
            IF granted THEN new.allowance ELSE ledger[u] + (new.remaining - old[u].remaining)]
      /\ spent' = [spent EXCEPT ![u] = IF granted THEN 0 ELSE spent[u]]
      /\ UNCHANGED <<charged, refunds, plan, owner, week>>
  BY DEF GetOrCreateWallet
<1> HIDE DEF old, r, allowance, now, u
<1>6. /\ Within(old) /\ Billed(old, spent) /\ LedgerOf(ledger, old)
  BY <1>1, <1>4, ReservedOnly
<1>7. spent \in [Accounts -> Nat] /\ ledger \in [Users -> Int]
  BY <1>1 DEF TypeOK
<1>8. /\ wallet' \in [Accounts -> Wallets] /\ spent' \in [Accounts -> Nat]
      /\ Exact(wallet', res') /\ Within(wallet') /\ Billed(wallet', spent')
  BY <1>2, <1>3, <1>4, <1>5, <1>6, <1>7, RefreshAccount DEF now
<1>9. old[u] \in Wallets /\ old[u].remaining <= old[u].allowance /\ ledger[u] = old[u].remaining
  BY <1>3, <1>4, <1>6 DEF Within, LedgerOf
<1>10. new \in Wallets /\ (granted => new.remaining = new.allowance)
  BY <1>3, <1>2, <1>9, RefreshSound DEF now
<1>11. new.remaining \in Nat /\ old[u].remaining \in Nat
  <2> HIDE DEF new, granted
  <2> QED
    BY <1>9, <1>10 DEF Wallets
<1> HIDE DEF new, granted
<1>12. ledger'[u] = new.remaining
  BY <1>3, <1>5, <1>7, <1>9, <1>10, <1>11
<1>13. ledger' \in [Users -> Int] /\ LedgerOf(ledger', wallet')
  <2>1. Users \subseteq Accounts
    BY DEF Accounts
  <2>2. ledger' \in [Users -> Int]
    BY <1>3, <1>5, <1>7, <1>11, <1>12
  <2>3. ASSUME NEW x \in Users PROVE ledger'[x] = wallet'[x].remaining
    BY <1>3, <1>4, <1>5, <1>6, <1>7, <1>12, <2>1 DEF LedgerOf
  <2> QED
    BY <2>2, <2>3 DEF LedgerOf
<1>14. RowsAgree'
  BY <1>1, <1>4, <1>5, ReleaseAgrees DEF RowsAgree, r, Sound
<1>15. Sound(wallet', res', ledger', spent')
  BY <1>4, <1>5, <1>8, <1>13 DEF Sound
<1>16. /\ stale' \subseteq Keys /\ charged' \in [Keys -> Nat \cup {NoRow}]
       /\ refunds' \subseteq Keys /\ plan' \in [Users -> Plans]
       /\ owner' \in [Spaces -> Users] /\ week' \in 0..MaxWeek
  BY <1>1, <1>5 DEF TypeOK
<1> QED
  BY <1>2, <1>13, <1>14, <1>15, <1>16, SoundIsInv

\* Reserving again after a stale reclaim, or for the first time, keeps the
\* invariant; so does returning an existing reservation.
LEMMA ReserveInv ==
    ASSUME Inv, NEW w \in Workers, NEW amount \in Amounts, NEW partial \in BOOLEAN,
           Reserve(w, amount, partial)
    PROVE  Inv'
<1> DEFINE k == req[w].key
           s == SpaceOf[k]
           now == req[w].now
           ks == IF s = NoSpace THEN {} ELSE StaleOfSpace(s)
           ws == IF s = NoSpace THEN wallet ELSE SpaceRefreshed(s, now)
           sp == IF s = NoSpace THEN spent ELSE SpaceSpent(s, now)
           rows == ReleasedRows(ks)
           amt == ReserveAmount(ws, k, amount, partial)
<1>1. Sound(wallet, res, ledger, spent) /\ TypeOK /\ ReservedExact /\ RowsAgree
  BY InvIsSound DEF Inv
<1>2. /\ k \in Keys /\ now \in Nat /\ req' \in [Workers -> Requests \cup {Idle}]
  BY <1>1, RequestType DEF Reserve
<1>3. s \in Spaces \cup {NoSpace} /\ UserOf[k] \in Accounts /\ (s # NoSpace => s \in Accounts)
  BY <1>2, WalletConstants DEF Accounts
<1>4. Sound(ws, rows, ledger, sp)
  <2>1. CASE s = NoSpace
    <3>1. rows = res
      BY <2>1, <1>1 DEF ReleasedRows, Reserved, Sound, Rows
    <3> QED
      BY <2>1, <3>1, <1>1
  <2>2. CASE s # NoSpace
    BY <2>2, <1>2, <1>3, SpaceRefreshSound
  <2> QED
    BY <2>1, <2>2
<1>5. amt \in Nat
  <2>1. \A a \in Accounts : Available(ws[a]) \in Nat
    BY <1>4 DEF Sound, Wallets, Available, AtLeastZero
  <2>2. amount \in Nat
    BY WalletConstants
  <2> HIDE DEF ws, s
  <2> QED
    BY <1>3, <2>1, <2>2 DEF ReserveAmount, Least, s
<1>6. /\ spent' = sp
      /\ UNCHANGED <<charged, refunds, ledger, plan, owner, week>>
      /\ \/ /\ rows[k].status \in {"none", "released"}
            /\ res' = [rows EXCEPT ![k] = [status |-> "reserved", amount |-> amt]]
            /\ stale' = (stale \ ks) \ {k}
            /\ wallet' = AddHold(ws, k, amt)
         \/ res' = rows /\ stale' = stale \ ks /\ wallet' = ws
  BY DEF Reserve, AddHold
<1>7. \A j \in Keys :
          /\ charged[j] # NoRow => rows[j].status \in {"settled", "refunded"}
          /\ j \in refunds => rows[j].status = "refunded" /\ charged[j] # NoRow
  BY <1>1, ReleaseAgrees DEF Sound
<1> HIDE DEF ws, sp, rows, amt, ks, k
<1>8. Sound(wallet', res', ledger', spent') /\ RowsAgree' /\ stale' \subseteq Keys
  <2>0. ws \in [Accounts -> Wallets] /\ rows \in Rows /\ sp \in [Accounts -> Nat]
        /\ Exact(ws, rows) /\ Within(ws) /\ Billed(ws, sp) /\ LedgerOf(ledger, ws)
    BY <1>4 DEF Sound
  <2>1. CASE /\ rows[k].status \in {"none", "released"}
             /\ res' = [rows EXCEPT ![k] = [status |-> "reserved", amount |-> amt]]
             /\ stale' = (stale \ ks) \ {k}
             /\ wallet' = AddHold(ws, k, amt)
    <3>1. res' \in Rows /\ wallet' \in [Accounts -> Wallets] /\ Exact(wallet', res')
      BY <1>2, <1>5, <2>0, <2>1, AddHoldExact
    <3>2. \A a \in Accounts : /\ wallet'[a].allowance = ws[a].allowance
                              /\ wallet'[a].remaining = ws[a].remaining
      BY <2>0, <2>1 DEF AddHold, Wallets
    <3>3. Within(wallet') /\ Billed(wallet', sp) /\ LedgerOf(ledger, wallet')
      BY <2>0, <3>2 DEF Within, Billed, LedgerOf, Accounts
    <3>4. RowsAgree'
      BY <1>2, <1>6, <1>7, <2>0, <2>1 DEF RowsAgree, Rows
    <3>5. stale' \subseteq Keys
      BY <1>1, <2>1 DEF TypeOK
    <3> QED
      BY <1>6, <2>0, <3>1, <3>3, <3>4, <3>5 DEF Sound
  <2>2. CASE res' = rows /\ stale' = stale \ ks /\ wallet' = ws
    <3>1. RowsAgree'
      BY <1>6, <1>7, <2>2 DEF RowsAgree
    <3>2. stale' \subseteq Keys
      BY <1>1, <2>2 DEF TypeOK
    <3> QED
      BY <1>4, <1>6, <2>2, <3>1, <3>2
  <2> QED
    BY <1>6, <2>1, <2>2
<1>9. /\ charged' \in [Keys -> Nat \cup {NoRow}] /\ ledger' \in [Users -> Int]
      /\ refunds' \subseteq Keys /\ plan' \in [Users -> Plans]
      /\ owner' \in [Spaces -> Users] /\ week' \in 0..MaxWeek
  BY <1>1, <1>6 DEF TypeOK
<1> QED
  BY <1>2, <1>8, <1>9, SoundIsInv

\* Refreshing a Space wallet on its own keeps the invariant.
LEMMA RefreshSpaceInv ==
    ASSUME Inv, NEW s \in Spaces, RefreshSpace(s)
    PROVE  Inv'
<1>1. TypeOK /\ RowsAgree /\ res \in Rows
  BY DEF Inv, TypeOK, Rows
<1>2. week \in Nat
  BY <1>1, WalletConstants DEF TypeOK
<1>3. Sound(wallet', res', ledger', spent')
  BY <1>2, SpaceRefreshSound DEF RefreshSpace
<1>4. RowsAgree'
  BY <1>1, ReleaseAgrees DEF RefreshSpace, RowsAgree
<1>5. /\ stale' \subseteq Keys /\ charged' \in [Keys -> Nat \cup {NoRow}]
      /\ ledger' \in [Users -> Int] /\ refunds' \subseteq Keys
      /\ plan' \in [Users -> Plans] /\ owner' \in [Spaces -> Users]
      /\ week' \in 0..MaxWeek /\ req' \in [Workers -> Requests \cup {Idle}]
  BY <1>1 DEF RefreshSpace, TypeOK
<1> QED
  BY <1>3, <1>4, <1>5, SoundIsInv

\* Releasing any set of reservations keeps the invariant.
LEMMA ReleaseKeysInv ==
    ASSUME Inv, NEW ks, ReleaseKeys(ks)
    PROVE  Inv'
<1>1. Sound(wallet, res, ledger, spent) /\ TypeOK /\ ReservedExact /\ RowsAgree /\ res \in Rows
  BY InvIsSound DEF Inv, Sound
<1>2. /\ res' \in Rows /\ wallet' \in [Accounts -> Wallets] /\ Exact(wallet', res')
      /\ \A a \in Accounts : \E n \in Nat : wallet'[a] = [wallet[a] EXCEPT !.reserved = n]
  <2>1. res' = ReleasedRows(ks) /\ wallet' = ReleasedWallets(ks)
    BY DEF ReleaseKeys
  <2>2. /\ ReleasedRows(ks) \in Rows
        /\ ReleasedWallets(ks) \in [Accounts -> Wallets]
        /\ Exact(ReleasedWallets(ks), ReleasedRows(ks))
        /\ \A a \in Accounts : \E n \in Nat :
              ReleasedWallets(ks)[a] = [wallet[a] EXCEPT !.reserved = n]
    BY <1>1, ReleaseExact
  <2> QED
    BY <2>1, <2>2, Zenon
<1>3. Within(wallet') /\ Billed(wallet', spent) /\ LedgerOf(ledger, wallet')
  BY <1>1, <1>2, ReservedOnly
<1>4. Sound(wallet', res', ledger', spent')
  BY <1>1, <1>2, <1>3 DEF Sound, ReleaseKeys
<1>5. RowsAgree'
  BY <1>1, ReleaseAgrees DEF ReleaseKeys, RowsAgree
<1>6. /\ stale' \subseteq Keys /\ charged' \in [Keys -> Nat \cup {NoRow}]
      /\ ledger' \in [Users -> Int] /\ refunds' \subseteq Keys
      /\ plan' \in [Users -> Plans] /\ owner' \in [Spaces -> Users]
      /\ week' \in 0..MaxWeek /\ req' \in [Workers -> Requests \cup {Idle}]
  BY <1>1 DEF ReleaseKeys, TypeOK
<1> QED
  BY <1>4, <1>5, <1>6, SoundIsInv

\* Settling never overdraws a wallet: the charge is capped by what the other
\* reservations leave, and the counter covers the reservation being settled.
LEMMA SettleInv ==
    ASSUME Inv, NEW k \in Keys, NEW usage \in Charges, Settle(k, usage)
    PROVE  Inv'
<1> DEFINE held == res[k].amount
           cap == [a \in AccountsOf(k) |-> MaximumCharge(wallet[a], held)]
           own == Least(usage, cap[UserOf[k]])
           charge == IF SpaceOf[k] = NoSpace THEN own ELSE Least(own, cap[SpaceOf[k]])
           q == [res EXCEPT ![k].status = "settled"]
<1>1. Sound(wallet, res, ledger, spent) /\ TypeOK /\ ReservedExact /\ RowsAgree /\ res \in Rows
  BY InvIsSound DEF Inv, Sound
<1>2. /\ res[k].status = "reserved"
      /\ wallet' = [a \in Accounts |-> IF a \in AccountsOf(k)
             THEN [wallet[a] EXCEPT !.remaining = @ - charge,
                                    !.reserved = AtLeastZero(@ - held)]
             ELSE wallet[a]]
      /\ res' = q
      /\ stale' = stale \ {k}
      /\ charged' = [charged EXCEPT ![k] = charge]
      /\ ledger' = [ledger EXCEPT ![UserOf[k]] = @ - charge]
      /\ spent' = [a \in Accounts |-> IF a \in AccountsOf(k)
                                       THEN spent[a] + charge ELSE spent[a]]
      /\ UNCHANGED <<refunds, plan, owner, week, req>>
  BY DEF Settle
<1>3. /\ q \in Rows
      /\ \A a \in Accounts : IF a \in AccountsOf(k)
            THEN /\ held <= wallet[a].reserved
                 /\ wallet[a].reserved - held = SumTo(Hold(q, a, Keys), NKeys)
            ELSE wallet[a].reserved = SumTo(Hold(q, a, Keys), NKeys)
  <2>1. "settled" \in Statuses \ {"reserved"}
    BY DEF Statuses
  <2> QED
    BY <1>1, <1>2, <2>1, DropHoldExact
<1>4. /\ UserOf[k] \in AccountsOf(k) /\ UserOf[k] \in Users
      /\ (SpaceOf[k] # NoSpace => SpaceOf[k] \in AccountsOf(k))
      /\ AccountsOf(k) \subseteq Accounts
      /\ \A a \in AccountsOf(k) : a = UserOf[k] \/ (SpaceOf[k] # NoSpace /\ a = SpaceOf[k])
      /\ \A a \in AccountsOf(k) \cap Users : a = UserOf[k]
  BY WalletConstants DEF AccountsOf, Accounts
<1>5. held \in Nat /\ usage \in Nat
  BY <1>1, WalletConstants DEF Rows
<1>6. \A a \in AccountsOf(k) :
          /\ wallet[a].remaining \in Nat /\ wallet[a].reserved \in Nat
          /\ held <= wallet[a].reserved
  BY <1>1, <1>3, <1>4 DEF Sound, Wallets
<1>7. \A a \in AccountsOf(k) : cap[a] \in Nat /\ cap[a] <= wallet[a].remaining
  <2> HIDE DEF held
  <2> QED
    BY <1>5, <1>6 DEF MaximumCharge, AtLeastZero
<1>8. charge \in Nat /\ \A a \in AccountsOf(k) : charge <= wallet[a].remaining
  <2>1. own \in Nat /\ own <= cap[UserOf[k]]
    <3> HIDE DEF cap
    <3> QED
      BY <1>4, <1>5, <1>7 DEF Least
  <2>2. charge \in Nat /\ charge <= cap[UserOf[k]]
        /\ (SpaceOf[k] # NoSpace => charge <= cap[SpaceOf[k]])
    <3> HIDE DEF cap, own
    <3> QED
      BY <1>4, <1>7, <2>1 DEF Least
  <2> HIDE DEF cap, own, charge
  <2> QED
    BY <1>4, <1>6, <1>7, <2>2
<1> HIDE DEF held, cap, own, charge, q
<1>9. ASSUME NEW a \in Accounts
      PROVE  /\ wallet'[a] \in Wallets
             /\ wallet'[a].reserved = SumTo(Hold(q, a, Keys), NKeys)
             /\ wallet'[a].allowance = wallet[a].allowance
             /\ wallet'[a].remaining = IF a \in AccountsOf(k) THEN wallet[a].remaining - charge
                                       ELSE wallet[a].remaining
  <2>0. wallet[a] \in Wallets
    BY <1>1 DEF Sound
  <2>1. CASE a \in AccountsOf(k)
    <3> DEFINE rem == wallet[a].remaining - charge
               rsv == AtLeastZero(wallet[a].reserved - held)
    <3>1. rem \in Nat
      BY <1>6, <1>8, <2>1
    <3>2. rsv \in Nat /\ rsv = SumTo(Hold(q, a, Keys), NKeys)
      BY <1>3, <1>5, <1>6, <2>1 DEF AtLeastZero
    <3>3. wallet'[a] = [wallet[a] EXCEPT !.remaining = rem, !.reserved = rsv]
      BY <1>2, <2>1
    <3> HIDE DEF rem, rsv
    <3>4. /\ wallet'[a] \in Wallets /\ wallet'[a].reserved = rsv
          /\ wallet'[a].allowance = wallet[a].allowance /\ wallet'[a].remaining = rem
      BY <2>0, <3>1, <3>2, <3>3 DEF Wallets
    <3> QED
      BY <2>1, <3>2, <3>4 DEF rem
  <2>2. CASE a \notin AccountsOf(k)
    BY <1>2, <1>3, <2>0, <2>2
  <2> QED
    BY <2>1, <2>2
<1>10. \A a \in Accounts : /\ wallet[a].allowance \in Nat /\ wallet[a].remaining \in Nat
                           /\ wallet[a].remaining <= wallet[a].allowance
                           /\ spent[a] \in Nat
                           /\ wallet[a].allowance - wallet[a].remaining <= spent[a]
  BY <1>1 DEF Sound, Wallets, Within, Billed
<1>11. wallet' \in [Accounts -> Wallets] /\ spent' \in [Accounts -> Nat]
  <2>1. wallet' = [a \in Accounts |-> wallet'[a]]
    BY <1>2
  <2>2. wallet' \in [Accounts -> Wallets]
    BY <1>9, <2>1
  <2>3. \A a \in Accounts : spent[a] + charge \in Nat /\ spent[a] \in Nat
    BY <1>8, <1>10
  <2>4. spent' \in [Accounts -> Nat]
    BY <1>2, <2>3
  <2> QED
    BY <2>2, <2>4
<1>12. Exact(wallet', res')
  BY <1>2, <1>9 DEF Exact
<1>13. Within(wallet') /\ Billed(wallet', spent')
  <2>1. ASSUME NEW a \in Accounts
        PROVE  /\ wallet'[a].remaining <= wallet'[a].allowance
               /\ wallet'[a].allowance - wallet'[a].remaining <= spent'[a]
    <3>1. spent'[a] = IF a \in AccountsOf(k) THEN spent[a] + charge ELSE spent[a]
      BY <1>2
    <3> QED
      BY <1>8, <1>9, <1>10, <3>1
  <2> QED
    BY <2>1 DEF Within, Billed
<1>14. ledger' \in [Users -> Int] /\ LedgerOf(ledger', wallet')
  <2>0. ledger \in [Users -> Int] /\ Users \subseteq Accounts
        /\ \A u \in Users : ledger[u] = wallet[u].remaining
    BY <1>1 DEF TypeOK, Sound, LedgerOf, Accounts
  <2>1. ledger' \in [Users -> Int]
    <3>1. ledger[UserOf[k]] - charge \in Int
      BY <1>4, <1>8, <2>0
    <3>2. ledger' = [ledger EXCEPT ![UserOf[k]] = ledger[UserOf[k]] - charge]
      BY <1>2
    <3> QED
      BY <2>0, <3>1, <3>2
  <2>2. ASSUME NEW u \in Users PROVE ledger'[u] = wallet'[u].remaining
    <3>1. ledger'[u] = IF u = UserOf[k] THEN ledger[u] - charge ELSE ledger[u]
      BY <1>2, <2>0
    <3>2. u \in AccountsOf(k) <=> u = UserOf[k]
      BY <1>4
    <3> QED
      BY <1>9, <2>0, <3>1, <3>2
  <2> QED
    BY <2>1, <2>2 DEF LedgerOf
<1>15. RowsAgree'
  <2>1. \A j \in Keys : j # k => res'[j] = res[j] /\ charged'[j] = charged[j]
    BY <1>1, <1>2 DEF TypeOK, q
  <2>2. res'[k].status = "settled" /\ k \notin refunds
    BY <1>1, <1>2 DEF RowsAgree, q, Rows
  <2> QED
    BY <1>1, <1>2, <2>1, <2>2 DEF RowsAgree
<1>16. /\ stale' \subseteq Keys /\ charged' \in [Keys -> Nat \cup {NoRow}]
       /\ refunds' \subseteq Keys
       /\ plan' \in [Users -> Plans] /\ owner' \in [Spaces -> Users]
       /\ week' \in 0..MaxWeek /\ req' \in [Workers -> Requests \cup {Idle}]
  BY <1>1, <1>2, <1>8 DEF TypeOK
<1>17. Sound(wallet', res', ledger', spent')
  BY <1>2, <1>3, <1>11, <1>12, <1>13, <1>14 DEF Sound
<1> QED
  BY <1>14, <1>15, <1>16, <1>17, SoundIsInv

\* A refund never fills a wallet above its allowance.
LEMMA RefundInv ==
    ASSUME Inv, NEW k \in Keys, Refund(k)
    PROVE  Inv'
<1> DEFINE q == [res EXCEPT ![k].status = "refunded"]
           c == charged[k]
           back(a) == Refundable(wallet[a], c)
<1>1. Sound(wallet, res, ledger, spent) /\ TypeOK /\ ReservedExact /\ RowsAgree /\ res \in Rows
  BY InvIsSound DEF Inv, Sound
<1>2. c \in Nat /\ res[k].status \in {"settled", "refunded"}
  BY <1>1 DEF Refund, TypeOK, RowsAgree, NoRow
<1>3. UserOf[k] \in Users /\ Users \subseteq Accounts
      /\ \A u \in Users : u \in AccountsOf(k) <=> u = UserOf[k]
  BY WalletConstants DEF AccountsOf, Accounts
<1>4. \A a \in Accounts : /\ wallet[a] \in Wallets
                          /\ wallet[a].allowance \in Nat /\ wallet[a].remaining \in Nat
                          /\ wallet[a].remaining <= wallet[a].allowance
                          /\ spent[a] \in Nat
                          /\ wallet[a].allowance - wallet[a].remaining <= spent[a]
  BY <1>1 DEF Sound, Wallets, Within, Billed
<1>5. ASSUME NEW a \in Accounts
      PROVE  /\ back(a) \in Nat /\ back(a) <= c
             /\ wallet[a].remaining + back(a) <= wallet[a].allowance
             /\ Least(wallet[a].allowance, wallet[a].remaining + back(a))
                    = wallet[a].remaining + back(a)
             /\ AtLeastZero(spent[a] - c) \in Nat
             /\ wallet[a].allowance - (wallet[a].remaining + back(a)) <= AtLeastZero(spent[a] - c)
  <2> HIDE DEF c
  <2> QED
    BY <1>2, <1>4 DEF Refundable, AtLeastZero, Least
<1>6. /\ wallet' = [a \in Accounts |-> IF a \in AccountsOf(k)
          THEN [wallet[a] EXCEPT !.remaining = Least(wallet[a].allowance, @ + back(a))]
          ELSE wallet[a]]
      /\ ledger' = [ledger EXCEPT ![UserOf[k]] = @ + back(UserOf[k])]
      /\ spent' = [a \in Accounts |-> IF a \in AccountsOf(k)
                    THEN AtLeastZero(spent[a] - c) ELSE spent[a]]
      /\ refunds' = refunds \cup {k} /\ res' = q
      /\ UNCHANGED <<stale, charged, plan, owner, week, req>>
  BY DEF Refund
<1> HIDE DEF back, c, q
<1>7. ASSUME NEW a \in Accounts
      PROVE  /\ wallet'[a] \in Wallets /\ wallet'[a].reserved = wallet[a].reserved
             /\ wallet'[a].allowance = wallet[a].allowance
             /\ wallet'[a].remaining = IF a \in AccountsOf(k) THEN wallet[a].remaining + back(a)
                                       ELSE wallet[a].remaining
  <2>1. CASE a \in AccountsOf(k)
    <3> DEFINE rem == wallet[a].remaining + back(a)
    <3>1. rem \in Nat /\ wallet'[a] = [wallet[a] EXCEPT !.remaining = rem]
      BY <1>4, <1>5, <1>6, <2>1
    <3> HIDE DEF rem
    <3>2. /\ wallet'[a] \in Wallets /\ wallet'[a].reserved = wallet[a].reserved
          /\ wallet'[a].allowance = wallet[a].allowance /\ wallet'[a].remaining = rem
      BY <1>4, <3>1 DEF Wallets
    <3> QED
      BY <2>1, <3>2 DEF rem
  <2>2. CASE a \notin AccountsOf(k)
    BY <1>4, <1>6, <2>2
  <2> QED
    BY <2>1, <2>2
<1>8. wallet' \in [Accounts -> Wallets] /\ spent' \in [Accounts -> Nat]
  BY <1>4, <1>5, <1>6, <1>7
<1>9. res' \in Rows /\ \A j \in Keys : /\ j # k => res'[j] = res[j]
                                       /\ res'[k].status = "refunded"
  BY <1>1, <1>6 DEF Rows, Statuses, q
<1>10. Exact(wallet', res')
  <2>1. \A a \in Accounts : Hold(res', a, Keys) = Hold(res, a, Keys)
    BY <1>2, <1>9 DEF Hold
  <2> QED
    BY <1>1, <1>7, <2>1 DEF Exact, Sound
<1>11. Within(wallet') /\ Billed(wallet', spent')
  <2>1. ASSUME NEW a \in Accounts
        PROVE  /\ wallet'[a].remaining <= wallet'[a].allowance
               /\ wallet'[a].allowance - wallet'[a].remaining <= spent'[a]
    <3>1. spent'[a] = IF a \in AccountsOf(k) THEN AtLeastZero(spent[a] - c) ELSE spent[a]
      BY <1>6
    <3> QED
      BY <1>4, <1>5, <1>7, <3>1
  <2> QED
    BY <2>1 DEF Within, Billed
<1>12. ledger' \in [Users -> Int] /\ LedgerOf(ledger', wallet')
  <2>0. ledger \in [Users -> Int] /\ \A u \in Users : ledger[u] = wallet[u].remaining
    BY <1>1 DEF TypeOK, Sound, LedgerOf
  <2>1. ledger' \in [Users -> Int]
    BY <1>3, <1>5, <1>6, <2>0
  <2>2. ASSUME NEW u \in Users PROVE ledger'[u] = wallet'[u].remaining
    <3>1. ledger'[u] = IF u = UserOf[k] THEN ledger[u] + back(u) ELSE ledger[u]
      BY <1>6, <2>0
    <3> QED
      BY <1>3, <1>7, <2>0, <3>1
  <2> QED
    BY <2>1, <2>2 DEF LedgerOf
<1>13. RowsAgree'
  <2>1. charged[k] # NoRow
    BY DEF Refund
  <2> QED
    BY <1>1, <1>6, <1>9, <2>1 DEF RowsAgree
<1>14. /\ stale' \subseteq Keys /\ charged' \in [Keys -> Nat \cup {NoRow}]
       /\ refunds' \subseteq Keys
       /\ plan' \in [Users -> Plans] /\ owner' \in [Spaces -> Users]
       /\ week' \in 0..MaxWeek /\ req' \in [Workers -> Requests \cup {Idle}]
  BY <1>1, <1>6 DEF TypeOK
<1>15. Sound(wallet', res', ledger', spent')
  BY <1>8, <1>9, <1>10, <1>11, <1>12 DEF Sound
<1> QED
  BY <1>12, <1>13, <1>14, <1>15, SoundIsInv

\* Handing a Space over applies a second plan to wallets that are sound.
LEMMA TransferInv ==
    ASSUME Inv, NEW s \in Spaces, NEW u \in Users, TransferOwnership(s, u)
    PROVE  Inv'
<1> DEFINE ws == SpaceRefreshed(s, week)
           rows == ReleasedRows(StaleOfSpace(s))
           sp == SpaceSpent(s, week)
           allowance == SpaceAllowance[plan[u]]
<1>1. TypeOK /\ RowsAgree /\ res \in Rows
  BY DEF Inv, TypeOK, Rows
<1>2. week \in Nat /\ allowance \in Nat /\ s \in Accounts /\ Users \subseteq Accounts
      /\ s \notin Users
  BY <1>1, WalletConstants DEF TypeOK, Accounts
<1>3. Sound(ws, rows, ledger, sp)
  BY <1>2, SpaceRefreshSound
<1>4. /\ wallet' = [ws EXCEPT ![s] = Refreshed(ws[s], allowance, week)]
      /\ spent' = [sp EXCEPT ![s] = IF Granted(ws[s], week) THEN 0 ELSE sp[s]]
      /\ res' = rows /\ owner' = [owner EXCEPT ![s] = u]
      /\ stale' = stale \ StaleOfSpace(s)
      /\ UNCHANGED <<charged, refunds, ledger, plan, week, req>>
  BY DEF TransferOwnership
<1> HIDE DEF ws, rows, sp, allowance
<1>5. /\ ws \in [Accounts -> Wallets] /\ rows \in Rows /\ sp \in [Accounts -> Nat]
      /\ Exact(ws, rows) /\ Within(ws) /\ Billed(ws, sp) /\ LedgerOf(ledger, ws)
  BY <1>3 DEF Sound
<1>6. /\ wallet' \in [Accounts -> Wallets] /\ spent' \in [Accounts -> Nat]
      /\ Exact(wallet', rows) /\ Within(wallet') /\ Billed(wallet', spent')
  BY <1>2, <1>4, <1>5, RefreshAccount
<1>7. LedgerOf(ledger, wallet')
  BY <1>2, <1>4, <1>5 DEF LedgerOf
<1>8. Sound(wallet', res', ledger', spent')
  BY <1>4, <1>5, <1>6, <1>7 DEF Sound
<1>9. RowsAgree'
  BY <1>1, <1>4, ReleaseAgrees DEF RowsAgree, rows
<1>10. /\ stale' \subseteq Keys /\ charged' \in [Keys -> Nat \cup {NoRow}]
       /\ ledger' \in [Users -> Int] /\ refunds' \subseteq Keys
       /\ plan' \in [Users -> Plans] /\ owner' \in [Spaces -> Users]
       /\ week' \in 0..MaxWeek /\ req' \in [Workers -> Requests \cup {Idle}]
  BY <1>1, <1>4 DEF TypeOK
<1> QED
  BY <1>8, <1>9, <1>10, SoundIsInv

\* Time, plans, the license read and a refused request leave the
\* wallets and the rows alone.
LEMMA OtherStepsInv ==
    ASSUME Inv, UNCHANGED <<wallet, res, charged, refunds, ledger, spent>>,
           stale' \subseteq Keys, plan' \in [Users -> Plans], owner' \in [Spaces -> Users],
           week' \in 0..MaxWeek, req' \in [Workers -> Requests \cup {Idle}]
    PROVE  Inv'
<1>1. Sound(wallet, res, ledger, spent)
  BY InvIsSound
<1>2. Sound(wallet', res', ledger', spent')
  BY <1>1
<1>3. RowsAgree'
  BY DEF Inv, RowsAgree
<1>4. charged' \in [Keys -> Nat \cup {NoRow}] /\ ledger' \in [Users -> Int] /\ refunds' \subseteq Keys
  BY DEF Inv, TypeOK
<1> QED
  BY <1>2, <1>3, <1>4, SoundIsInv

\* Every step of the wallet service keeps the invariant.
LEMMA NextInv == Inv /\ [Next]_vars => Inv'
<1> SUFFICES ASSUME Inv, [Next]_vars PROVE Inv'
  OBVIOUS
<1>0. TypeOK
  BY DEF Inv
<1>1. ASSUME NEW w \in Workers, NEW k \in Keys, ReadLicense(w, k) PROVE Inv'
  <2>1. [stage |-> "license", key |-> k, plan |-> plan[UserOf[k]], now |-> week] \in Requests
    BY <1>0, WalletConstants DEF TypeOK, Requests
  <2>2. req' \in [Workers -> Requests \cup {Idle}]
    BY <1>0, <1>1, <2>1 DEF ReadLicense, TypeOK
  <2> QED
    BY <1>0, <1>1, <2>2, OtherStepsInv DEF ReadLicense, TypeOK
<1>2. ASSUME NEW w \in Workers, GetOrCreateWallet(w) PROVE Inv'
  BY <1>2, GetOrCreateWalletInv
<1>3. ASSUME NEW w \in Workers, NEW n \in Amounts, NEW p \in BOOLEAN, Reserve(w, n, p)
      PROVE  Inv'
  BY <1>3, ReserveInv
<1>4. ASSUME NEW w \in Workers, ReserveRefused(w) PROVE Inv'
  <2>1. req' \in [Workers -> Requests \cup {Idle}]
    BY <1>0, <1>4, RequestType DEF ReserveRefused
  <2> QED
    BY <1>0, <1>4, <2>1, OtherStepsInv DEF ReserveRefused, TypeOK
<1>5. ASSUME NEW s \in Spaces, RefreshSpace(s) PROVE Inv'
  BY <1>5, RefreshSpaceInv
<1>6. ASSUME NEW k \in Keys, Release(k) PROVE Inv'
  BY <1>6, ReleaseKeysInv DEF Release
<1>7. ASSUME NEW k \in Keys, NEW n \in Charges, Settle(k, n) PROVE Inv'
  BY <1>7, SettleInv
<1>8. ASSUME NEW k \in Keys, Refund(k) PROVE Inv'
  BY <1>8, RefundInv
<1>9. ASSUME NEW k \in Keys, GrowStale(k) PROVE Inv'
  BY <1>0, <1>9, OtherStepsInv DEF GrowStale, TypeOK
<1>10. ASSUME NEW r \in Runs, ReleaseRun(r) PROVE Inv'
  BY <1>10, ReleaseKeysInv DEF ReleaseRun
<1>11. ASSUME NewWeek PROVE Inv'
  <2>1. week' \in 0..MaxWeek
    BY <1>0, <1>11, WalletConstants DEF NewWeek, TypeOK
  <2> QED
    BY <1>0, <1>11, <2>1, OtherStepsInv DEF NewWeek, TypeOK
<1>12. ASSUME NEW u \in Users, NEW p \in Plans, ChangePlan(u, p) PROVE Inv'
  BY <1>0, <1>12, OtherStepsInv DEF ChangePlan, TypeOK
<1>13. ASSUME NEW u \in Users, NEW s \in Spaces, TransferOwnership(s, u) PROVE Inv'
  BY <1>13, TransferInv
<1>14. CASE UNCHANGED vars
  BY <1>0, <1>14, OtherStepsInv DEF vars, TypeOK
<1> QED
  BY <1>1, <1>2, <1>3, <1>4, <1>5, <1>6, <1>7, <1>8, <1>9, <1>10, <1>11, <1>12, <1>13, <1>14
     DEF Next

\* The invariant holds before any wallet exists.
LEMMA InitInv == Init => Inv
<1> SUFFICES ASSUME Init PROVE Inv
  OBVIOUS
<1>1. TypeOK
  BY WalletConstants DEF Init, TypeOK, Wallets, Statuses, NoRow, Keys
<1>2. ReservedExact
  <2>1. \A a \in Accounts : /\ Hold(res, a, Keys) \in [1..NKeys -> Int]
                            /\ \A i \in 1..NKeys : Hold(res, a, Keys)[i] = 0
    BY DEF Init, Hold, Keys
  <2>2. \A a \in Accounts : SumTo(Hold(res, a, Keys), NKeys) = 0
    BY <2>1, SumZero, WalletConstants
  <2> QED
    BY <2>2 DEF Init, ReservedExact
<1>3. RemainingWithinAllowance /\ NeverOverbilled /\ LedgerReconciles
  BY DEF Init, RemainingWithinAllowance, NeverOverbilled, LedgerReconciles, Accounts
<1>4. RowsAgree
  BY DEF Init, RowsAgree
<1> QED
  BY <1>1, <1>2, <1>3, <1>4 DEF Inv

\* The wallet invariants hold in every reachable state, whatever the number of
\* members, Spaces, keys, plans and concurrent requests.
THEOREM WalletInvariant == Spec => []Inv
BY InitInv, NextInv, PTL DEF Spec

\* Every wallet's counter is exactly what its open reservations hold.
THEOREM ReservedExactHolds == Spec => []ReservedExact
<1>1. Inv => ReservedExact
  BY DEF Inv
<1> QED
  BY <1>1, WalletInvariant, PTL

\* No settlement, refund, reset or plan change overdraws or overfills a wallet.
THEOREM RemainingWithinAllowanceHolds == Spec => []RemainingWithinAllowance
<1>1. Inv => RemainingWithinAllowance
  BY DEF Inv
<1> QED
  BY <1>1, WalletInvariant, PTL

\* Members are never billed more than what was charged.
THEOREM NeverOverbilledHolds == Spec => []NeverOverbilled
<1>1. Inv => NeverOverbilled
  BY DEF Inv
<1> QED
  BY <1>1, WalletInvariant, PTL

\* The ledger explains every personal wallet.
THEOREM LedgerReconcilesHolds == Spec => []LedgerReconciles
<1>1. Inv => LedgerReconciles
  BY DEF Inv
<1> QED
  BY <1>1, WalletInvariant, PTL
\* The declared types and the CHECK constraints of the tables hold.
THEOREM TypeOKHolds == Spec => []TypeOK
<1>1. Inv => TypeOK
  BY DEF Inv
<1> QED
  BY <1>1, WalletInvariant, PTL

\* Ledger rows are only ever added: consumption rows by a settlement, refund
\* rows by a refund.
LEMMA LedgerRowsKept ==
    ASSUME [Next]_vars
    PROVE  /\ refunds \subseteq refunds'
           /\ charged' = charged \/ \E k \in Keys, n \in Charges : Settle(k, n)
<1> DEFINE Kept == /\ refunds \subseteq refunds'
                   /\ charged' = charged \/ \E k \in Keys, n \in Charges : Settle(k, n)
<1>1. ASSUME NEW w \in Workers, NEW k \in Keys, ReadLicense(w, k) PROVE Kept
  BY <1>1 DEF ReadLicense
<1>2. ASSUME NEW w \in Workers, GetOrCreateWallet(w) PROVE Kept
  BY <1>2 DEF GetOrCreateWallet
<1>3. ASSUME NEW w \in Workers, NEW n \in Amounts, NEW p \in BOOLEAN, Reserve(w, n, p) PROVE Kept
  BY <1>3 DEF Reserve
<1>4. ASSUME NEW w \in Workers, ReserveRefused(w) PROVE Kept
  BY <1>4 DEF ReserveRefused
<1>5. ASSUME NEW s \in Spaces, RefreshSpace(s) PROVE Kept
  BY <1>5 DEF RefreshSpace
<1>6. ASSUME NEW k \in Keys, Release(k) PROVE Kept
  BY <1>6 DEF Release, ReleaseKeys
<1>7. ASSUME NEW k \in Keys, NEW n \in Charges, Settle(k, n) PROVE Kept
  BY <1>7 DEF Settle
<1>8. ASSUME NEW k \in Keys, Refund(k) PROVE Kept
  BY <1>8 DEF Refund
<1>9. ASSUME NEW k \in Keys, GrowStale(k) PROVE Kept
  BY <1>9 DEF GrowStale
<1>10. ASSUME NEW r \in Runs, ReleaseRun(r) PROVE Kept
  BY <1>10 DEF ReleaseRun, ReleaseKeys
<1>11. ASSUME NewWeek PROVE Kept
  BY <1>11 DEF NewWeek
<1>12. ASSUME NEW u \in Users, NEW p \in Plans, ChangePlan(u, p) PROVE Kept
  BY <1>12 DEF ChangePlan
<1>13. ASSUME NEW u \in Users, NEW s \in Spaces, TransferOwnership(s, u) PROVE Kept
  BY <1>13 DEF TransferOwnership
<1>14. CASE UNCHANGED vars
  BY <1>14 DEF vars
<1> QED
  BY <1>1, <1>2, <1>3, <1>4, <1>5, <1>6, <1>7, <1>8, <1>9, <1>10, <1>11, <1>12, <1>13, <1>14
     DEF Next

\* A consumption row is final, and so is the status of a charged reservation.
THEOREM ChargedOnceHolds == Spec => ChargedOnce
<1> DEFINE Step == \A k \in Keys : charged[k] # NoRow =>
        /\ charged'[k] = charged[k]
        /\ res'[k].status \in {"settled", "refunded"}
        /\ k \in refunds => res'[k].status = "refunded"
<1>1. Inv /\ Inv' /\ [Next]_vars => [Step]_vars
  <2> SUFFICES ASSUME Inv, Inv', [Next]_vars, NEW k \in Keys, charged[k] # NoRow
               PROVE  /\ charged'[k] = charged[k]
                      /\ res'[k].status \in {"settled", "refunded"}
                      /\ k \in refunds => res'[k].status = "refunded"
    OBVIOUS
  <2>1. RowsAgree /\ RowsAgree' /\ TypeOK
    BY DEF Inv
  <2>2. charged'[k] = charged[k]
    <3>1. CASE \E j \in Keys, n \in Charges : Settle(j, n)
      <4>1. PICK j \in Keys, n \in Charges : Settle(j, n)
        BY <3>1
      <4>2. j # k
        BY <2>1, <4>1 DEF Settle, RowsAgree
      <4> QED
        BY <2>1, <4>1, <4>2 DEF Settle, TypeOK
    <3>2. CASE charged' = charged
      BY <3>2
    <3> QED
      BY <3>1, <3>2, LedgerRowsKept
  <2>3. refunds \subseteq refunds'
    BY LedgerRowsKept
  <2> QED
    BY <2>1, <2>2, <2>3 DEF RowsAgree
<1>2. Spec => []Inv
  BY WalletInvariant
<1>3. Spec => [][Step]_vars
  BY <1>1, <1>2, PTL DEF Spec
<1> QED
  BY <1>3 DEF ChargedOnce

-----------------------------------------------------------------------------
(* What holds in a wallet stays covered.                                    *)

\* Wallet v after a step still covers its reservations if w before it did and
\* the allowance did not shrink.
KeepsBacking(v, w) ==
    w.reserved <= w.remaining /\ v.allowance >= w.allowance => v.reserved <= v.remaining

\* A release lowers the reserved counter and nothing else.
LEMMA ReleaseLowers ==
    ASSUME Inv, NEW ks, NEW a \in Accounts
    PROVE  LET v == ReleasedWallets(ks)[a]
           IN /\ v \in Wallets /\ wallet[a] \in Wallets
              /\ v.reserved <= wallet[a].reserved
              /\ v.allowance = wallet[a].allowance /\ v.remaining = wallet[a].remaining
              /\ v.remaining <= v.allowance
<1> DEFINE w == ReleasedWallets(ks)
           held == SumTo(Hold(res, a, ks), NKeys)
<1>1. Sound(wallet, res, ledger, spent) /\ TypeOK /\ ReservedExact /\ res \in Rows
  BY InvIsSound DEF Inv, Sound
<1>2. w \in [Accounts -> Wallets] /\ wallet \in [Accounts -> Wallets]
      /\ \A b \in Accounts : \E n \in Nat : w[b] = [wallet[b] EXCEPT !.reserved = n]
  BY <1>1, ReleaseExact DEF TypeOK
<1>3. held \in Nat
  BY <1>1, HoldType, SumNat, WalletConstants
<1>4. wallet[a] \in Wallets /\ wallet[a].reserved \in Nat
  BY <1>2 DEF Wallets
<1>5. w[a].reserved = AtLeastZero(wallet[a].reserved - held)
  BY <1>4 DEF ReleasedWallets, Wallets
<1> HIDE DEF w, held
<1>6. w[a].reserved <= wallet[a].reserved
  BY <1>3, <1>4, <1>5 DEF AtLeastZero
<1>7. /\ w[a].allowance = wallet[a].allowance /\ w[a].remaining = wallet[a].remaining
      /\ Within(w)
  BY <1>1, <1>2, ReservedOnly
<1> QED
  BY <1>2, <1>4, <1>6, <1>7 DEF Within, w

\* Applying an allowance that is not smaller never lowers what remains: what a
\* plan change carries over is at most what was used.
LEMMA RefreshBacks ==
    ASSUME NEW w \in Wallets, w.remaining <= w.allowance, NEW o \in Wallets,
           w.reserved <= o.reserved, w.allowance = o.allowance, w.remaining = o.remaining,
           NEW allowance \in Nat, NEW now \in Nat
    PROVE  KeepsBacking(Refreshed(w, allowance, now), o)
<1> DEFINE v == Refreshed(w, allowance, now)
<1>1. /\ v \in Wallets /\ v.reserved = w.reserved
      /\ v.allowance - v.remaining <= w.allowance - w.remaining
  BY RefreshSound
<1> HIDE DEF v
<1>2. /\ v.allowance \in Nat /\ v.remaining \in Nat /\ v.reserved \in Nat
      /\ w.allowance \in Nat /\ w.remaining \in Nat /\ o.reserved \in Nat
  BY <1>1 DEF Wallets
<1> QED
  BY <1>1, <1>2 DEF KeepsBacking, v

\* Refreshing a Space wallet.
LEMMA SpaceRefreshBacks ==
    ASSUME Inv, NEW s \in Spaces, NEW now \in Nat, NEW a \in Accounts
    PROVE  KeepsBacking(SpaceRefreshed(s, now)[a], wallet[a])
<1> DEFINE w == ReleasedWallets(StaleOfSpace(s))
           allowance == SpaceAllowance[plan[owner[s]]]
<1>1. /\ w[a] \in Wallets /\ wallet[a] \in Wallets /\ w[a].reserved <= wallet[a].reserved
      /\ w[a].allowance = wallet[a].allowance /\ w[a].remaining = wallet[a].remaining
      /\ w[a].remaining <= w[a].allowance
  BY ReleaseLowers
<1>2. allowance \in Nat
  BY WalletConstants DEF Inv, TypeOK
<1>3. SpaceRefreshed(s, now)[a] = IF a = s THEN Refreshed(w[s], allowance, now) ELSE w[a]
  BY DEF SpaceRefreshed, ReleasedWallets
<1> HIDE DEF w, allowance
<1>4. CASE a = s
  BY <1>1, <1>2, <1>3, <1>4, RefreshBacks
<1>5. CASE a # s
  <2>1. wallet[a].reserved \in Nat /\ w[a].reserved \in Nat /\ wallet[a].remaining \in Nat
    BY <1>1 DEF Wallets
  <2> QED
    BY <1>1, <1>3, <1>5, <2>1 DEF KeepsBacking
<1> QED
  BY <1>4, <1>5

\* The plan a request has read is applied.
LEMMA GetOrCreateWalletBacks ==
    ASSUME Inv, NEW x \in Workers, GetOrCreateWallet(x), NEW a \in Accounts
    PROVE  KeepsBacking(wallet'[a], wallet[a])
<1> DEFINE u == UserOf[req[x].key]
           w == ReleasedWallets(StalePersonal(u))
           allowance == PersonalAllowance[req[x].plan]
           now == req[x].now
<1>1. /\ w[a] \in Wallets /\ wallet[a] \in Wallets /\ w[a].reserved <= wallet[a].reserved
      /\ w[a].allowance = wallet[a].allowance /\ w[a].remaining = wallet[a].remaining
      /\ w[a].remaining <= w[a].allowance
  BY ReleaseLowers
<1>2. allowance \in Nat /\ now \in Nat
  BY RequestType, WalletConstants DEF Inv, GetOrCreateWallet
<1>3. wallet'[a] = IF a = u THEN Refreshed(w[u], allowance, now) ELSE w[a]
  BY DEF GetOrCreateWallet, ReleasedWallets
<1> HIDE DEF w, allowance, now, u
<1>4. CASE a = u
  BY <1>1, <1>2, <1>3, <1>4, RefreshBacks
<1>5. CASE a # u
  <2>1. wallet[a].reserved \in Nat /\ w[a].reserved \in Nat /\ wallet[a].remaining \in Nat
    BY <1>1 DEF Wallets
  <2> QED
    BY <1>1, <1>3, <1>5, <2>1 DEF KeepsBacking
<1> QED
  BY <1>4, <1>5

\* What a request gets is available in every wallet it is held in.
LEMMA GrantIsAvailable ==
    ASSUME NEW ws \in [Accounts -> Wallets], NEW k \in Keys, NEW amount \in Amounts,
           NEW partial \in BOOLEAN, ReserveAmount(ws, k, amount, partial) > 0,
           NEW a \in AccountsOf(k)
    PROVE  /\ ReserveAmount(ws, k, amount, partial) \in Nat
           /\ ws[a].reserved + ReserveAmount(ws, k, amount, partial) <= ws[a].remaining
<1> DEFINE amt == ReserveAmount(ws, k, amount, partial)
           u == UserOf[k]
           s == SpaceOf[k]
           least == IF s = NoSpace THEN Available(ws[u]) ELSE Least(Available(ws[u]), Available(ws[s]))
<1>1. u \in Accounts /\ (s # NoSpace => s \in Accounts) /\ amount \in Nat
      /\ (a = u \/ (s # NoSpace /\ a = s))
  BY WalletConstants DEF Accounts, AccountsOf
<1>2. \A b \in Accounts : /\ ws[b].reserved \in Nat /\ ws[b].remaining \in Nat
                          /\ Available(ws[b]) \in Nat
                          /\ Available(ws[b]) > 0 =>
                                Available(ws[b]) = ws[b].remaining - ws[b].reserved
  BY DEF Wallets, Available, AtLeastZero
<1>3. least \in Nat /\ least <= Available(ws[a])
  BY <1>1, <1>2 DEF Least
<1>4. amt = IF least >= amount THEN amount ELSE IF partial THEN least ELSE 0
  <2>1. CASE least >= amount
    BY <1>1, <1>3, <2>1 DEF ReserveAmount
  <2>2. CASE ~(least >= amount) /\ partial = TRUE
    BY <1>1, <1>3, <2>2 DEF ReserveAmount
  <2>3. CASE ~(least >= amount) /\ partial = FALSE
    BY <1>1, <1>3, <2>3 DEF ReserveAmount
  <2> QED
    BY <2>1, <2>2, <2>3
<1>5. amt > 0
  OBVIOUS
<1> HIDE DEF amt, least
<1>6. amt \in Nat /\ amt <= Available(ws[a])
  BY <1>1, <1>2, <1>3, <1>4
<1> QED
  BY <1>1, <1>2, <1>5, <1>6 DEF amt

\* A reservation is granted only from what is left beside the others.
LEMMA ReserveBacks ==
    ASSUME Inv, NEW x \in Workers, NEW amount \in Amounts, NEW partial \in BOOLEAN,
           Reserve(x, amount, partial), NEW a \in Accounts
    PROVE  KeepsBacking(wallet'[a], wallet[a])
<1> DEFINE k == req[x].key
           s == SpaceOf[k]
           now == req[x].now
           ws == IF s = NoSpace THEN wallet ELSE SpaceRefreshed(s, now)
           amt == ReserveAmount(ws, k, amount, partial)
<1>1. k \in Keys /\ now \in Nat
  BY RequestType DEF Inv, Reserve
<1>2. s = NoSpace \/ s \in Spaces
  BY <1>1, WalletConstants
<1>3. ws \in [Accounts -> Wallets]
  BY <1>1, <1>2, SpaceRefreshSound DEF Sound, Inv, TypeOK
<1>4. KeepsBacking(ws[a], wallet[a])
  <2>1. CASE s = NoSpace
    BY <2>1 DEF KeepsBacking
  <2>2. CASE s # NoSpace
    BY <1>1, <1>2, <2>2, SpaceRefreshBacks
  <2> QED
    BY <2>1, <2>2
<1>5. \/ amt > 0 /\ wallet' = AddHold(ws, k, amt)
      \/ wallet' = ws
  BY DEF Reserve, AddHold
<1>6. CASE amt > 0 /\ wallet' = AddHold(ws, k, amt)
  <2>1. CASE a \in AccountsOf(k)
    <3>1. amt \in Nat /\ ws[a].reserved + amt <= ws[a].remaining
      BY <1>1, <1>3, <1>6, <2>1, GrantIsAvailable
    <3> HIDE DEF ws, amt, k
    <3>2. wallet'[a] = [ws[a] EXCEPT !.reserved = ws[a].reserved + amt] /\ ws[a] \in Wallets
      BY <1>3, <1>6, <2>1 DEF AddHold
    <3>3. wallet'[a].reserved = ws[a].reserved + amt /\ wallet'[a].remaining = ws[a].remaining
      BY <3>2 DEF Wallets
    <3> QED
      BY <3>1, <3>3 DEF KeepsBacking
  <2>2. CASE a \notin AccountsOf(k)
    BY <1>4, <1>6, <2>2 DEF AddHold
  <2> QED
    BY <2>1, <2>2
<1> QED
  BY <1>4, <1>5, <1>6

\* A settlement takes at most what the other reservations leave.
LEMMA SettleBacks ==
    ASSUME Inv, NEW k \in Keys, NEW usage \in Charges, Settle(k, usage), NEW a \in Accounts
    PROVE  KeepsBacking(wallet'[a], wallet[a])
<1> DEFINE held == res[k].amount
           cap == [b \in AccountsOf(k) |-> MaximumCharge(wallet[b], held)]
           own == Least(usage, cap[UserOf[k]])
           charge == IF SpaceOf[k] = NoSpace THEN own ELSE Least(own, cap[SpaceOf[k]])
<1>1. TypeOK /\ ReservedExact /\ res[k].status = "reserved" /\ wallet[a] \in Wallets
  BY DEF Inv, TypeOK, Settle
<1>2. wallet'[a] = IF a \in AccountsOf(k)
          THEN [wallet[a] EXCEPT !.remaining = wallet[a].remaining - charge,
                                 !.reserved = AtLeastZero(wallet[a].reserved - held)]
          ELSE wallet[a]
  BY DEF Settle
<1>3. CASE a \in AccountsOf(k)
  <2>1. /\ held \in Nat /\ usage \in Nat
        /\ wallet[a].reserved \in Nat /\ wallet[a].remaining \in Nat
    BY <1>1, WalletConstants DEF TypeOK, Wallets
  <2>2. held <= wallet[a].reserved
    <3>1. "settled" \in Statuses \ {"reserved"}
      BY DEF Statuses
    <3> QED
      BY <1>1, <1>3, <3>1, DropHoldExact
  <2>3. /\ UserOf[k] \in Accounts /\ UserOf[k] \in AccountsOf(k)
        /\ SpaceOf[k] # NoSpace => SpaceOf[k] \in Accounts /\ SpaceOf[k] \in AccountsOf(k)
        /\ a = UserOf[k] \/ (SpaceOf[k] # NoSpace /\ a = SpaceOf[k])
    BY <1>3, WalletConstants DEF Accounts, AccountsOf
  <2>4. \A b \in AccountsOf(k) : b \in Accounts => cap[b] \in Nat
    <3>1. \A b \in Accounts : wallet[b].reserved \in Nat /\ wallet[b].remaining \in Nat
      BY <1>1 DEF TypeOK, Wallets
    <3> HIDE DEF held
    <3> QED
      BY <2>1, <3>1 DEF MaximumCharge, AtLeastZero
  <2>5. cap[a] = AtLeastZero(wallet[a].remaining - (wallet[a].reserved - held))
    BY <1>3 DEF MaximumCharge
  <2> HIDE DEF cap, held
  <2>6. charge \in Nat /\ charge <= cap[a]
    BY <2>1, <2>3, <2>4 DEF Least
  <2> HIDE DEF charge
  <2> DEFINE rem == wallet[a].remaining - charge
             rsv == AtLeastZero(wallet[a].reserved - held)
  <2>7. wallet[a].reserved <= wallet[a].remaining => rsv <= rem
    BY <2>1, <2>2, <2>4, <2>5, <2>6 DEF AtLeastZero
  <2>8. wallet'[a] = [wallet[a] EXCEPT !.remaining = rem, !.reserved = rsv]
    BY <1>2, <1>3
  <2> HIDE DEF rem, rsv
  <2>9. wallet'[a].reserved = rsv /\ wallet'[a].remaining = rem
    BY <1>1, <2>8 DEF Wallets
  <2> QED
    BY <2>7, <2>9 DEF KeepsBacking
<1>4. CASE a \notin AccountsOf(k)
  BY <1>2, <1>4 DEF KeepsBacking
<1> QED
  BY <1>3, <1>4

\* A refund only gives back.
LEMMA RefundBacks ==
    ASSUME Inv, NEW k \in Keys, Refund(k), NEW a \in Accounts
    PROVE  KeepsBacking(wallet'[a], wallet[a])
<1> DEFINE rem == Least(wallet[a].allowance,
                        wallet[a].remaining + Refundable(wallet[a], charged[k]))
<1>1. /\ wallet[a] \in Wallets /\ charged[k] \in Nat
      /\ wallet[a].remaining <= wallet[a].allowance
  BY DEF Inv, TypeOK, Refund, NoRow, RemainingWithinAllowance
<1>2. wallet'[a] = IF a \in AccountsOf(k) THEN [wallet[a] EXCEPT !.remaining = rem] ELSE wallet[a]
  BY DEF Refund
<1>3. wallet[a].allowance \in Nat /\ wallet[a].remaining \in Nat /\ wallet[a].reserved \in Nat
  BY <1>1 DEF Wallets
<1>4. rem >= wallet[a].remaining /\ rem \in Int
  BY <1>1, <1>3 DEF Refundable, Least, AtLeastZero
<1> HIDE DEF rem
<1>5. CASE a \in AccountsOf(k)
  <2>1. wallet'[a].reserved = wallet[a].reserved /\ wallet'[a].remaining = rem
    BY <1>1, <1>2, <1>5 DEF Wallets
  <2> QED
    BY <1>3, <1>4, <2>1 DEF KeepsBacking
<1>6. CASE a \notin AccountsOf(k)
  BY <1>2, <1>6 DEF KeepsBacking
<1> QED
  BY <1>5, <1>6

\* A Space changes hands only while it holds nothing, so it may change plans
\* twice on the way.
LEMMA TransferBacks ==
    ASSUME Inv, Inv', NEW s \in Spaces, NEW u \in Users, TransferOwnership(s, u), NEW a \in Accounts
    PROVE  KeepsBacking(wallet'[a], wallet[a])
<1> DEFINE ws == SpaceRefreshed(s, week)
<1>1. week \in Nat
  BY WalletConstants DEF Inv, TypeOK
<1>2. CASE a = s
  <2>1. ASSUME NEW k \in Keys PROVE Hold(res', a, Keys)[k] = 0
    <3>1. CASE SpaceOf[k] = s
      BY <3>1 DEF Hold, TransferOwnership
    <3>2. CASE SpaceOf[k] # s
      <4>1. s \notin AccountsOf(k)
        BY <3>2, WalletConstants DEF AccountsOf
      <4> QED
        BY <1>2, <4>1 DEF Hold
    <3> QED
      BY <3>1, <3>2
  <2>2. res' \in Rows
    BY DEF Inv, TypeOK, Rows
  <2>3. SumTo(Hold(res', a, Keys), NKeys) = 0
    BY <2>1, <2>2, HoldType, SumZero, WalletConstants DEF Keys
  <2>4. wallet'[a].reserved = 0 /\ wallet'[a] \in Wallets
    BY <2>3 DEF Inv, ReservedExact, TypeOK
  <2> QED
    BY <2>4 DEF KeepsBacking, Wallets
<1>3. CASE a # s
  <2>1. wallet'[a] = ws[a]
    BY <1>3 DEF TransferOwnership
  <2> QED
    BY <1>1, <2>1, SpaceRefreshBacks
<1> QED
  BY <1>2, <1>3

\* Every step of the wallet service keeps what is held covered.
LEMMA NextBacks ==
    ASSUME Inv, Inv', [Next]_vars, NEW a \in Accounts
    PROVE  KeepsBacking(wallet'[a], wallet[a])
<1> DEFINE Kept == KeepsBacking(wallet'[a], wallet[a])
<1>0. wallet' = wallet => Kept
  BY DEF KeepsBacking
<1>1. ASSUME NEW w \in Workers, NEW k \in Keys, ReadLicense(w, k) PROVE Kept
  BY <1>0, <1>1 DEF ReadLicense
<1>2. ASSUME NEW w \in Workers, GetOrCreateWallet(w) PROVE Kept
  BY <1>2, GetOrCreateWalletBacks
<1>3. ASSUME NEW w \in Workers, NEW n \in Amounts, NEW p \in BOOLEAN, Reserve(w, n, p) PROVE Kept
  BY <1>3, ReserveBacks
<1>4. ASSUME NEW w \in Workers, ReserveRefused(w) PROVE Kept
  BY <1>0, <1>4 DEF ReserveRefused
<1>5. ASSUME NEW s \in Spaces, RefreshSpace(s) PROVE Kept
  <2>1. week \in Nat
    BY WalletConstants DEF Inv, TypeOK
  <2> QED
    BY <1>5, <2>1, SpaceRefreshBacks DEF RefreshSpace
<1>6. ASSUME NEW ks, ReleaseKeys(ks) PROVE Kept
  <2>1. /\ wallet'[a] \in Wallets /\ wallet[a] \in Wallets
        /\ wallet'[a].reserved <= wallet[a].reserved
        /\ wallet'[a].remaining = wallet[a].remaining
    BY <1>6, ReleaseLowers DEF ReleaseKeys
  <2>2. wallet'[a].reserved \in Nat /\ wallet[a].reserved \in Nat /\ wallet[a].remaining \in Nat
    BY <2>1 DEF Wallets
  <2> QED
    BY <2>1, <2>2 DEF KeepsBacking
<1>7. ASSUME NEW k \in Keys, NEW n \in Charges, Settle(k, n) PROVE Kept
  BY <1>7, SettleBacks
<1>8. ASSUME NEW k \in Keys, Refund(k) PROVE Kept
  BY <1>8, RefundBacks
<1>9. ASSUME NEW k \in Keys, GrowStale(k) PROVE Kept
  BY <1>0, <1>9 DEF GrowStale
<1>10. CASE NewWeek
  BY <1>0, <1>10 DEF NewWeek
<1>11. ASSUME NEW u \in Users, NEW p \in Plans, ChangePlan(u, p) PROVE Kept
  BY <1>0, <1>11 DEF ChangePlan
<1>12. ASSUME NEW u \in Users, NEW s \in Spaces, TransferOwnership(s, u) PROVE Kept
  BY <1>12, TransferBacks
<1>13. CASE UNCHANGED vars
  BY <1>0, <1>13 DEF vars
<1> QED
  BY <1>1, <1>2, <1>3, <1>4, <1>5, <1>6, <1>7, <1>8, <1>9, <1>10, <1>11, <1>12, <1>13
     DEF Next, Release, ReleaseRun

\* Concurrent reservations, settlements, refunds, reclaims and resets never
\* overspend a wallet: only a shrinking allowance leaves holds uncovered.
THEOREM OnlyPlanChangeUnderbacksHolds == Spec => OnlyPlanChangeUnderbacks
<1> DEFINE Step == \A a \in Accounts :
        /\ wallet[a].reserved <= wallet[a].remaining
        /\ wallet'[a].allowance >= wallet[a].allowance
        => wallet'[a].reserved <= wallet'[a].remaining
<1>1. Inv /\ Inv' /\ [Next]_vars => [Step]_vars
  BY NextBacks DEF KeepsBacking
<1>2. Spec => []Inv
  BY WalletInvariant
<1>3. Spec => [][Step]_vars
  BY <1>1, <1>2, PTL DEF Spec
<1> QED
  BY <1>3 DEF OnlyPlanChangeUnderbacks
=============================================================================

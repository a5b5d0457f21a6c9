------------------------- MODULE ServiceEscrowProofs -------------------------
(***************************************************************************)
(* The service pallet implements one escrow per local order, and settling  *)
(* an order leaves what the other orders hold alone, as long as no amount  *)
(* is below the existential deposit.                                       *)
(*                                                                         *)
(* Unreserve and Repatriate saturate, so that what a settlement moves      *)
(* depends on the pool it takes from.  The argument has two parts: the     *)
(* pool covers every hold (BackedInv of ServicePalletProofs), so that the  *)
(* amounts moved are exactly those asked for, and an account that is       *)
(* reaped on the way has nothing held by any order.                        *)
(***************************************************************************)
EXTENDS ServicePalletProofs

Free(l) == [x \in Accounts |-> l[x].free]

Reserved(l) == [x \in Accounts |-> l[x].reserved]

Plus(f, a, v) == [f EXCEPT ![a] = f[a] + v]

\* Ledger m has funds f and reserves r, but for accounts that were reaped.
Becomes(m, f, r) ==
  \A x \in Accounts :
    \/ m[x] = [free |-> f[x], reserved |-> r[x]]
    \/ m[x] = Empty /\ f[x] < ExistentialDeposit

(***************************************************************************)
(* What the currency operators move when the reserve suffices.             *)
(***************************************************************************)

LEMMA LedgerBecomes ==
  ASSUME NEW l \in Ledgers
  PROVE  /\ Becomes(l, Free(l), Reserved(l))
         /\ Free(l) \in Needs /\ Reserved(l) \in Needs
BY DEF Becomes, Free, Reserved, Ledgers, Account, Needs

LEMMA UnreserveBecomes ==
  ASSUME NEW l \in Ledgers, NEW f \in Needs, NEW r \in Needs, Becomes(l, f, r),
         NEW a \in Accounts, NEW v \in Nat, v <= l[a].reserved
  PROVE  /\ Becomes(Unreserve(l, a, v), Plus(f, a, v), Plus(r, a, -v))
         /\ Plus(f, a, v) \in Needs
<1> DEFINE m == Unreserve(l, a, v)
<1>1. m[a] = [free |-> l[a].free + v, reserved |-> l[a].reserved - v]
  BY DEF Unreserve, Lesser, Ledgers, Account
<1>2. \A x \in Accounts \ {a} : m[x] = l[x]
  BY DEF Unreserve, Ledgers
<1> HIDE DEF m
<1>3. /\ Plus(f, a, v)[a] = f[a] + v /\ Plus(r, a, -v)[a] = r[a] - v
      /\ \A x \in Accounts \ {a} : Plus(f, a, v)[x] = f[x] /\ Plus(r, a, -v)[x] = r[x]
      /\ Plus(f, a, v) \in Needs
  BY DEF Plus, Needs
<1>4. \/ m[a] = [free |-> f[a] + v, reserved |-> r[a] - v]
      \/ m[a] = Empty /\ f[a] + v < ExistentialDeposit
  <2>1. CASE l[a] = [free |-> f[a], reserved |-> r[a]]
    BY <1>1, <2>1
  <2>2. CASE l[a] = Empty /\ f[a] < ExistentialDeposit
    <3>1. v = 0 /\ l[a].free = 0 /\ l[a].reserved = 0
      BY <2>2 DEF Empty
    <3> QED
      BY <1>1, <2>2, <3>1 DEF Empty, Needs
  <2> QED
    BY <2>1, <2>2 DEF Becomes
<1>5. Becomes(m, Plus(f, a, v), Plus(r, a, -v))
  BY <1>2, <1>3, <1>4 DEF Becomes
<1> QED
  BY <1>3, <1>5 DEF m

LEMMA RepatriateBecomes ==
  ASSUME NEW l \in Ledgers, NEW f \in Needs, NEW r \in Needs, Becomes(l, f, r),
         NEW a \in Accounts, NEW b \in Accounts, NEW v \in Nat, v <= l[a].reserved,
         CanRepatriate(l, a, b, v)
  PROVE  /\ Becomes(Repatriate(l, a, b, v), Plus(f, b, v), Plus(r, a, -v))
         /\ Plus(f, b, v) \in Needs
<1>1. CASE a = b
  BY <1>1, UnreserveBecomes DEF Repatriate
<1>2. CASE a # b
  <2> DEFINE m == Repatriate(l, a, b, v)
             left == [free |-> l[a].free, reserved |-> l[a].reserved - v]
  <2>1. Lesser(v, l[a].reserved) = v
    BY DEF Lesser, Ledgers, Account
  <2>2. /\ m[a] = Reap(left)
        /\ m[b] = [free |-> l[b].free + v, reserved |-> l[b].reserved]
        /\ \A x \in Accounts \ {a, b} : m[x] = l[x]
    BY <1>2, <2>1 DEF Repatriate, Ledgers
  <2> HIDE DEF m
  <2>3. /\ Plus(f, b, v)[b] = f[b] + v /\ Plus(r, a, -v)[a] = r[a] - v
        /\ \A x \in Accounts \ {b} : Plus(f, b, v)[x] = f[x]
        /\ \A x \in Accounts \ {a} : Plus(r, a, -v)[x] = r[x]
        /\ Plus(f, b, v) \in Needs
    BY DEF Plus, Needs
  <2>4. \/ m[a] = [free |-> f[a], reserved |-> r[a] - v]
        \/ m[a] = Empty /\ f[a] < ExistentialDeposit
    <3>1. CASE l[a] = [free |-> f[a], reserved |-> r[a]]
      <4>1. left = [free |-> f[a], reserved |-> r[a] - v]
        BY <3>1
      <4>2. r[a] - v \in Nat /\ f[a] \in Nat
        BY <3>1 DEF Needs
      <4> QED
        BY <2>2, <4>1, <4>2, AmountTypes DEF Reap, Total
    <3>2. CASE l[a] = Empty /\ f[a] < ExistentialDeposit
      <4>1. v = 0 /\ l[a].free = 0 /\ l[a].reserved = 0
        BY <3>2 DEF Empty
      <4>2. left = Empty
        BY <4>1 DEF Empty
      <4> QED
        BY <2>2, <3>2, <4>2 DEF Reap
    <3> QED
      BY <3>1, <3>2 DEF Becomes
  <2>5. \/ m[b] = [free |-> f[b] + v, reserved |-> r[b]]
        \/ m[b] = Empty /\ f[b] + v < ExistentialDeposit
    <3>1. CASE l[b] = [free |-> f[b], reserved |-> r[b]]
      BY <2>2, <3>1
    <3>2. CASE l[b] = Empty /\ f[b] < ExistentialDeposit
      <4>1. l[b].free = 0 /\ l[b].reserved = 0
        BY <3>2 DEF Empty
      <4>2. v = 0
        BY <1>2, <4>1, AmountTypes DEF CanRepatriate, Exists, Total
      <4> QED
        BY <2>2, <3>2, <4>1, <4>2 DEF Empty, Needs
    <3> QED
      BY <3>1, <3>2 DEF Becomes
  <2>6. Becomes(m, Plus(f, b, v), Plus(r, a, -v))
    BY <1>2, <2>2, <2>3, <2>4, <2>5 DEF Becomes
  <2> QED
    BY <2>3, <2>6 DEF m
<1> QED
  BY <1>1, <1>2

LEMMA TransferBecomes ==
  ASSUME NEW l \in Ledgers, NEW a \in Accounts, NEW b \in Accounts, NEW v \in Nat,
         CanTransfer(l, a, b, v)
  PROVE  Becomes(Transfer(l, a, b, v), Plus(Plus(Free(l), a, -v), b, v), Reserved(l))
<1> DEFINE m == Transfer(l, a, b, v)
           f == Plus(Plus(Free(l), a, -v), b, v)
           left == [free |-> l[a].free - v, reserved |-> l[a].reserved]
<1>1. a # b /\ v <= l[a].free /\ m[a] = Reap(left)
  BY DEF CanTransfer, Transfer, Ledgers
<1>2. /\ m[b] = [free |-> l[b].free + v, reserved |-> l[b].reserved]
      /\ \A x \in Accounts \ {a, b} : m[x] = l[x]
  BY <1>1 DEF Transfer, Ledgers
<1> HIDE DEF m
<1>3. /\ f[a] = l[a].free - v /\ f[b] = l[b].free + v
      /\ \A x \in Accounts \ {a, b} : f[x] = l[x].free
  BY <1>1 DEF Plus, Free, Ledgers, Account
<1> HIDE DEF f
<1>4. \A x \in Accounts : Reserved(l)[x] = l[x].reserved /\ l[x] = [free |-> l[x].free, reserved |-> l[x].reserved]
  BY DEF Reserved, Ledgers, Account
<1>5. left.free \in Nat /\ left.reserved \in Nat
  BY <1>1 DEF Ledgers, Account
<1>6. m[a] = left \/ (m[a] = Empty /\ f[a] < ExistentialDeposit)
  BY <1>1, <1>3, <1>5, AmountTypes DEF Reap, Total
<1>7. Becomes(m, f, Reserved(l))
  BY <1>1, <1>2, <1>3, <1>4, <1>6 DEF Becomes
<1> QED
  BY <1>7 DEF m, f

(***************************************************************************)
(* Settling a local order.                                                 *)
(***************************************************************************)

\* Who gets the collateral of d's order by now.
Owner(d) == IF now < orders[d].until THEN d ELSE orders[d].client

\* The order of d was settled, its fee to payee: no more and no less was moved.
SettledTo(d, payee) ==
  Becomes(ledger',
          Plus(Plus(Free(ledger), payee, orders[d].fee), Owner(d), devices[d].penalty),
          Plus(Plus(Reserved(ledger), orders[d].client, -orders[d].fee),
               d, -devices[d].penalty))

\* The amounts of a local order are there to be moved.
LEMMA OrderAmounts ==
  ASSUME BackedInv, NEW d \in Accounts, IsLocal(orders[d])
  PROVE  /\ ledger \in Ledgers /\ devices[d] # NoDevice
         /\ orders[d].client \in Accounts
         /\ orders[d].fee \in Nat /\ devices[d].penalty \in Nat
         /\ orders[d].fee <= ledger[orders[d].client].reserved
         /\ \A l \in Ledgers : Covers(l, NeedBetween(d)) => devices[d].penalty <= l[d].reserved
<1>1. BusyInv /\ TypeOK /\ IsOpen(d) /\ devices[d] # NoDevice
  BY DEF BackedInv, BusyInv, IsLocal, IsOpen, OrderedDevicesAreBusy
<1>2. /\ devices[d].penalty \in Nat /\ orders[d].client \in Accounts
      /\ orders[d].fee \in Nat /\ ledger \in Ledgers
  BY <1>1, KnownDevice, KnownOrder DEF TypeOK, Ledgers
<1>3. NeedAfter(d) \in Needs /\ NeedBetween(d) \in Needs
  BY <1>1, NeedTypes
<1>4. orders[d].fee <= ledger[orders[d].client].reserved
  <2>1. NeedBetween(d)[orders[d].client] + orders[d].fee <= ledger[orders[d].client].reserved
    BY <1>2, OrderHolds
  <2>2. NeedBetween(d)[orders[d].client] \in Nat /\ ledger[orders[d].client].reserved \in Nat
    BY <1>2, <1>3 DEF Needs, Ledgers, Account
  <2> QED
    BY <1>2, <2>1, <2>2
<1>5. ASSUME NEW l \in Ledgers, Covers(l, NeedBetween(d))
      PROVE  devices[d].penalty <= l[d].reserved
  <2>1. NeedBetween(d)[d] = NeedAfter(d)[d] + devices[d].penalty
    BY DEF NeedBetween
  <2>2. NeedAfter(d)[d] \in Nat /\ l[d].reserved \in Nat
    BY <1>3 DEF Needs, Ledgers, Account
  <2>3. NeedBetween(d)[d] <= l[d].reserved
    BY <1>5 DEF Covers
  <2> QED
    BY <1>2, <2>1, <2>2, <2>3
<1> QED
  BY <1>1, <1>2, <1>4, <1>5

LEMMA CollateralBecomes ==
  ASSUME BackedInv, NEW d \in Accounts, IsLocal(orders[d]),
         NEW l \in Ledgers, NEW f \in Needs, NEW r \in Needs, Becomes(l, f, r),
         devices[d].penalty <= l[d].reserved, CollateralPayable(l, orders[d], d)
  PROVE  Becomes(CollateralReturned(l, orders[d], d),
                 Plus(f, Owner(d), devices[d].penalty), Plus(r, d, -devices[d].penalty))
<1>1. devices[d].penalty \in Nat /\ orders[d].client \in Accounts
  BY OrderAmounts
<1>2. CASE now < orders[d].until
  BY <1>1, <1>2, UnreserveBecomes DEF CollateralReturned, Owner
<1>3. CASE ~(now < orders[d].until)
  BY <1>1, <1>3, RepatriateBecomes DEF CollateralReturned, CollateralPayable, Owner
<1> QED
  BY <1>2, <1>3

\* The reserve that is left by the fee is a reserve.
LEMMA FeeLeaves ==
  ASSUME BackedInv, NEW d \in Accounts, IsLocal(orders[d])
  PROVE  Plus(Reserved(ledger), orders[d].client, -orders[d].fee) \in Needs
BY OrderAmounts DEF Plus, Reserved, Needs, Ledgers, Account

LEMMA RejectSettles ==
  ASSUME AmountsCoverDeposit, BackedInv, NEW d \in Accounts, IsLocal(orders[d]),
         NEW st, NEW onoff, OrderReject(d, st, onoff)
  PROVE  SettledTo(d, orders[d].client)
<1> DEFINE client == orders[d].client
           fee == orders[d].fee
           l == Unreserve(ledger, client, fee)
<1>1. /\ CollateralPayable(l, orders[d], d)
      /\ ledger' = CollateralReturned(l, orders[d], d)
  BY DEF OrderReject
<1>2. /\ ledger \in Ledgers /\ client \in Accounts /\ fee \in Nat
      /\ fee <= ledger[client].reserved
  BY OrderAmounts
<1>3. l \in Ledgers
  BY <1>2, UnreserveType
<1>4. /\ Becomes(l, Plus(Free(ledger), client, fee), Plus(Reserved(ledger), client, -fee))
      /\ Plus(Free(ledger), client, fee) \in Needs
  BY <1>2, LedgerBecomes, UnreserveBecomes
<1>5. devices[d].penalty <= l[d].reserved
  BY <1>3, FeeSettled, OrderAmounts
<1>6. Plus(Reserved(ledger), client, -fee) \in Needs
  BY FeeLeaves
<1> HIDE DEF l
<1> QED
  BY <1>1, <1>3, <1>4, <1>5, <1>6, CollateralBecomes DEF SettledTo

\* What done pays, before it comes to the collateral.
LEMMA FeePaidBecomes ==
  ASSUME AmountsCoverDeposit, BackedInv, NEW d \in Accounts, IsLocal(orders[d]), Signed(d)
  PROVE  LET l == FeePaid(orders[d], d)
             f == Plus(Free(ledger), d, orders[d].fee)
             r == Plus(Reserved(ledger), orders[d].client, -orders[d].fee)
         IN  /\ l \in Ledgers /\ f \in Needs /\ r \in Needs
             /\ Becomes(l, f, r)
             /\ devices[d].penalty <= l[d].reserved
<1> DEFINE client == orders[d].client
           fee == orders[d].fee
           l == FeePaid(orders[d], d)
<1>1. /\ ledger \in Ledgers /\ client \in Accounts /\ fee \in Nat
      /\ fee <= ledger[client].reserved
  BY OrderAmounts
<1>2. l = Repatriate(ledger, client, d, fee)
  BY DEF FeePaid
<1>3. CanRepatriate(ledger, client, d, fee)
  BY DEF CanRepatriate, Signed
<1>4. l \in Ledgers
  BY <1>1, <1>2, RepatriateType
<1>5. /\ Becomes(l, Plus(Free(ledger), d, fee), Plus(Reserved(ledger), client, -fee))
      /\ Plus(Free(ledger), d, fee) \in Needs
  BY <1>1, <1>2, <1>3, LedgerBecomes, RepatriateBecomes
<1>6. devices[d].penalty <= l[d].reserved
  BY <1>4, FeeSettled, OrderAmounts
<1> QED
  BY <1>4, <1>5, <1>6, FeeLeaves

LEMMA DoneSettles ==
  ASSUME AmountsCoverDeposit, BackedInv, NEW d \in Accounts, NEW onoff, DoneLocal(d, onoff)
  PROVE  SettledTo(d, d)
<1>1. /\ IsLocal(orders[d]) /\ Signed(d)
      /\ CollateralPayable(FeePaid(orders[d], d), orders[d], d)
      /\ ledger' = CollateralReturned(FeePaid(orders[d], d), orders[d], d)
  BY DEF DoneLocal, DoneBegins
<1> DEFINE l == FeePaid(orders[d], d)
           f == Plus(Free(ledger), d, orders[d].fee)
           r == Plus(Reserved(ledger), orders[d].client, -orders[d].fee)
<1>2. /\ l \in Ledgers /\ f \in Needs /\ r \in Needs
      /\ Becomes(l, f, r) /\ devices[d].penalty <= l[d].reserved
  BY <1>1, FeePaidBecomes
<1>3. CollateralPayable(l, orders[d], d) /\ ledger' = CollateralReturned(l, orders[d], d)
  BY <1>1
<1> HIDE DEF l
<1>4. Becomes(ledger', Plus(f, Owner(d), devices[d].penalty), Plus(r, d, -devices[d].penalty))
  BY <1>1, <1>2, <1>3, CollateralBecomes
<1> QED
  BY <1>4 DEF SettledTo

\* Done fails half way for a client that the fee has reaped, and only then.
LEMMA DoneStrands ==
  ASSUME AmountsCoverDeposit, BackedInv, NEW d \in Accounts, NEW onoff, DoneStranding(d, onoff)
  PROVE  /\ IsLocal(orders[d]) /\ ~(now < orders[d].until) /\ orders[d].client # d
         /\ ledger'[orders[d].client] = Empty
         /\ ledger[orders[d].client].free < ExistentialDeposit
         /\ Becomes(ledger', Plus(Free(ledger), d, orders[d].fee),
                    Plus(Reserved(ledger), orders[d].client, -orders[d].fee))
<1> DEFINE client == orders[d].client
           fee == orders[d].fee
<1>1. /\ IsLocal(orders[d]) /\ Signed(d)
      /\ ~CollateralPayable(FeePaid(orders[d], d), orders[d], d)
      /\ ledger' = FeePaid(orders[d], d)
  BY DEF DoneStranding, DoneBegins
<1>2. /\ ledger' \in Ledgers
      /\ Becomes(ledger', Plus(Free(ledger), d, fee), Plus(Reserved(ledger), client, -fee))
  BY <1>1, FeePaidBecomes
<1>3. ~(now < orders[d].until) /\ client # d /\ ~Exists(ledger', client)
  BY <1>1 DEF CollateralPayable, CanRepatriate
<1>4. /\ ledger \in Ledgers /\ client \in Accounts /\ fee \in Nat
      /\ fee <= ledger[client].reserved
  BY <1>1, OrderAmounts
<1> DEFINE left == [free |-> ledger[client].free, reserved |-> ledger[client].reserved - fee]
<1>5. ledger'[client] = Reap(left)
  <2>1. ledger' = Repatriate(ledger, client, d, fee)
    BY <1>1 DEF FeePaid
  <2>2. Lesser(fee, ledger[client].reserved) = fee
    BY <1>4 DEF Lesser, Ledgers, Account
  <2> QED
    BY <1>3, <1>4, <2>1, <2>2 DEF Repatriate, Ledgers
<1>6. Total(left) < ExistentialDeposit
  <2>1. Total(left) \in Nat
    BY <1>4 DEF Total, Ledgers, Account
  <2> QED
    BY <1>3, <1>5, <2>1, AmountTypes DEF Reap, Exists
<1>7. ledger'[client] = Empty
  BY <1>5, <1>6 DEF Reap
<1>8. ledger[client].free < ExistentialDeposit
  BY <1>4, <1>6, AmountTypes DEF Total, Ledgers, Account
<1> QED
  BY <1>1, <1>2, <1>3, <1>7, <1>8

(***************************************************************************)
(* The escrows behind the orders.                                          *)
(***************************************************************************)

EscrowTable == [d \in Accounts |-> EscrowOf(d)]

HoldFor(o, collateral) ==
  [client |-> o.client, fee |-> o.fee, collateral |-> collateral, until |-> o.until]

\* Storing or removing an order is opening or closing its escrow.
LEMMA EscrowChanges ==
  ASSUME BusyInv, NEW d \in Accounts, devices[d] # NoDevice, NEW st, NEW o,
         devices' = WithState(d, st), orders' = [orders EXCEPT ![d] = o]
  PROVE  EscrowTable' = [EscrowTable EXCEPT ![d] =
           IF IsLocal(o) THEN HoldFor(o, devices[d].penalty) ELSE NoOrder]
<1>1. \A y \in Accounts : devices'[y].penalty = devices[y].penalty
  BY KnownDevice DEF BusyInv, TypeOK, WithState, DeviceProfile
<1>2. orders'[d] = o /\ \A y \in Accounts \ {d} : orders'[y] = orders[y]
  BY DEF BusyInv, TypeOK
<1>3. EscrowTable'[d] = IF IsLocal(o) THEN HoldFor(o, devices[d].penalty) ELSE NoOrder
  BY <1>1, <1>2 DEF EscrowTable, EscrowOf, HoldFor
<1>4. \A y \in Accounts \ {d} : EscrowTable'[y] = EscrowTable[y]
  BY <1>1, <1>2 DEF EscrowTable, EscrowOf
<1> QED
  BY <1>3, <1>4 DEF EscrowTable

\* Nothing held by the orders of a table means that no order holds anything.
LEMMA HeldNothing ==
  ASSUME NEW devs, NEW ords, Tables(devs, ords), NEW x \in Accounts, Held(devs, ords, x) = 0
  PROVE  \A d \in Accounts : IsLocal(ords[d]) =>
           /\ ords[d].client = x => ords[d].fee = 0
           /\ d = x => devs[d].penalty = 0
<1>1. Cardinality(FeeUnits(ords, x)) \in Nat /\ IsFiniteSet(FeeUnits(ords, x))
  BY FeeUnitsFinite DEF Tables
<1>2. HeldCollateral(devs, ords, x) \in Nat
  BY HeldCollateralType
<1>3. Cardinality(FeeUnits(ords, x)) = 0 /\ HeldCollateral(devs, ords, x) = 0
  BY <1>1, <1>2 DEF Held
<1>4. FeeUnits(ords, x) = {}
  BY <1>1, <1>3, FS_EmptySet
<1>5. ASSUME NEW d \in Accounts, IsLocal(ords[d]), ords[d].client = x
      PROVE  ords[d].fee = 0
  <2>1. ords[d].fee \in Nat /\ ords[d].fee <= MaxBalance
    BY <1>5, LocalOrder DEF Tables, OrderTable
  <2>2. CASE ords[d].fee # 0
    <3>1. 1 \in 1 .. MaxBalance /\ 1 <= ords[d].fee
      BY <2>1, <2>2, AmountTypes
    <3>2. <<d, 1>> \in FeeUnits(ords, x)
      BY <1>5, <3>1 DEF FeeUnits
    <3> QED
      BY <1>4, <3>2
  <2> QED
    BY <2>2
<1>6. ASSUME NEW d \in Accounts, IsLocal(ords[d]), d = x
      PROVE  devs[d].penalty = 0
  BY <1>3, <1>6 DEF HeldCollateral
<1> QED
  BY <1>5, <1>6

\* Whoever is reaped has nothing reserved, and so nothing in an escrow.
LEMMA ReapedUninvolved ==
  ASSUME BackedInv', NEW x \in Accounts, ledger'[x] = Empty
  PROVE  Escrow!Uninvolved(EscrowTable', x)
<1>1. Tables(devices', orders')
  BY DEF BackedInv, BusyInv, TypeOK, OrderedDevicesAreBusy, IsOpen, Tables, OrderTable
<1>2. Held(devices', orders', x) = 0
  <2>1. Held(devices', orders', x) \in Nat
    BY <1>1, HeldType
  <2>2. Held(devices', orders', x) <= ledger'[x].reserved
    BY DEF BackedInv, Backed
  <2> QED
    BY <2>1, <2>2 DEF Empty
<1>3. \A d \in Accounts : IsLocal(orders'[d]) =>
         /\ orders'[d].client = x => orders'[d].fee = 0
         /\ d = x => devices'[d].penalty = 0
  BY <1>1, <1>2, HeldNothing
<1> QED
  BY <1>3 DEF Escrow!Uninvolved, EscrowTable, EscrowOf

\* Funds become what a step of the escrow asks for (Become of OrderEscrow).
LEMMA FundsBecome ==
  ASSUME BackedInv', NEW f \in Needs, NEW r, Becomes(ledger', f, r), NEW x \in Accounts
  PROVE  \/ Free(ledger)'[x] = f[x]
         \/ /\ Free(ledger)'[x] = 0 /\ f[x] < ExistentialDeposit
            /\ Escrow!Uninvolved(EscrowTable', x)
<1>1. CASE ledger'[x] = [free |-> f[x], reserved |-> r[x]]
  BY <1>1 DEF Free
<1>2. CASE ledger'[x] = Empty /\ f[x] < ExistentialDeposit
  BY <1>2, ReapedUninvolved DEF Free, Empty
<1> QED
  BY <1>1, <1>2 DEF Becomes

(***************************************************************************)
(* Every step of the pallet is one of the escrow, or leaves it alone.      *)
(***************************************************************************)

LEMMA EscrowOfLocal ==
  ASSUME BackedInv, NEW d \in Accounts
  PROVE  /\ IsLocal(orders[d]) =>
              /\ EscrowTable[d] = HoldFor(orders[d], devices[d].penalty)
              /\ EscrowTable[d] # NoOrder
         /\ ~IsLocal(orders[d]) => EscrowTable[d] = NoOrder
<1>1. ASSUME IsLocal(orders[d])
      PROVE  HoldFor(orders[d], devices[d].penalty) \in
               [client : Accounts, fee : Fees, collateral : Penalties, until : Deadlines]
  <2>1. orders[d] \in Order(ParaIds)
    BY <1>1 DEF BackedInv, BusyInv, TypeOK, IsLocal
  <2>2. devices[d] \in DeviceProfile
    BY <1>1 DEF BackedInv, BusyInv, TypeOK, OrderedDevicesAreBusy, IsOpen, IsLocal
  <2> QED
    BY <2>1, <2>2 DEF Order, DeviceProfile, HoldFor
<1>2. EscrowTable[d] = IF IsLocal(orders[d]) THEN HoldFor(orders[d], devices[d].penalty) ELSE NoOrder
  BY DEF EscrowTable, EscrowOf, HoldFor
<1> QED
  BY <1>1, <1>2, ServiceAssumption

\* An order that is taken takes both amounts.
LEMMA OrderCallMaps ==
  ASSUME BackedInv, NEW who \in Accounts, NEW base \in OrderBase, OrderCall(who, base)
  PROVE  Escrow!Next
<1> DEFINE o == StoredOrder(base, who, SelfParaId)
           d == base.device
           c == devices[d].penalty
           hold == HoldFor(o, c)
           paid == Plus(Plus(Free(ledger), d, -c), who, -base.fee)
           first == Reserve(ledger, d, c)
<1>1. BusyInv /\ TypeOK /\ Acceptable(o, d) /\ d \in Accounts /\ devices[d] # NoDevice
  BY DEF BackedInv, BusyInv, OrderCall, OrderReceived, Acceptable, OrderBase
<1>2. o \in Order(ParaIds) /\ IsLocal(o) /\ o.client = who /\ o.fee = base.fee
  <2>1. o \in Order(ParaIds)
    BY StoredOrderType DEF ParaIds, OrderBase
  <2> QED
    BY <2>1, ServiceAssumption DEF IsLocal, StoredOrder
<1>3. /\ devices[d] \in DeviceProfile /\ c \in Nat /\ c \in Penalties
      /\ base.fee \in Nat /\ base.fee \in Fees
  BY <1>1, KnownDevice, AmountTypes DEF OrderBase, DeviceProfile
<1>4. /\ CanReserve(ledger, d, c) /\ CanReserve(first, who, base.fee)
      /\ ledger' = Reserve(first, who, base.fee)
      /\ devices' = WithState(d, OnReceived) /\ orders' = [orders EXCEPT ![d] = o]
      /\ now' = now /\ now < o.until /\ ~IsLocal(orders[d])
  BY <1>1, <1>2 DEF OrderCall, OrderReceived, HeldForOrder, Acceptable, IsOpen, IsLocal
<1>5. hold \in Escrow!Hold
  BY <1>2, <1>3 DEF Escrow!Hold, HoldFor, Order
<1>6. EscrowTable' = [EscrowTable EXCEPT ![d] = hold]
  BY <1>1, <1>2, <1>4, EscrowChanges
<1>7. EscrowTable[d] = NoOrder
  BY <1>1, <1>4, EscrowOfLocal
<1>8. ledger \in Ledgers /\ first \in Ledgers
  BY <1>1, <1>3, <1>4, ReserveType DEF TypeOK, Ledgers
<1>9. first[d].free = ledger[d].free - c /\ \A x \in Accounts \ {d} : first[x].free = ledger[x].free
  BY <1>1, <1>8 DEF Reserve, Ledgers, Account
<1> HIDE DEF first
<1>10. /\ ledger'[who].free = first[who].free - base.fee
       /\ \A x \in Accounts \ {who} : ledger'[x].free = first[x].free
  BY <1>4, <1>8 DEF Reserve, Ledgers, Account
<1>11. Free(ledger') = paid
  <2>1. ASSUME NEW x \in Accounts
        PROVE  paid[x] = (ledger[x].free - (IF x = d THEN c ELSE 0)) - (IF x = who THEN base.fee ELSE 0)
    BY <1>1, <1>3, <1>8 DEF Plus, Free, Ledgers, Account
  <2>2. ASSUME NEW x \in Accounts
        PROVE  ledger'[x].free = (ledger[x].free - (IF x = d THEN c ELSE 0)) - (IF x = who THEN base.fee ELSE 0)
    BY <1>1, <1>3, <1>8, <1>9, <1>10 DEF Ledgers, Account
  <2>3. paid = [x \in Accounts |-> paid[x]]
    BY DEF Plus, Free
  <2> QED
    BY <2>1, <2>2, <2>3 DEF Free
<1>12. \A x \in Accounts : ledger'[x].free >= 0
  <2>1. ledger' \in Ledgers
    BY <1>3, <1>4, <1>8, ReserveType
  <2> QED
    BY <2>1 DEF Ledgers, Account
<1>13. Escrow!Covers(paid)
  BY <1>11, <1>12 DEF Escrow!Covers, Free
<1>14. ASSUME NEW h \in Escrow!Hold, h = hold  PROVE Escrow!Take(d, h)
  <2>1. h.collateral = c /\ h.client = who /\ h.fee = base.fee /\ h.until = o.until
    BY <1>2, <1>14 DEF HoldFor
  <2> HIDE DEF hold, o, c
  <2> QED
    BY <1>4, <1>6, <1>7, <1>11, <1>13, <1>14, <2>1
    DEF Escrow!Take, Escrow!Credit, EscrowTable, Free, Plus
<1> HIDE DEF hold
<1> QED
  BY <1>1, <1>5, <1>14 DEF Escrow!Next

\* Adding to funds keeps them funds.
LEMMA PlusType ==
  ASSUME NEW f \in Needs, NEW a \in Accounts, NEW v \in Nat
  PROVE  Plus(f, a, v) \in Needs
BY DEF Plus, Needs

\* An order that is settled gives both amounts back, once.
LEMMA SettleMaps ==
  ASSUME BackedInv, BackedInv', NEW d \in Accounts, IsLocal(orders[d]),
         NEW st, devices' = WithState(d, st),
         orders' = [orders EXCEPT ![d] = NoOrder], now' = now,
         NEW payee \in {d, orders[d].client}, SettledTo(d, payee)
  PROVE  Escrow!Next
<1> DEFINE f == Plus(Plus(Free(ledger), payee, orders[d].fee), Owner(d), devices[d].penalty)
<1>1. /\ ledger \in Ledgers /\ devices[d] # NoDevice /\ orders[d].client \in Accounts
      /\ orders[d].fee \in Nat /\ devices[d].penalty \in Nat
  BY OrderAmounts
<1>2. Owner(d) \in Accounts /\ payee \in Accounts
  BY <1>1 DEF Owner
<1>3. f \in Needs
  BY <1>1, <1>2, LedgerBecomes, PlusType
<1>4. \A x \in Accounts :
        \/ Free(ledger)'[x] = f[x]
        \/ /\ Free(ledger)'[x] = 0 /\ f[x] < ExistentialDeposit
           /\ Escrow!Uninvolved(EscrowTable', x)
  BY <1>3, FundsBecome DEF SettledTo
<1>5. EscrowTable' = [EscrowTable EXCEPT ![d] = NoOrder]
  BY <1>1, EscrowChanges DEF BackedInv, IsLocal
<1>6. EscrowTable[d] = HoldFor(orders[d], devices[d].penalty) /\ EscrowTable[d] # NoOrder
  BY EscrowOfLocal
<1>7. /\ EscrowTable[d].client = orders[d].client /\ EscrowTable[d].fee = orders[d].fee
      /\ EscrowTable[d].collateral = devices[d].penalty
      /\ EscrowTable[d].until = orders[d].until
  BY <1>6 DEF HoldFor
<1>8. f = Plus(Plus(Free(ledger), payee, EscrowTable[d].fee),
               IF now < EscrowTable[d].until THEN d ELSE EscrowTable[d].client,
               EscrowTable[d].collateral)
  BY <1>7 DEF Owner
<1> HIDE DEF f
<1>9. ASSUME NEW p \in Accounts, p = payee  PROVE Escrow!Settle(d, p)
  BY <1>4, <1>5, <1>6, <1>7, <1>8, <1>9
  DEF Escrow!Settle, Escrow!Become, Escrow!Credit, EscrowTable, Free, Plus
<1> QED
  BY <1>2, <1>9 DEF Escrow!Next

\* The collateral that done loses.
LEMMA ForfeitMaps ==
  ASSUME AmountsCoverDeposit, BackedInv, BackedInv', NEW d \in Accounts,
         NEW onoff, DoneStranding(d, onoff)
  PROVE  Escrow!Next
<1> DEFINE client == orders[d].client
           f == Plus(Free(ledger), d, orders[d].fee)
<1>1. /\ IsLocal(orders[d]) /\ ~(now < orders[d].until) /\ client # d
      /\ ledger'[client] = Empty /\ ledger[client].free < ExistentialDeposit
      /\ Becomes(ledger', f, Plus(Reserved(ledger), client, -orders[d].fee))
  BY DoneStrands
<1>2. /\ devices' = WithState(d, IdleState(onoff)) /\ now' = now
      /\ orders' = [orders EXCEPT ![d] = NoOrder]
  BY DEF DoneStranding, DoneBegins
<1>3. /\ ledger \in Ledgers /\ devices[d] # NoDevice /\ client \in Accounts
      /\ orders[d].fee \in Nat /\ orders[d].until \in Nat /\ now \in Nat
  BY <1>1, OrderAmounts, KnownOrder DEF BackedInv, BusyInv, IsLocal, IsOpen, TypeOK
<1>4. f \in Needs
  BY <1>3, LedgerBecomes, PlusType
<1>5. \A x \in Accounts :
        \/ Free(ledger)'[x] = f[x]
        \/ /\ Free(ledger)'[x] = 0 /\ f[x] < ExistentialDeposit
           /\ Escrow!Uninvolved(EscrowTable', x)
  BY <1>1, <1>4, FundsBecome
<1>12. Escrow!Uninvolved(EscrowTable', client)
  BY <1>1, <1>3, ReapedUninvolved
<1>6. EscrowTable' = [EscrowTable EXCEPT ![d] = NoOrder]
  BY <1>2, <1>3, EscrowChanges DEF BackedInv, IsLocal
<1>7. EscrowTable[d] = HoldFor(orders[d], devices[d].penalty) /\ EscrowTable[d] # NoOrder
  BY <1>1, EscrowOfLocal
<1>8. /\ EscrowTable[d].client = client /\ EscrowTable[d].fee = orders[d].fee
      /\ EscrowTable[d].until = orders[d].until
  BY <1>7 DEF HoldFor
<1>9. Free(ledger)[client] < ExistentialDeposit /\ Free(ledger)'[client] = 0
  BY <1>1, <1>3 DEF Free, Empty
<1>10. now >= EscrowTable[d].until
  BY <1>1, <1>3, <1>8
<1> HIDE DEF client
<1>11. Escrow!Forfeit(d)
  BY <1>1, <1>2, <1>5, <1>6, <1>7, <1>8, <1>9, <1>10, <1>12
  DEF Escrow!Forfeit, Escrow!Become, Escrow!Uninvolved, Escrow!Credit, EscrowTable, Free, Plus
<1> QED
  BY <1>11 DEF Escrow!Next

\* The collateral that order loses when a device orders from itself.
LEMMA StrandMaps ==
  ASSUME BackedInv, NEW who \in Accounts, NEW base \in OrderBase, OrderStranding(who, base)
  PROVE  Escrow!Next /\ who = base.device
<1> DEFINE d == base.device
<1>1. /\ BusyInv /\ TypeOK /\ d \in Accounts /\ devices[d] # NoDevice
      /\ base.fee \in Fees /\ base.fee \in Nat
  BY AmountTypes DEF BackedInv, BusyInv, OrderStranding, Acceptable, OrderBase
<1>2. ledger \in Ledgers /\ devices[d] \in DeviceProfile /\ devices[d].penalty \in Nat
  BY <1>1, KnownDevice DEF TypeOK, Ledgers
<1>3. devices[d].penalty \in Penalties
  BY <1>2 DEF DeviceProfile
<1> DEFINE c == devices[d].penalty
<1>4. /\ CanReserve(ledger, who, base.fee) /\ CanReserve(ledger, d, c)
      /\ ~CanReserve(Reserve(ledger, d, c), who, base.fee)
      /\ ledger' = Reserve(ledger, d, c)
      /\ UNCHANGED <<devices, orders, now>>
  BY DEF OrderStranding
<1>5. ledger[d].free \in Nat /\ ledger[who].free \in Nat
  BY <1>1, <1>2 DEF Ledgers, Account
<1>6. /\ Reserve(ledger, d, c)[d].free = ledger[d].free - c
      /\ \A x \in Accounts \ {d} : Reserve(ledger, d, c)[x].free = ledger[x].free
  BY <1>1, <1>2 DEF Reserve, Ledgers, Account
<1>7. who = d
  BY <1>4, <1>6 DEF CanReserve
<1>8. c <= ledger[d].free /\ base.fee <= ledger[d].free /\ base.fee + c > ledger[d].free
  BY <1>1, <1>2, <1>4, <1>5, <1>6, <1>7 DEF CanReserve
<1>9. Free(ledger') = Plus(Free(ledger), d, -c)
  <2>1. Plus(Free(ledger), d, -c) = [x \in Accounts |-> ledger[x].free + IF x = d THEN -c ELSE 0]
    BY <1>1, <1>2 DEF Plus, Free, Ledgers, Account
  <2>2. ASSUME NEW x \in Accounts
        PROVE  ledger'[x].free = ledger[x].free + IF x = d THEN -c ELSE 0
    BY <1>1, <1>2, <1>4, <1>6 DEF Ledgers, Account
  <2> QED
    BY <2>1, <2>2 DEF Free
<1>10. EscrowTable' = EscrowTable
  BY <1>4 DEF EscrowTable, EscrowOf
<1>11. ASSUME NEW v \in Penalties, v = c  PROVE Escrow!Strand(d, v)
  <2>1. Free(ledger)[d] = ledger[d].free
    BY <1>1 DEF Free
  <2> HIDE DEF c, d
  <2> QED
    BY <1>1, <1>4, <1>8, <1>9, <1>10, <1>11, <2>1
    DEF Escrow!Strand, Escrow!Credit, EscrowTable, Free, Plus
<1> HIDE DEF c
<1> QED
  BY <1>1, <1>3, <1>7, <1>11 DEF Escrow!Next, c

\* A payment outside the pallet.
LEMMA PayMaps ==
  ASSUME BackedInv, BackedInv', NEW from \in Accounts, NEW to \in Accounts,
         TransferFunds(from, to)
  PROVE  Escrow!Next
<1>1. PICK v \in 1 .. ledger[from].free :
        CanTransfer(ledger, from, to, v) /\ ledger' = Transfer(ledger, from, to, v)
  BY DEF TransferFunds
<1>2. ledger \in Ledgers /\ v \in Nat /\ v <= ledger[from].free /\ from # to
  BY <1>1 DEF BackedInv, BusyInv, TypeOK, Ledgers, Account, CanTransfer
<1>3. UNCHANGED <<devices, orders, now>>
  BY DEF TransferFunds
<1> DEFINE f == Plus(Plus(Free(ledger), from, -v), to, v)
<1>4. Becomes(ledger', f, Reserved(ledger))
  BY <1>1, <1>2, TransferBecomes
<1>5. f \in Needs
  BY <1>2 DEF Plus, Free, Needs, Ledgers, Account
<1>6. \A x \in Accounts :
        \/ Free(ledger)'[x] = f[x]
        \/ /\ Free(ledger)'[x] = 0 /\ f[x] < ExistentialDeposit
           /\ Escrow!Uninvolved(EscrowTable', x)
  BY <1>4, <1>5, FundsBecome
<1>7. EscrowTable' = EscrowTable
  BY <1>3 DEF EscrowTable, EscrowOf
<1>8. Free(ledger)[from] = ledger[from].free
  BY DEF Free
<1>9. Escrow!Pay(from, to, v)
  BY <1>2, <1>3, <1>6, <1>7, <1>8
  DEF Escrow!Pay, Escrow!Become, Escrow!Credit, EscrowTable, Free, Plus
<1>10. v \in 1 .. Free(ledger)[from]
  BY <1>8
<1> QED
  BY <1>9, <1>10 DEF Escrow!Next, Free

\* Steps that touch no local order and no balance.
LEMMA NothingMaps ==
  ASSUME BackedInv, now' = now, Free(ledger)' = Free(ledger), EscrowTable' = EscrowTable
  PROVE  UNCHANGED Escrow!vars
BY DEF Escrow!vars, EscrowTable, Free

\* A remote order comes or goes without an escrow.
LEMMA RemoteMaps ==
  ASSUME BackedInv, NEW d \in Accounts, devices[d] # NoDevice, ~IsLocal(orders[d]),
         NEW st, NEW o, ~IsLocal(o),
         devices' = WithState(d, st), orders' = [orders EXCEPT ![d] = o],
         now' = now, ledger' = ledger
  PROVE  UNCHANGED Escrow!vars
<1>1. EscrowTable' = [EscrowTable EXCEPT ![d] = NoOrder]
  BY EscrowChanges DEF BackedInv
<1>2. EscrowTable[d] = NoOrder
  BY EscrowOfLocal
<1>3. EscrowTable' = EscrowTable
  BY <1>1, <1>2 DEF EscrowTable
<1> QED
  BY <1>3, NothingMaps DEF Free

LEMMA RejectMaps ==
  ASSUME AmountsCoverDeposit, BackedInv, BackedInv', NEW d \in Accounts,
         devices[d] # NoDevice, NEW st, NEW onoff, OrderReject(d, st, onoff), now' = now
  PROVE  Escrow!Next \/ UNCHANGED Escrow!vars
<1>1. devices' = WithState(d, st) /\ orders' = [orders EXCEPT ![d] = NoOrder]
  BY DEF OrderReject
<1>2. CASE IsLocal(orders[d])
  BY <1>1, <1>2, RejectSettles, SettleMaps
<1>3. CASE ~IsLocal(orders[d])
  <2>1. ledger' = ledger /\ ~IsLocal(NoOrder)
    BY <1>3 DEF OrderReject, IsLocal
  <2> QED
    BY <1>1, <1>3, <2>1, RemoteMaps
<1> QED
  BY <1>2, <1>3

LEMMA DoneMaps ==
  ASSUME AmountsCoverDeposit, BackedInv, BackedInv', NEW d \in Accounts,
         NEW onoff, Done(d, onoff)
  PROVE  Escrow!Next \/ UNCHANGED Escrow!vars
<1>1. CASE DoneLocal(d, onoff)
  <2>1. /\ IsLocal(orders[d]) /\ devices' = WithState(d, IdleState(onoff))
        /\ orders' = [orders EXCEPT ![d] = NoOrder] /\ now' = now
    BY <1>1 DEF DoneLocal, DoneBegins
  <2> QED
    BY <1>1, <2>1, DoneSettles, SettleMaps
<1>2. CASE DoneStranding(d, onoff)
  BY <1>2, ForfeitMaps
<1>3. CASE DoneRemote(d, onoff) \/ DoneUnreported(d, onoff)
  <2>1. /\ ~IsLocal(orders[d]) /\ devices' = WithState(d, IdleState(onoff))
        /\ devices[d] # NoDevice
        /\ orders' = [orders EXCEPT ![d] = NoOrder] /\ now' = now /\ ledger' = ledger
    BY <1>3 DEF DoneRemote, DoneUnreported, DoneBegins
  <2>2. ~IsLocal(NoOrder)
    BY DEF IsLocal
  <2> QED
    BY <2>1, <2>2, RemoteMaps
<1> QED
  BY <1>1, <1>2, <1>3 DEF Done

\* An order that a message brings is of another parachain.
LEMMA MessageMaps ==
  ASSUME BackedInv, NEW sib \in Siblings, NEW msg \in OrderMsg,
         Handles(msg), HandleBlobMessage(sib, msg)
  PROVE  UNCHANGED Escrow!vars
<1> DEFINE o == StoredOrder(msg.order, msg.client, sib)
           d == msg.order.device
<1>1. OrderReceived(o, d) /\ now' = now
  BY DEF HandleBlobMessage
<1>2. ~IsLocal(o)
  BY ServiceAssumption DEF IsLocal, StoredOrder
<1>3. d \in Accounts
  BY DEF OrderMsg, OrderBase
<1>4. /\ devices[d] # NoDevice /\ ~IsLocal(orders[d])
      /\ devices' = WithState(d, OnReceived) /\ orders' = [orders EXCEPT ![d] = o]
      /\ ledger' = ledger
  BY <1>1, <1>2 DEF OrderReceived, Acceptable, IsOpen, IsLocal
<1> QED
  BY <1>1, <1>2, <1>3, <1>4, RemoteMaps

\* Changes of a device alone.
LEMMA DeviceMaps ==
  ASSUME BackedInv, UNCHANGED <<orders, ledger, now>>,
         \A y \in Accounts : IsLocal(orders[y]) => devices'[y].penalty = devices[y].penalty
  PROVE  UNCHANGED Escrow!vars
<1>1. EscrowTable' = EscrowTable
  BY DEF EscrowTable, EscrowOf
<1> QED
  BY <1>1, NothingMaps DEF Free

LEMMA EscrowStep ==
  ASSUME AmountsCoverDeposit, BackedInv, BackedInv', [Next]_vars
  PROVE  [Escrow!Next]_Escrow!vars
<1>0. BusyInv /\ TypeOK
  BY DEF BackedInv, BusyInv
<1> SUFFICES Escrow!Next \/ UNCHANGED Escrow!vars
  OBVIOUS
<1>1. ASSUME NEW who \in Accounts, NEW base \in OrderBase,
             OrderCall(who, base) \/ OrderStranding(who, base)
      PROVE  Escrow!Next
  BY <1>1, OrderCallMaps, StrandMaps
<1>2. ASSUME NEW who \in Accounts, NEW d \in Accounts, Cancel(who, d)
      PROVE  Escrow!Next \/ UNCHANGED Escrow!vars
  BY <1>2, RejectMaps DEF Cancel
<1>3. ASSUME NEW id \in Accounts, NEW onoff \in BOOLEAN, Reject(id, onoff) \/ Done(id, onoff)
      PROVE  Escrow!Next \/ UNCHANGED Escrow!vars
  BY <1>3, RejectMaps, DoneMaps DEF Reject
<1>4. ASSUME NEW id \in Accounts, NEW onoff \in BOOLEAN, SetState(id, onoff) \/ Accept(id)
      PROVE  UNCHANGED Escrow!vars
  <2>1. PICK st : devices' = WithState(id, st)
    BY <1>4 DEF SetState, Accept
  <2>2. devices[id] # NoDevice /\ UNCHANGED <<orders, ledger, now>>
    BY <1>4 DEF SetState, Accept
  <2>3. \A y \in Accounts : devices'[y].penalty = devices[y].penalty
    BY <1>0, <2>1, <2>2, KnownDevice DEF TypeOK, WithState, DeviceProfile
  <2> QED
    BY <2>2, <2>3, DeviceMaps
<1>5. ASSUME NEW id \in Registrants, NEW pen \in Penalties, NEW w \in Durations,
             NEW onoff \in BOOLEAN, Register(id, pen, w, onoff)
      PROVE  UNCHANGED Escrow!vars
  <2>1. /\ UNCHANGED <<orders, ledger, now>> /\ ~IsLocal(orders[id])
        /\ \A y \in Accounts \ {id} : devices'[y] = devices[y]
    BY <1>0, <1>5 DEF Register, IsOpen, IsLocal, TypeOK
  <2> QED
    BY <2>1, DeviceMaps
<1>6. ASSUME NEW sib \in Siblings, NEW msg \in OrderMsg,
             Handles(msg), HandleBlobMessage(sib, msg)
      PROVE  UNCHANGED Escrow!vars
  BY <1>6, MessageMaps
<1>7. ASSUME NEW from \in Accounts, NEW to \in Accounts, TransferFunds(from, to)
      PROVE  Escrow!Next
  BY <1>7, PayMaps
<1>8. CASE NextBlock
  <2>1. now \in Nat /\ now' = now + 1 /\ UNCHANGED <<devices, orders, ledger>>
    BY <1>0, <1>8 DEF NextBlock, TypeOK
  <2>2. EscrowTable' = EscrowTable /\ Free(ledger)' = Free(ledger) /\ now' > now
    BY <2>1 DEF EscrowTable, EscrowOf, Free
  <2>3. Escrow!Tick
    BY <2>2 DEF Escrow!Tick, EscrowTable, Free
  <2> QED
    BY <2>3 DEF Escrow!Next
<1>9. CASE (\E p \in Siblings : OpenChannel(p) \/ Carry(p)) \/ UNCHANGED vars
  BY <1>9, DeviceMaps DEF OpenChannel, Carry, vars
<1> QED
  BY <1>1, <1>2, <1>3, <1>4, <1>5, <1>6, <1>7, <1>8, <1>9
  DEF Next, PalletStep, ChainStep, DeviceStep

\* The pallet's pooled reserves implement an escrow per order: each local order
\* takes fee and collateral together, gives each back exactly once and to whom
\* it is due, and no other order's money moves with them (order_received,
\* order_done, order_reject), whatever the number of orders an account is
\* client or device of.  No amount may be below the existential deposit.
THEOREM EscrowImplemented == ASSUME AmountsCoverDeposit PROVE Spec => ImplementsEscrow
<1>1. Init => Escrow!Init
  <2> SUFFICES ASSUME Init  PROVE Escrow!Init
    OBVIOUS
  <2>1. TypeOK
    BY TypeInit
  <2>2. \A d \in Accounts : EscrowOf(d) = NoOrder
    BY DEF Init, EscrowOf, IsLocal
  <2> QED
    BY <2>1, <2>2 DEF Escrow!Init, TypeOK, Account
<1>2. BackedInv /\ BackedInv' /\ [Next]_vars => [Escrow!Next]_Escrow!vars
  BY EscrowStep
<1> QED
  BY <1>1, <1>2, BackedInvariant, PTL DEF Spec, ImplementsEscrow, Escrow!Spec

(***************************************************************************)
(* Settling an order touches only what that order holds.                   *)
(***************************************************************************)

\* What the property asks for an account.
Untouched(a) ==
  Surplus(a)' = Surplus(a) \/ Stranding(a) \/ ~Exists(ledger', a)

LEMMA ReapedIsDead ==
  ASSUME NEW x, ledger'[x] = Empty
  PROVE  ~Exists(ledger', x)
BY AmountTypes DEF Exists, Total, Empty

\* What the order of d held of x is what its removal takes off the count.
LEMMA RemovedHold ==
  ASSUME BackedInv, NEW d \in Accounts, devices[d] # NoDevice,
         NEW st, devices' = WithState(d, st), orders' = [orders EXCEPT ![d] = NoOrder],
         NEW x \in Accounts
  PROVE  /\ Held(devices, orders, x)
              = Held(devices', orders', x) + HoldOf(orders[d], d, devices[d].penalty, x)
         /\ Held(devices', orders', x) \in Nat
         /\ HoldOf(orders[d], d, devices[d].penalty, x) \in Nat
<1>1. BusyInv /\ TypeOK /\ devices[d] \in DeviceProfile
  BY KnownDevice DEF BackedInv, BusyInv
<1>2. Held(devices', orders', x) = NeedAfter(d)[x]
  BY <1>1, HeldAfterState DEF NeedAfter
<1>3. /\ HoldOf(orders[d], d, devices[d].penalty, x) \in Nat
      /\ Held(devices, orders, x) = NeedAfter(d)[x] + HoldOf(orders[d], d, devices[d].penalty, x)
  BY <1>1, CurrentTables, HeldRemove DEF NeedAfter
<1>4. NeedAfter(d)[x] \in Nat
  BY <1>1, NeedTypes DEF Needs
<1> QED
  BY <1>2, <1>3, <1>4

LEMMA RemovedNothing ==
  ASSUME BackedInv, NEW d \in Accounts, devices[d] # NoDevice,
         NEW st, devices' = WithState(d, st), orders' = [orders EXCEPT ![d] = NoOrder],
         NEW x \in Accounts, HoldOf(orders[d], d, devices[d].penalty, x) = 0
  PROVE  Held(devices', orders', x) = Held(devices, orders, x)
<1>1. /\ Held(devices, orders, x)
            = Held(devices', orders', x) + HoldOf(orders[d], d, devices[d].penalty, x)
      /\ Held(devices', orders', x) \in Nat
  BY RemovedHold
<1> QED
  BY <1>1

LEMMA BecomesReserve ==
  ASSUME NEW m, NEW f, NEW r, Becomes(m, f, r), NEW x \in Accounts
  PROVE  m[x].reserved = r[x] \/ m[x] = Empty
<1>1. CASE m[x] = [free |-> f[x], reserved |-> r[x]]
  <2>1. [free |-> f[x], reserved |-> r[x]].reserved = r[x]
    OBVIOUS
  <2> QED
    BY <1>1, <2>1
<1> QED
  BY <1>1 DEF Becomes

LEMMA SettleUntouched ==
  ASSUME BackedInv, NEW d \in Accounts, IsLocal(orders[d]),
         NEW st, devices' = WithState(d, st),
         orders' = [orders EXCEPT ![d] = NoOrder],
         NEW payee, SettledTo(d, payee), NEW x \in Accounts
  PROVE  Untouched(x)
<1> DEFINE client == orders[d].client
           fee == orders[d].fee
           pen == devices[d].penalty
           r == Plus(Plus(Reserved(ledger), client, -fee), d, -pen)
<1>1. /\ ledger \in Ledgers /\ devices[d] # NoDevice /\ client \in Accounts
      /\ fee \in Nat /\ pen \in Nat
  BY OrderAmounts
<1>2. /\ Held(devices, orders, x) = Held(devices', orders', x) + HoldOf(orders[d], d, pen, x)
      /\ Held(devices', orders', x) \in Nat /\ HoldOf(orders[d], d, pen, x) \in Nat
  BY <1>1, RemovedHold
<1>3. HoldOf(orders[d], d, pen, x)
        = (IF x = client THEN fee ELSE 0) + IF x = d THEN pen ELSE 0
  BY DEF HoldOf, FeeOf
<1>4. r[x] = (ledger[x].reserved - (IF x = client THEN fee ELSE 0)) - IF x = d THEN pen ELSE 0
  BY <1>1 DEF Plus, Reserved, Ledgers, Account
<1>5. ledger'[x].reserved = r[x] \/ ledger'[x] = Empty
  BY BecomesReserve DEF SettledTo
<1>6. ledger[x].reserved \in Nat
  BY <1>1 DEF Ledgers, Account
<1> HIDE DEF client, fee, pen, r
<1>7. CASE ledger'[x].reserved = r[x]
  BY <1>1, <1>2, <1>3, <1>4, <1>6, <1>7 DEF Untouched, Surplus
<1>8. CASE ledger'[x] = Empty
  BY <1>8, ReapedIsDead DEF Untouched
<1> QED
  BY <1>5, <1>7, <1>8

\* A done that fails half way leaves its own collateral behind, no other hold.
LEMMA StrandedUntouched ==
  ASSUME AmountsCoverDeposit, BackedInv, NEW d \in Accounts,
         NEW onoff \in BOOLEAN, DoneStranding(d, onoff), NEW x \in Accounts
  PROVE  Untouched(x)
<1> DEFINE client == orders[d].client
           r == Plus(Reserved(ledger), client, -orders[d].fee)
<1>1. /\ IsLocal(orders[d]) /\ ledger'[client] = Empty
      /\ ledger'[x].reserved = r[x] \/ ledger'[x] = Empty
  BY DoneStrands, BecomesReserve
<1>2. CASE x = d
  BY <1>2 DEF Untouched, Stranding
<1>3. CASE ledger'[x] = Empty
  BY <1>3, ReapedIsDead DEF Untouched
<1>4. CASE x # d /\ x # client /\ ledger'[x].reserved = r[x]
  <2>1. ledger \in Ledgers /\ devices[d] # NoDevice /\ client \in Accounts
    BY <1>1, OrderAmounts
  <2>2. r[x] = ledger[x].reserved
    BY <1>4, <2>1 DEF Plus, Reserved
  <2>3. HoldOf(orders[d], d, devices[d].penalty, x) = 0
    BY <1>4 DEF HoldOf, FeeOf
  <2>4. devices' = WithState(d, IdleState(onoff)) /\ orders' = [orders EXCEPT ![d] = NoOrder]
    BY DEF DoneStranding, DoneBegins
  <2>5. Held(devices', orders', x) = Held(devices, orders, x)
    BY <2>1, <2>3, <2>4, RemovedNothing
  <2> QED
    BY <1>4, <2>2, <2>5 DEF Untouched, Surplus
<1> QED
  BY <1>1, <1>2, <1>3, <1>4

\* The balances stay, and so do the holds.
LEMMA QuietUntouched ==
  ASSUME BackedInv, ledger' = ledger, NEW x \in Accounts,
         Held(devices', orders', x) = Held(devices, orders, x)
  PROVE  Untouched(x)
BY DEF Untouched, Surplus

LEMMA RejectUntouched ==
  ASSUME AmountsCoverDeposit, BackedInv, NEW d \in Accounts, devices[d] # NoDevice,
         NEW st, NEW onoff, OrderReject(d, st, onoff), NEW x \in Accounts
  PROVE  Untouched(x)
<1>1. devices' = WithState(d, st) /\ orders' = [orders EXCEPT ![d] = NoOrder]
  BY DEF OrderReject
<1>2. CASE IsLocal(orders[d])
  BY <1>1, <1>2, RejectSettles, SettleUntouched
<1>3. CASE ~IsLocal(orders[d])
  <2>1. ledger' = ledger
    BY <1>3 DEF OrderReject
  <2>2. HoldOf(orders[d], d, devices[d].penalty, x) = 0
    BY <1>3 DEF HoldOf, FeeOf
  <2>3. Held(devices', orders', x) = Held(devices, orders, x)
    BY <1>1, <2>2, RemovedNothing
  <2> QED
    BY <2>1, <2>3, QuietUntouched
<1> QED
  BY <1>2, <1>3

LEMMA DoneUntouched ==
  ASSUME AmountsCoverDeposit, BackedInv, NEW d \in Accounts, NEW onoff \in BOOLEAN,
         Done(d, onoff), NEW x \in Accounts
  PROVE  Untouched(x)
<1>1. CASE DoneLocal(d, onoff)
  <2>1. /\ IsLocal(orders[d]) /\ devices' = WithState(d, IdleState(onoff))
        /\ orders' = [orders EXCEPT ![d] = NoOrder]
    BY <1>1 DEF DoneLocal, DoneBegins
  <2> QED
    BY <1>1, <2>1, DoneSettles, SettleUntouched
<1>2. CASE DoneStranding(d, onoff)
  BY <1>2, StrandedUntouched
<1>3. CASE DoneRemote(d, onoff) \/ DoneUnreported(d, onoff)
  <2>1. /\ ~IsLocal(orders[d]) /\ devices' = WithState(d, IdleState(onoff))
        /\ devices[d] # NoDevice
        /\ orders' = [orders EXCEPT ![d] = NoOrder] /\ ledger' = ledger
    BY <1>3 DEF DoneRemote, DoneUnreported, DoneBegins
  <2>2. HoldOf(orders[d], d, devices[d].penalty, x) = 0
    BY <2>1 DEF HoldOf, FeeOf
  <2>3. Held(devices', orders', x) = Held(devices, orders, x)
    BY <2>1, <2>2, RemovedNothing
  <2> QED
    BY <2>1, <2>3, QuietUntouched
<1> QED
  BY <1>1, <1>2, <1>3 DEF Done

LEMMA OrderUntouched ==
  ASSUME BackedInv, BusyInv', NEW o \in Order(ParaIds), NEW d \in Accounts,
         OrderReceived(o, d), NEW x \in Accounts
  PROVE  Untouched(x)
BY ReceivedHolds DEF Untouched, Surplus

LEMMA UntouchedStep ==
  ASSUME AmountsCoverDeposit, BackedInv, BackedInv', [Next]_vars, NEW x \in Accounts
  PROVE  Untouched(x)
<1>0. BusyInv /\ TypeOK /\ BusyInv'
  BY DEF BackedInv, BusyInv
<1>1. ASSUME NEW who \in Accounts, NEW base \in OrderBase, OrderCall(who, base)
      PROVE  Untouched(x)
  BY <1>0, <1>1, StoredOrderType, OrderUntouched DEF OrderCall, ParaIds, OrderBase
<1>2. ASSUME NEW who \in Accounts, NEW base \in OrderBase, OrderStranding(who, base)
      PROVE  Untouched(x)
  <2>1. who = base.device
    BY <1>2, StrandMaps
  <2>2. CASE x = who
    BY <1>2, <2>2 DEF Untouched, Stranding
  <2>3. CASE x # who
    <3>1. ledger'[x] = ledger[x] /\ UNCHANGED <<devices, orders>>
      BY <1>0, <1>2, <2>1, <2>3 DEF OrderStranding, Reserve, TypeOK
    <3> QED
      BY <3>1 DEF Untouched, Surplus
  <2> QED
    BY <2>2, <2>3
<1>3. ASSUME NEW who \in Accounts, NEW d \in Accounts, Cancel(who, d)
      PROVE  Untouched(x)
  BY <1>3, RejectUntouched DEF Cancel
<1>4. ASSUME NEW id \in Accounts, NEW onoff \in BOOLEAN, Reject(id, onoff) \/ Done(id, onoff)
      PROVE  Untouched(x)
  BY <1>4, RejectUntouched, DoneUntouched DEF Reject
<1>5. ASSUME ledger' = ledger, orders' = orders,
             \A y \in Accounts : IsLocal(orders[y]) => devices'[y].penalty = devices[y].penalty
      PROVE  Untouched(x)
  <2>1. Held(devices', orders, x) = Held(devices, orders, x)
    BY <1>5, HeldSamePenalties
  <2> QED
    BY <1>5, <2>1, QuietUntouched
<1>6. ASSUME NEW id \in Accounts, NEW onoff \in BOOLEAN, SetState(id, onoff) \/ Accept(id)
      PROVE  Untouched(x)
  <2>1. PICK st : devices' = WithState(id, st)
    BY <1>6 DEF SetState, Accept
  <2>2. devices[id] # NoDevice /\ UNCHANGED <<orders, ledger>>
    BY <1>6 DEF SetState, Accept
  <2>3. \A y \in Accounts : devices'[y].penalty = devices[y].penalty
    BY <1>0, <2>1, <2>2, KnownDevice DEF TypeOK, WithState, DeviceProfile
  <2> QED
    BY <1>5, <2>2, <2>3
<1>7. ASSUME NEW id \in Registrants, NEW pen \in Penalties, NEW w \in Durations,
             NEW onoff \in BOOLEAN, Register(id, pen, w, onoff)
      PROVE  Untouched(x)
  <2>1. /\ UNCHANGED <<orders, ledger>> /\ ~IsLocal(orders[id])
        /\ \A y \in Accounts \ {id} : devices'[y] = devices[y]
    BY <1>0, <1>7 DEF Register, IsOpen, IsLocal, TypeOK
  <2>2. \A y \in Accounts : IsLocal(orders[y]) => devices'[y].penalty = devices[y].penalty
    BY <2>1
  <2> QED
    BY <1>5, <2>1, <2>2
<1>8. ASSUME NEW sib \in Siblings, NEW msg \in OrderMsg,
             Handles(msg), HandleBlobMessage(sib, msg)
      PROVE  Untouched(x)
  <2>1. /\ StoredOrder(msg.order, msg.client, sib) \in Order(ParaIds)
        /\ msg.order.device \in Accounts
    BY StoredOrderType DEF ParaIds, OrderBase, OrderMsg
  <2> QED
    BY <1>0, <1>8, <2>1, OrderUntouched DEF HandleBlobMessage
<1>9. ASSUME NEW from \in Accounts, NEW to \in Accounts, TransferFunds(from, to)
      PROVE  Untouched(x)
  <2>1. PICK v \in 1 .. ledger[from].free :
          CanTransfer(ledger, from, to, v) /\ ledger' = Transfer(ledger, from, to, v)
    BY <1>9 DEF TransferFunds
  <2>2. ledger \in Ledgers /\ v \in Nat
    BY <1>0, <2>1 DEF TypeOK, Ledgers, Account
  <2>3. ledger'[x].reserved = Reserved(ledger)[x] \/ ledger'[x] = Empty
    BY <2>1, <2>2, TransferBecomes, BecomesReserve
  <2>4. UNCHANGED <<devices, orders>>
    BY <1>9 DEF TransferFunds
  <2>5. CASE ledger'[x].reserved = Reserved(ledger)[x]
    BY <2>4, <2>5 DEF Untouched, Surplus, Reserved
  <2>6. CASE ledger'[x] = Empty
    BY <2>6, ReapedIsDead DEF Untouched
  <2> QED
    BY <2>3, <2>5, <2>6
<1>10. CASE NextBlock \/ (\E p \in Siblings : OpenChannel(p) \/ Carry(p)) \/ UNCHANGED vars
  BY <1>5, <1>10 DEF NextBlock, OpenChannel, Carry, vars
<1> QED
  BY <1>1, <1>2, <1>3, <1>4, <1>6, <1>7, <1>8, <1>9, <1>10
  DEF Next, PalletStep, ChainStep, DeviceStep

\* What an account has reserved beyond the holds of its open orders, never
\* pays for another's order: it stays what it is through every settlement, and
\* changes only for the device whose own call fails half way or with the
\* account itself (order_received, order_done, order_reject).
THEOREM OthersUntouched == ASSUME AmountsCoverDeposit PROVE Spec => OthersHoldsUntouched
<1>1. BackedInv /\ BackedInv' /\ [Next]_vars =>
        [\A a \in Accounts :
           \/ Surplus(a)' = Surplus(a)
           \/ Stranding(a)
           \/ ~Exists(ledger', a)]_vars
  BY UntouchedStep DEF Untouched
<1> QED
  BY <1>1, BackedInvariant, PTL DEF Spec, OthersHoldsUntouched

=============================================================================

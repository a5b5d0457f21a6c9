---------------------------- MODULE LedgerProofs -----------------------------
(***************************************************************************)
(* What both pallets' proofs need of the currency: its operators keep a    *)
(* ledger a ledger, they leave each account the reserve it needs, and the  *)
(* fees of a table are counted one order at a time.                        *)
(***************************************************************************)
EXTENDS PalletCommon, FiniteSetTheorems, TLAPS

Ledgers == [Accounts -> Account]

LEMMA AmountTypes ==
  /\ ExistentialDeposit \in Nat \ {0}
  /\ MaxBalance \in Nat
  /\ \A v \in Fees : v \in Nat /\ v <= MaxBalance
  /\ \A v \in Penalties : v \in Nat
  /\ \A v \in Durations : v \in Nat
  /\ \A v \in Deadlines : v \in Nat
BY DepositAssumption, InputsAssumption

(***************************************************************************)
(* The currency operators keep a ledger a ledger.                          *)
(***************************************************************************)

LEMMA ReserveType ==
  ASSUME NEW l \in Ledgers, NEW x \in Accounts, NEW v \in Nat, CanReserve(l, x, v)
  PROVE  Reserve(l, x, v) \in Ledgers
BY DEF Ledgers, Account, CanReserve, Reserve

LEMMA UnreserveType ==
  ASSUME NEW l \in Ledgers, NEW x \in Accounts, NEW v \in Nat
  PROVE  Unreserve(l, x, v) \in Ledgers
BY DEF Ledgers, Account, Unreserve, Lesser

LEMMA ReapType ==
  ASSUME NEW acc \in Account
  PROVE  Reap(acc) \in Account
BY DepositAssumption DEF Reap, Account, Empty, Total

LEMMA RepatriateType ==
  ASSUME NEW l \in Ledgers, NEW x \in Accounts, NEW y \in Accounts, NEW v \in Nat
  PROVE  Repatriate(l, x, y, v) \in Ledgers
<1>1. CASE x = y
  BY <1>1, UnreserveType DEF Repatriate
<1>2. CASE x # y
  <2> DEFINE moved == Lesser(v, l[x].reserved)
             paid == [free |-> l[y].free + moved, reserved |-> l[y].reserved]
             left == [free |-> l[x].free, reserved |-> l[x].reserved - moved]
  <2>1. moved \in Nat /\ moved <= l[x].reserved
    BY DEF Lesser, Ledgers, Account
  <2>2. paid \in Account /\ left \in Account
    BY <2>1 DEF Ledgers, Account
  <2>3. Reap(left) \in Account
    BY <2>2, ReapType
  <2>4. Repatriate(l, x, y, v) = [l EXCEPT ![y] = paid, ![x] = Reap(left)]
    BY <1>2 DEF Repatriate
  <2> QED
    BY <2>2, <2>3, <2>4 DEF Ledgers
<1> QED BY <1>1, <1>2

LEMMA TransferType ==
  ASSUME NEW l \in Ledgers, NEW x \in Accounts, NEW y \in Accounts, NEW v \in Nat,
         CanTransfer(l, x, y, v)
  PROVE  Transfer(l, x, y, v) \in Ledgers
<1> DEFINE paid == [free |-> l[y].free + v, reserved |-> l[y].reserved]
           left == [free |-> l[x].free - v, reserved |-> l[x].reserved]
<1>1. paid \in Account /\ left \in Account
  BY DEF Ledgers, Account, CanTransfer
<1>2. Reap(left) \in Account
  BY <1>1, ReapType
<1> QED
  BY <1>1, <1>2 DEF Ledgers, Transfer

(***************************************************************************)
(* The currency operators against a reserve each account must keep.        *)
(***************************************************************************)

Needs == [Accounts -> Nat]

Covers(l, need) == \A x \in Accounts : need[x] <= l[x].reserved

LEMMA ReserveCovers ==
  ASSUME NEW l \in Ledgers, NEW a \in Accounts, NEW v \in Nat, NEW need \in Needs,
         \A x \in Accounts : need[x] <= l[x].reserved + IF x = a THEN v ELSE 0
  PROVE  Covers(Reserve(l, a, v), need)
BY DEF Covers, Reserve, Ledgers, Account, Needs

LEMMA UnreserveCovers ==
  ASSUME NEW l \in Ledgers, NEW a \in Accounts, NEW v \in Nat, NEW need \in Needs,
         \A x \in Accounts : need[x] + (IF x = a THEN v ELSE 0) <= l[x].reserved
  PROVE  Covers(Unreserve(l, a, v), need)
BY DEF Covers, Unreserve, Lesser, Ledgers, Account, Needs

\* An account is reaped only below the deposit; a need of 0 survives that.
LEMMA ReapKeeps ==
  ASSUME NEW acc \in Account, NEW n \in Nat, n = 0 \/ n >= ExistentialDeposit,
         n <= acc.reserved
  PROVE  n <= Reap(acc).reserved
<1>1. CASE Total(acc) < ExistentialDeposit
  BY <1>1, AmountTypes DEF Reap, Total, Empty, Account
<1>2. CASE ~(Total(acc) < ExistentialDeposit)
  BY <1>2 DEF Reap
<1> QED BY <1>1, <1>2

LEMMA RepatriateKeeps ==
  ASSUME NEW l \in Ledgers, NEW a \in Accounts, NEW b \in Accounts, NEW v \in Nat,
         NEW x \in Accounts, NEW n \in Nat, x = a => n = 0 \/ n >= ExistentialDeposit,
         n + (IF x = a THEN v ELSE 0) <= l[x].reserved
  PROVE  n <= Repatriate(l, a, b, v)[x].reserved
<1>1. CASE a = b
  BY <1>1 DEF Repatriate, Unreserve, Lesser, Ledgers, Account
<1>2. CASE a # b /\ x = a
  <2> DEFINE left == [free |-> l[a].free, reserved |-> l[a].reserved - v]
  <2>1. Lesser(v, l[a].reserved) = v
    BY <1>2 DEF Lesser, Ledgers, Account
  <2>2. Repatriate(l, a, b, v)[x] = Reap(left)
    BY <1>2, <2>1 DEF Repatriate, Ledgers
  <2>3. n <= left.reserved /\ left \in Account
    BY <1>2 DEF Ledgers, Account
  <2> HIDE DEF left
  <2> QED
    BY <1>2, <2>2, <2>3, ReapKeeps
<1>3. CASE a # b /\ x # a
  BY <1>3 DEF Repatriate, Ledgers, Account
<1> QED BY <1>1, <1>2, <1>3

LEMMA RepatriateCovers ==
  ASSUME NEW l \in Ledgers, NEW a \in Accounts, NEW b \in Accounts, NEW v \in Nat,
         NEW need \in Needs, need[a] = 0 \/ need[a] >= ExistentialDeposit,
         \A x \in Accounts : need[x] + (IF x = a THEN v ELSE 0) <= l[x].reserved
  PROVE  Covers(Repatriate(l, a, b, v), need)
BY RepatriateKeeps DEF Covers, Needs

LEMMA TransferKeeps ==
  ASSUME NEW l \in Ledgers, NEW a \in Accounts, NEW b \in Accounts, NEW v \in Nat,
         CanTransfer(l, a, b, v), NEW x \in Accounts, NEW n \in Nat,
         x = a => n = 0 \/ n >= ExistentialDeposit, n <= l[x].reserved
  PROVE  n <= Transfer(l, a, b, v)[x].reserved
<1> DEFINE left == [free |-> l[a].free - v, reserved |-> l[a].reserved]
<1>1. CASE x = a
  <2>1. Transfer(l, a, b, v)[x] = Reap(left)
    BY <1>1 DEF CanTransfer, Transfer, Ledgers
  <2>2. n <= left.reserved /\ left \in Account
    BY <1>1 DEF Ledgers, Account, CanTransfer
  <2> HIDE DEF left
  <2> QED
    BY <1>1, <2>1, <2>2, ReapKeeps
<1>2. CASE x # a
  BY <1>2 DEF Transfer, Ledgers, Account
<1> QED BY <1>1, <1>2

LEMMA TransferCovers ==
  ASSUME NEW l \in Ledgers, NEW a \in Accounts, NEW b \in Accounts, NEW v \in Nat,
         NEW need \in Needs, need[a] = 0 \/ need[a] >= ExistentialDeposit,
         CanTransfer(l, a, b, v), Covers(l, need)
  PROVE  Covers(Transfer(l, a, b, v), need)
BY TransferKeeps DEF Covers, Needs

(***************************************************************************)
(* Fees counted unit by unit.  A table of fees is a function from devices  *)
(* to amounts; its units are a set with one pair for each unit of each fee,*)
(* so changing one fee changes the count by a disjoint union.              *)
(***************************************************************************)

FeeTable == [Accounts -> 0 .. MaxBalance]

Units(f) == {u \in Accounts \X (1 .. MaxBalance) : u[2] <= f[u[1]]}

LEMMA UnitsFinite ==
  ASSUME IsFiniteSet(Accounts), NEW f
  PROVE  IsFiniteSet(Units(f)) /\ Cardinality(Units(f)) \in Nat
<1>1. IsFiniteSet(1 .. MaxBalance)
  BY AmountTypes, FS_Interval
<1>2. IsFiniteSet(Accounts \X (1 .. MaxBalance))
  BY <1>1, FS_Product
<1>3. Units(f) \subseteq Accounts \X (1 .. MaxBalance)
  BY DEF Units
<1>4. IsFiniteSet(Units(f))
  BY <1>2, <1>3, FS_Subset
<1> QED
  BY <1>4, FS_CardinalityType

LEMMA UnitsOfOne ==
  ASSUME NEW d, NEW n \in Nat
  PROVE  IsFiniteSet({d} \X (1 .. n)) /\ Cardinality({d} \X (1 .. n)) = n
<1>1. IsFiniteSet(1 .. n) /\ Cardinality(1 .. n) = n
  BY FS_Interval
<1>2. IsFiniteSet({d}) /\ Cardinality({d}) = 1
  BY FS_Singleton
<1>3. /\ IsFiniteSet({d} \X (1 .. n))
      /\ Cardinality({d} \X (1 .. n)) = Cardinality({d}) * Cardinality(1 .. n)
  BY <1>1, <1>2, FS_Product
<1> QED
  BY <1>1, <1>2, <1>3

LEMMA UnitsInsert ==
  ASSUME IsFiniteSet(Accounts), NEW f \in FeeTable, NEW d \in Accounts, f[d] = 0,
         NEW n \in 0 .. MaxBalance
  PROVE  Cardinality(Units([f EXCEPT ![d] = n])) = Cardinality(Units(f)) + n
<1> DEFINE new == {d} \X (1 .. n)
<1>1. n \in Nat /\ n <= MaxBalance /\ MaxBalance \in Nat
  BY AmountTypes
<1>2. IsFiniteSet(new) /\ Cardinality(new) = n
  BY <1>1, UnitsOfOne
<1>3. Units([f EXCEPT ![d] = n]) = Units(f) \cup new
  <2>1. ASSUME NEW u \in Accounts \X (1 .. MaxBalance), u[1] # d
        PROVE  [f EXCEPT ![d] = n][u[1]] = f[u[1]] /\ u \notin new
    BY <2>1 DEF FeeTable
  <2>2. ASSUME NEW u \in Accounts \X (1 .. MaxBalance), u[1] = d
        PROVE  /\ [f EXCEPT ![d] = n][u[1]] = n /\ u \notin Units(f)
               /\ u[2] <= n <=> u \in new
    <3>1. [f EXCEPT ![d] = n][d] = n
      BY DEF FeeTable
    <3>2. u = <<d, u[2]>> /\ u[2] \in 1 .. MaxBalance
      BY <2>2
    <3>3. u \notin Units(f)
      BY <2>2, <3>2 DEF Units
    <3>4. u[2] <= n <=> u[2] \in 1 .. n
      BY <1>1, <3>2
    <3> QED
      BY <2>2, <3>1, <3>2, <3>3, <3>4
  <2>3. new \subseteq Accounts \X (1 .. MaxBalance)
    BY <1>1
  <2> QED
    BY <2>1, <2>2, <2>3 DEF Units
<1>4. Units(f) \cap new = {}
  BY <1>1 DEF Units
<1>5. Cardinality(Units(f) \cap new) = 0
  BY <1>4, FS_EmptySet
<1> HIDE DEF new
<1>6. IsFiniteSet(Units(f)) /\ Cardinality(Units(f)) \in Nat
  BY UnitsFinite
<1>7. Cardinality(Units(f) \cup new)
        = Cardinality(Units(f)) + Cardinality(new) - Cardinality(Units(f) \cap new)
  BY <1>2, <1>6, FS_Union
<1>8. Cardinality(Units(f) \cup new) = Cardinality(Units(f)) + n
  BY <1>1, <1>2, <1>5, <1>6, <1>7
<1> QED
  BY <1>3, <1>8

\* No fee is counted at less than its amount, and no fees count nothing.
LEMMA UnitsCount ==
  ASSUME IsFiniteSet(Accounts), NEW f \in FeeTable
  PROVE  /\ \A d \in Accounts : f[d] <= Cardinality(Units(f))
         /\ (\A d \in Accounts : f[d] = 0) => Cardinality(Units(f)) = 0
<1>1. ASSUME NEW d \in Accounts
      PROVE  f[d] <= Cardinality(Units(f))
  <2>1. f[d] \in Nat /\ f[d] <= MaxBalance /\ MaxBalance \in Nat
    BY AmountTypes DEF FeeTable
  <2>2. {d} \X (1 .. f[d]) \subseteq Units(f)
    BY <2>1 DEF Units
  <2>3. Cardinality({d} \X (1 .. f[d])) = f[d]
    BY <2>1, UnitsOfOne
  <2> QED
    BY <2>2, <2>3, UnitsFinite, FS_Subset
<1>2. ASSUME \A d \in Accounts : f[d] = 0
      PROVE  Cardinality(Units(f)) = 0
  <2>1. Units(f) = {}
    BY <1>2 DEF Units
  <2> QED
    BY <2>1, FS_EmptySet
<1> QED
  BY <1>1, <1>2

(***************************************************************************)
(* What the operators take of one account's reserve.                       *)
(***************************************************************************)

LEMMA UnreserveTakes ==
  ASSUME NEW l \in Ledgers, NEW a \in Accounts, NEW v \in Nat, NEW x \in Accounts,
         x = a => v <= l[x].reserved
  PROVE  Unreserve(l, a, v)[x].reserved = l[x].reserved - IF x = a THEN v ELSE 0
BY DEF Unreserve, Lesser, Ledgers, Account

\* Unless it is all the account had.
LEMMA RepatriateTakes ==
  ASSUME NEW l \in Ledgers, NEW a \in Accounts, NEW b \in Accounts, NEW v \in Nat,
         NEW x \in Accounts, x = a => v <= l[x].reserved
  PROVE  \/ Repatriate(l, a, b, v)[x].reserved = l[x].reserved - IF x = a THEN v ELSE 0
         \/ x = a /\ Repatriate(l, a, b, v)[x] = Empty
<1>1. CASE a = b
  BY <1>1, UnreserveTakes DEF Repatriate
<1>2. CASE a # b
  <2> DEFINE left == [free |-> l[a].free, reserved |-> l[a].reserved - v]
  <2>1. CASE x = a
    <3>1. Lesser(v, l[a].reserved) = v
      BY <2>1 DEF Lesser
    <3>2. Repatriate(l, a, b, v)[x] = Reap(left)
      BY <1>2, <2>1, <3>1 DEF Repatriate, Ledgers
    <3>3. left.reserved = l[x].reserved - v
      BY <2>1
    <3> QED
      BY <2>1, <3>2, <3>3 DEF Reap
  <2>2. CASE x # a
    BY <1>2, <2>2 DEF Repatriate, Ledgers, Account
  <2> QED BY <2>1, <2>2
<1> QED BY <1>1, <1>2

\* A dead account stays dead: what is returned of it or paid to it is nothing.
LEMMA DeadStaysDead ==
  ASSUME NEW l \in Ledgers, NEW a \in Accounts, NEW b \in Accounts, NEW v \in Nat,
         NEW x \in Accounts, l[x] = Empty
  PROVE  /\ ~Exists(l, x)
         /\ Unreserve(l, a, v)[x] = Empty
         /\ CanRepatriate(l, a, b, v) => Repatriate(l, a, b, v)[x] = Empty
<1>1. Total(Empty) = 0 /\ Reap(Empty) = Empty /\ Empty \in Account
  BY DEF Total, Empty, Reap, Account
<1>2. ~Exists(l, x)
  BY <1>1, DepositAssumption DEF Exists
<1>3. Unreserve(l, a, v)[x] = Empty
  BY DEF Unreserve, Lesser, Empty, Ledgers
<1>4. ASSUME CanRepatriate(l, a, b, v), a # b
      PROVE  Repatriate(l, a, b, v)[x] = Empty
  <2> DEFINE moved == Lesser(v, l[a].reserved)
  <2>1. CASE x = a
    <3>1. [free |-> l[a].free, reserved |-> l[a].reserved - moved] = Empty
      BY <2>1 DEF Lesser, Empty
    <3> QED
      BY <1>1, <1>4, <2>1, <3>1 DEF Repatriate, Ledgers
  <2>2. CASE x = b
    <3>1. v = 0
      BY <1>2, <1>4, <2>2 DEF CanRepatriate
    <3>2. moved = 0
      BY <3>1 DEF Lesser, Ledgers, Account
    <3>3. [free |-> l[b].free + moved, reserved |-> l[b].reserved] = Empty
      BY <2>2, <3>2 DEF Empty
    <3> QED
      BY <1>4, <2>2, <3>3 DEF Repatriate, Ledgers
  <2>3. CASE x # a /\ x # b
    BY <1>4, <2>3 DEF Repatriate, Ledgers
  <2> QED BY <2>1, <2>2, <2>3
<1>5. ASSUME a = b
      PROVE  Repatriate(l, a, b, v)[x] = Empty
  BY <1>3, <1>5 DEF Repatriate
<1> QED
  BY <1>2, <1>3, <1>4, <1>5

LEMMA TransferTakes ==
  ASSUME NEW l \in Ledgers, NEW a \in Accounts, NEW b \in Accounts, NEW v \in Nat,
         CanTransfer(l, a, b, v), NEW x \in Accounts
  PROVE  \/ Transfer(l, a, b, v)[x].reserved = l[x].reserved
         \/ x = a /\ Transfer(l, a, b, v)[x] = Empty
<1> DEFINE left == [free |-> l[a].free - v, reserved |-> l[a].reserved]
<1>1. CASE x = a
  <2>1. Transfer(l, a, b, v)[x] = Reap(left)
    BY <1>1 DEF Transfer, CanTransfer, Ledgers
  <2>2. left.reserved = l[x].reserved
    BY <1>1
  <2> QED
    BY <1>1, <2>1, <2>2 DEF Reap
<1>2. CASE x # a
  BY <1>2 DEF Transfer, Ledgers, Account
<1> QED BY <1>1, <1>2

LEMMA UnreserveKeepsAlive ==
  ASSUME NEW l \in Ledgers, NEW a \in Accounts, NEW v \in Nat, NEW x \in Accounts,
         Exists(l, x)
  PROVE  Exists(Unreserve(l, a, v), x)
<1>1. CASE x = a
  <2> DEFINE moved == Lesser(v, l[x].reserved)
  <2>1. /\ Unreserve(l, a, v)[x]
             = [free |-> l[x].free + moved, reserved |-> l[x].reserved - moved]
        /\ l[x].free \in Nat /\ l[x].reserved \in Nat /\ moved \in Nat
    BY <1>1 DEF Unreserve, Lesser, Ledgers, Account
  <2>2. Total(Unreserve(l, a, v)[x]) = Total(l[x])
    BY <2>1 DEF Total
  <2> QED
    BY <2>2 DEF Exists
<1>2. CASE x # a
  BY <1>2 DEF Exists, Unreserve, Ledgers
<1> QED BY <1>1, <1>2

=============================================================================

-------------------------- MODULE CrossChainProofs ---------------------------
(***************************************************************************)
(* The two chains, connected.  In this order:                              *)
(*   - queues, and how a message that comes or goes changes a count;       *)
(*   - the trace of one device, as a predicate on its two orders and the   *)
(*     two queues, and the ways in which a step may change it;             *)
(*   - each chain takes only steps of its pallet, so that the theorems on  *)
(*     the pallets hold here;                                              *)
(*   - for each step, the way it changes a trace; the token theorems;      *)
(*   - the funds behind the orders of the client chain;                    *)
(*   - one job for each device: the abstract specification RemoteOrder.    *)
(***************************************************************************)
EXTENDS CrossChain, FiniteSetTheorems, SequenceTheorems, TLAPS

(***************************************************************************)
(* The messages of a queue that are of interest, and their number.         *)
(***************************************************************************)

Places(q, S) == {i \in DOMAIN q : q[i] \in S}

Count(q, S) == Cardinality(Places(q, S))

Among(q) == {q[i] : i \in DOMAIN q}

LEMMA PlacesFinite ==
  ASSUME NEW M, NEW q \in Seq(M), NEW S
  PROVE  IsFiniteSet(Places(q, S)) /\ Count(q, S) \in Nat
<1>1. Places(q, S) \subseteq 1 .. Len(q) /\ IsFiniteSet(1 .. Len(q))
  BY FS_Interval DEF Places
<1>2. IsFiniteSet(Places(q, S))
  BY <1>1, FS_Subset
<1> QED
  BY <1>2, FS_CardinalityType DEF Count

LEMMA CountNone ==
  ASSUME NEW M, NEW q \in Seq(M), NEW S
  PROVE  Count(q, S) = 0 <=> Among(q) \cap S = {}
<1>1. Count(q, S) = 0 <=> Places(q, S) = {}
  BY PlacesFinite, FS_EmptySet DEF Count
<1>2. Places(q, S) = {} <=> Among(q) \cap S = {}
  BY DEF Places, Among
<1> QED
  BY <1>1, <1>2

LEMMA CountAppend ==
  ASSUME NEW M, NEW q \in Seq(M), NEW m \in M, NEW S
  PROVE  /\ Count(Append(q, m), S) = Count(q, S) + IF m \in S THEN 1 ELSE 0
         /\ Among(Append(q, m)) = Among(q) \cup {m}
<1> DEFINE r == Append(q, m)
           n == Len(q) + 1
<1>1. /\ DOMAIN q = 1 .. Len(q) /\ Len(q) \in Nat
      /\ DOMAIN r = 1 .. n /\ r[n] = m
      /\ \A i \in 1 .. Len(q) : r[i] = q[i]
  BY AppendProperties
<1> HIDE DEF r
<1>2. Among(r) = Among(q) \cup {m}
  BY <1>1 DEF Among
<1>3. CASE m \in S
  <2>1. Places(r, S) = Places(q, S) \cup {n} /\ n \notin Places(q, S)
    BY <1>1, <1>3 DEF Places
  <2> QED
    BY <1>2, <1>3, <2>1, PlacesFinite, FS_AddElement DEF Count, r
<1>4. CASE m \notin S
  <2>1. Places(r, S) = Places(q, S)
    BY <1>1, <1>4 DEF Places
  <2> QED
    BY <1>2, <1>4, <2>1, PlacesFinite DEF Count, r
<1> QED BY <1>3, <1>4

LEMMA CountTail ==
  ASSUME NEW M, NEW q \in Seq(M), q # <<>>, NEW S
  PROVE  /\ Count(q, S) = Count(Tail(q), S) + IF Head(q) \in S THEN 1 ELSE 0
         /\ Count(Tail(q), S) \in Nat /\ Tail(q) \in Seq(M)
         /\ Head(q) \in Among(q) /\ Among(Tail(q)) \subseteq Among(q)
<1> DEFINE r == Tail(q)
           n == Len(q)
           shift == [i \in Places(r, S) |-> i + 1]
           rest == Places(q, S) \ {1}
<1>1. /\ DOMAIN q = 1 .. n /\ n \in Nat /\ n >= 1 /\ Head(q) = q[1]
      /\ r \in Seq(M) /\ DOMAIN r = 1 .. (n - 1)
      /\ \A i \in 1 .. (n - 1) : r[i] = q[i + 1]
  BY HeadTailProperties, EmptySeq
<1> HIDE DEF r
<1>2. Head(q) \in Among(q) /\ Among(r) \subseteq Among(q)
  <2>1. 1 \in 1 .. n /\ \A i \in 1 .. (n - 1) : i + 1 \in 1 .. n
    BY <1>1
  <2>2. Head(q) \in Among(q)
    BY <1>1, <2>1 DEF Among
  <2>3. ASSUME NEW i \in 1 .. (n - 1)  PROVE r[i] \in Among(q)
    BY <1>1, <2>1 DEF Among
  <2> QED
    BY <1>1, <2>2, <2>3 DEF Among
<1>3. shift \in Bijection(Places(r, S), rest)
  <2>1. shift \in [Places(r, S) -> rest]
    BY <1>1 DEF Places
  <2>2. \A i, j \in Places(r, S) : shift[i] = shift[j] => i = j
    BY <1>1 DEF Places
  <2>3. \A k \in rest : \E i \in Places(r, S) : shift[i] = k
    <3>1. ASSUME NEW k \in rest
          PROVE  k - 1 \in Places(r, S) /\ shift[k - 1] = k
      <4>1. k \in 1 .. n /\ q[k] \in S /\ k # 1
        BY <1>1, <3>1 DEF Places
      <4>2. k - 1 \in 1 .. (n - 1) /\ (k - 1) + 1 = k
        BY <1>1, <4>1
      <4>3. r[k - 1] = q[k]
        BY <1>1, <4>2
      <4>4. k - 1 \in Places(r, S)
        BY <1>1, <4>1, <4>2, <4>3 DEF Places
      <4> QED
        BY <4>2, <4>4
    <3> QED BY <3>1
  <2> QED
    BY <2>1, <2>2, <2>3 DEF Bijection, Injection, Surjection, IsInjective
<1>4. IsFiniteSet(Places(r, S)) /\ Count(r, S) \in Nat
  BY <1>1, PlacesFinite
<1>5. Cardinality(rest) = Count(r, S) /\ IsFiniteSet(rest)
  BY <1>3, <1>4, FS_Bijection DEF Count, ExistsBijection
<1>6. CASE Head(q) \in S
  <2>1. Places(q, S) = rest \cup {1} /\ 1 \notin rest
    BY <1>1, <1>6 DEF Places
  <2>2. Cardinality(rest \cup {1}) = Cardinality(rest) + 1
    BY <1>5, <2>1, FS_AddElement
  <2>3. Count(q, S) = Count(r, S) + 1
    BY <1>5, <2>1, <2>2 DEF Count
  <2> QED
    BY <1>1, <1>2, <1>4, <1>6, <2>3 DEF r
<1>7. CASE Head(q) \notin S
  <2>1. Places(q, S) = rest
    BY <1>1, <1>7 DEF Places
  <2>2. Count(q, S) = Count(r, S)
    BY <1>5, <2>1 DEF Count
  <2>3. Count(q, S) = Count(r, S) + 0
    BY <1>4, <2>2
  <2> QED
    BY <1>1, <1>2, <1>4, <1>7, <2>3 DEF r
<1> QED BY <1>6, <1>7

(***************************************************************************)
(* The trace of one device: co and so are its orders on the two chains, q  *)
(* and v the channels to the service and to the client chain.              *)
(***************************************************************************)

OrdersFor(d) == {m \in OrderMsg : m.order.device = d}

VerdictsFor(d) == {m \in VerdictMsg : Settles(m, d)}

OrderOf(co, d) == NewOrderMsg(co.client, SentOrder(co, d))

Good(co, q, so, v, d) ==
  /\ Count(q, OrdersFor(d)) + Count(v, VerdictsFor(d)) + (IF so # NoOrder THEN 1 ELSE 0) <= 1
  /\ so # NoOrder => co # NoOrder /\ so = [co EXCEPT !.paraid = ClientPara]
  /\ \A m \in Among(q) \cap OrdersFor(d) : co # NoOrder /\ m = OrderOf(co, d)
  /\ \A m \in Among(v) \cap VerdictsFor(d) : co # NoOrder /\ m.client = co.client

\* A channel that gets a message, or none, of no interest to S.
Irrelevant(q, r, S, M) == r = q \/ \E m \in M : m \notin S /\ r = Append(q, m)

LEMMA IrrelevantKeeps ==
  ASSUME NEW M, NEW q \in Seq(M), NEW S, NEW r, Irrelevant(q, r, S, M)
  PROVE  r \in Seq(M) /\ Count(r, S) = Count(q, S) /\ Among(r) \cap S = Among(q) \cap S
<1>1. CASE r = q
  BY <1>1
<1>2. ASSUME NEW m \in M, m \notin S, r = Append(q, m)
      PROVE  r \in Seq(M) /\ Count(r, S) = Count(q, S) /\ Among(r) \cap S = Among(q) \cap S
  <2>1. r \in Seq(M)
    BY <1>2
  <2>2. Count(r, S) = Count(q, S) + 0 /\ Among(r) = Among(q) \cup {m}
    BY <1>2, CountAppend
  <2>3. Count(q, S) \in Nat
    BY PlacesFinite
  <2> QED
    BY <1>2, <2>1, <2>2, <2>3
<1> QED BY <1>1, <1>2 DEF Irrelevant

\* Without an order on the client chain there is no trace of one.
LEMMA NoTrace ==
  ASSUME NEW M, NEW N, NEW q \in Seq(M), NEW v \in Seq(N), NEW co, NEW so, NEW d,
         Good(co, q, so, v, d), co = NoOrder
  PROVE  so = NoOrder /\ Count(q, OrdersFor(d)) = 0 /\ Count(v, VerdictsFor(d)) = 0
<1>1. /\ so = NoOrder
      /\ Among(q) \cap OrdersFor(d) = {} /\ Among(v) \cap VerdictsFor(d) = {}
  BY DEF Good
<1> QED
  BY <1>1, CountNone

LEMMA ClientKeeps ==
  ASSUME NEW M, NEW N, NEW q \in Seq(M), NEW v \in Seq(N), NEW co, NEW so, NEW d,
         Good(co, q, so, v, d), NEW co2, NEW r,
         \/ co2 = co /\ Irrelevant(q, r, OrdersFor(d), M)
         \/ /\ co = NoOrder /\ co2 # NoOrder
            /\ r = q \/ (OrderOf(co2, d) \in M /\ r = Append(q, OrderOf(co2, d)))
  PROVE  Good(co2, r, so, v, d)
<1>1. CASE co2 = co /\ Irrelevant(q, r, OrdersFor(d), M)
  <2>1. /\ Count(r, OrdersFor(d)) = Count(q, OrdersFor(d))
        /\ Among(r) \cap OrdersFor(d) = Among(q) \cap OrdersFor(d)
    BY <1>1, IrrelevantKeeps
  <2> QED
    BY <1>1, <2>1 DEF Good
<1>2. CASE co = NoOrder /\ co2 # NoOrder
  <2>1. /\ so = NoOrder
        /\ Count(q, OrdersFor(d)) = 0 /\ Count(v, VerdictsFor(d)) = 0
    BY <1>2, NoTrace
  <2>2. Among(q) \cap OrdersFor(d) = {} /\ Among(v) \cap VerdictsFor(d) = {}
    BY <2>1, CountNone
  <2>3. CASE r = q
    BY <2>1, <2>2, <2>3 DEF Good
  <2>4. CASE OrderOf(co2, d) \in M /\ r = Append(q, OrderOf(co2, d))
    <3> DEFINE m == OrderOf(co2, d)
    <3>1. /\ Count(r, OrdersFor(d)) = 0 + IF m \in OrdersFor(d) THEN 1 ELSE 0
          /\ Among(r) = Among(q) \cup {m}
      BY <2>1, <2>4, CountAppend
    <3>2. Count(r, OrdersFor(d)) + Count(v, VerdictsFor(d)) + 0 <= 1
      BY <2>1, <3>1
    <3>3. \A x \in Among(r) \cap OrdersFor(d) : x = OrderOf(co2, d)
      BY <2>2, <3>1
    <3> QED
      BY <1>2, <2>1, <2>2, <3>2, <3>3 DEF Good
  <2> QED
    BY <1>1, <1>2, <2>3, <2>4
<1> QED BY <1>1, <1>2

LEMMA ServiceKeeps ==
  ASSUME NEW M, NEW N, NEW q \in Seq(M), NEW v \in Seq(N), NEW co, NEW so, NEW d,
         Good(co, q, so, v, d), NEW so2, NEW w,
         \/ so2 = so /\ Irrelevant(v, w, VerdictsFor(d), N)
         \/ /\ so # NoOrder /\ so2 = NoOrder
            /\ w = v \/ \E m \in N : m.client = so.client /\ w = Append(v, m)
  PROVE  Good(co, q, so2, w, d)
<1>0. Count(q, OrdersFor(d)) \in Nat /\ Count(v, VerdictsFor(d)) \in Nat
  BY PlacesFinite
<1>1. CASE so2 = so /\ Irrelevant(v, w, VerdictsFor(d), N)
  <2>1. /\ Count(w, VerdictsFor(d)) = Count(v, VerdictsFor(d))
        /\ Among(w) \cap VerdictsFor(d) = Among(v) \cap VerdictsFor(d)
    BY <1>1, IrrelevantKeeps
  <2> QED
    BY <1>1, <2>1 DEF Good
<1>2. CASE so # NoOrder /\ so2 = NoOrder
  <2>1. /\ Count(q, OrdersFor(d)) = 0 /\ Count(v, VerdictsFor(d)) = 0
        /\ co # NoOrder /\ so.client = co.client
    <3>1. Count(q, OrdersFor(d)) + Count(v, VerdictsFor(d)) + 1 <= 1
      BY <1>2 DEF Good
    <3>2. co # NoOrder /\ so = [co EXCEPT !.paraid = ClientPara]
      BY <1>2 DEF Good
    <3>3. so.client = co.client
      BY <3>2
    <3> QED
      BY <1>0, <3>1, <3>2, <3>3
  <2>2. Among(q) \cap OrdersFor(d) = {} /\ Among(v) \cap VerdictsFor(d) = {}
    BY <2>1, CountNone
  <2>3. CASE w = v
    BY <1>2, <2>1, <2>2, <2>3 DEF Good
  <2>4. ASSUME NEW m \in N, m.client = so.client, w = Append(v, m)
        PROVE  Good(co, q, so2, w, d)
    <3>1. /\ Count(w, VerdictsFor(d)) = 0 + IF m \in VerdictsFor(d) THEN 1 ELSE 0
          /\ Among(w) = Among(v) \cup {m}
      BY <2>1, <2>4, CountAppend
    <3>2. Count(q, OrdersFor(d)) + Count(w, VerdictsFor(d)) + 0 <= 1
      BY <2>1, <3>1
    <3>3. \A x \in Among(w) \cap VerdictsFor(d) : x.client = co.client
      BY <2>1, <2>2, <2>4, <3>1
    <3> QED
      BY <1>2, <2>1, <2>2, <3>2, <3>3 DEF Good
  <2> QED
    BY <1>2, <2>3, <2>4, <1>1
<1> QED BY <1>1, <1>2

LEMMA OrderArrives ==
  ASSUME NEW M, NEW N, NEW q \in Seq(M), NEW v \in Seq(N), NEW so, NEW d,
         NEW paras, NEW co \in Order(paras) \cup {NoOrder},
         Good(co, q, so, v, d), q # <<>>, NEW so2, NEW w, Irrelevant(v, w, VerdictsFor(d), N),
         \/ so2 = so
         \/ /\ Head(q) \in OrdersFor(d)
            /\ so2 = StoredOrder(Head(q).order, Head(q).client, ClientPara)
  PROVE  Good(co, Tail(q), so2, w, d)
<1>1. /\ Count(w, VerdictsFor(d)) = Count(v, VerdictsFor(d))
      /\ Among(w) \cap VerdictsFor(d) = Among(v) \cap VerdictsFor(d)
      /\ Count(v, VerdictsFor(d)) \in Nat
  BY IrrelevantKeeps, PlacesFinite
<1>2. /\ Count(q, OrdersFor(d))
           = Count(Tail(q), OrdersFor(d)) + IF Head(q) \in OrdersFor(d) THEN 1 ELSE 0
      /\ Count(Tail(q), OrdersFor(d)) \in Nat
      /\ Head(q) \in Among(q) /\ Among(Tail(q)) \subseteq Among(q)
  BY CountTail
<1>3. CASE so2 = so
  <2>1. Count(Tail(q), OrdersFor(d)) + Count(w, VerdictsFor(d))
          + (IF so2 # NoOrder THEN 1 ELSE 0) <= 1
    BY <1>1, <1>2, <1>3 DEF Good
  <2> QED
    BY <1>1, <1>2, <1>3, <2>1 DEF Good
<1>4. CASE /\ Head(q) \in OrdersFor(d)
           /\ so2 = StoredOrder(Head(q).order, Head(q).client, ClientPara)
  <2>1. Count(Tail(q), OrdersFor(d)) + Count(w, VerdictsFor(d))
          + (IF so2 # NoOrder THEN 1 ELSE 0) <= 1
    BY <1>1, <1>2, <1>4 DEF Good
  <2>2. co # NoOrder /\ Head(q) = OrderOf(co, d)
    BY <1>2, <1>4 DEF Good
  <2>3. so2 = [co EXCEPT !.paraid = ClientPara]
    BY <1>4, <2>2 DEF OrderOf, NewOrderMsg, SentOrder, StoredOrder, Order
  <2> QED
    BY <1>1, <1>2, <2>1, <2>2, <2>3 DEF Good
<1> QED BY <1>3, <1>4

LEMMA VerdictArrives ==
  ASSUME NEW M, NEW N, NEW q \in Seq(M), NEW v \in Seq(N), NEW co, NEW so, NEW d,
         Good(co, q, so, v, d), v # <<>>, NEW co2,
         co2 = co \/ (Head(v) \in VerdictsFor(d) /\ co2 = NoOrder)
  PROVE  Good(co2, q, so, Tail(v), d)
<1>1. /\ Count(v, VerdictsFor(d))
           = Count(Tail(v), VerdictsFor(d)) + IF Head(v) \in VerdictsFor(d) THEN 1 ELSE 0
      /\ Count(Tail(v), VerdictsFor(d)) \in Nat /\ Tail(v) \in Seq(N)
      /\ Among(Tail(v)) \subseteq Among(v)
      /\ Count(q, OrdersFor(d)) \in Nat
  BY CountTail, PlacesFinite
<1>2. Count(q, OrdersFor(d)) + Count(Tail(v), VerdictsFor(d))
        + (IF so # NoOrder THEN 1 ELSE 0) <= 1
  BY <1>1 DEF Good
<1>3. CASE co2 = co
  BY <1>1, <1>2, <1>3 DEF Good
<1>4. CASE Head(v) \in VerdictsFor(d) /\ co2 = NoOrder
  <2>1. /\ so = NoOrder
        /\ Count(q, OrdersFor(d)) = 0 /\ Count(Tail(v), VerdictsFor(d)) = 0
    BY <1>1, <1>4 DEF Good
  <2>2. Among(q) \cap OrdersFor(d) = {} /\ Among(Tail(v)) \cap VerdictsFor(d) = {}
    BY <1>1, <2>1, CountNone
  <2> QED
    BY <1>2, <2>1, <2>2 DEF Good
<1> QED BY <1>3, <1>4

-----------------------------------------------------------------------------
(***************************************************************************)
(* What is proved of a pallet alone holds of its chain here: each chain    *)
(* takes steps of its pallet only.  CP and SP are the pallets once more,   *)
(* with their theorems; the lemmas ...Same say that they are the pallets.  *)
(***************************************************************************)

CP == INSTANCE ClientPalletProofs WITH
  DeviceParas <- {ServicePara}, TestPara <- ServicePara,
  GenesisFree <- ClientGenesis, devices <- cDevices, orders <- cOrders,
  ledger <- cLedger, open <- cOpen, outbox <- cOutbox

SP == INSTANCE ServicePalletProofs WITH
  SelfParaId <- ServicePara, Siblings <- {ClientPara},
  GenesisFree <- ServiceGenesis, devices <- sDevices, orders <- sOrders,
  ledger <- sLedger, open <- sOpen, outbox <- sOutbox

LEMMA ClientAssumed ==
  /\ CP!IsFiniteSet(Accounts)
  /\ Registrants \subseteq Accounts
  /\ ClientGenesis \in [Accounts -> {0} \cup {f \in Nat : f >= ExistentialDeposit}]
  /\ NoDevice \notin CP!DeviceProfile
  /\ NoOrder \notin CP!Order({CP!Unset})
  /\ MaxNow \in Nat /\ MaxInFlight \in Nat
<1>1. CP!IsFiniteSet(Accounts)
  BY CrossAssumption DEF CP!IsFiniteSet, IsFiniteSet
<1>2. NoDevice \notin CP!DeviceProfile
  BY CrossAssumption DEF Client!DeviceProfile, CP!DeviceProfile, CP!DeviceState,
     Client!DeviceState
<1>3. NoOrder \notin CP!Order({CP!Unset})
  BY CrossAssumption DEF Order, CP!Order, Client!Unset, CP!Unset
<1> QED
  BY <1>1, <1>2, <1>3, CrossAssumption

LEMMA ServiceAssumed ==
  /\ SP!IsFiniteSet(Accounts)
  /\ ServicePara \notin {ClientPara}
  /\ OnReceived \in {"Busy", "Busy2"}
  /\ Registrants \subseteq Accounts
  /\ ServiceGenesis \in [Accounts -> {0} \cup {f \in Nat : f >= ExistentialDeposit}]
  /\ NoDevice \notin SP!DeviceProfile
  /\ NoOrder \notin SP!Order(SP!ParaIds)
       \cup [client : Accounts, fee : Fees, collateral : Penalties, until : Deadlines]
  /\ MaxNow \in Nat /\ MaxInFlight \in Nat
<1>1. SP!IsFiniteSet(Accounts)
  BY CrossAssumption DEF SP!IsFiniteSet, IsFiniteSet
<1>2. NoDevice \notin SP!DeviceProfile
  BY CrossAssumption DEF Service!DeviceProfile, SP!DeviceProfile, SP!DeviceState,
     Service!DeviceState
<1>3. NoOrder \notin SP!Order(SP!ParaIds)
  BY CrossAssumption DEF Order, SP!Order, SP!ParaIds
<1> QED
  BY <1>1, <1>2, <1>3, CrossAssumption

LEMMA ClientActionsSame ==
  /\ CP!CallStep <=> Client!CallStep
  /\ CP!ChainStep <=> Client!ChainStep
  /\ \A msg : CP!Verdict(msg) <=> Client!Verdict(msg)
  /\ CP!MessageStep <=> Client!MessageStep
<1>0. \A who, d, st : CP!OrderReject(who, d, st) <=> Client!OrderReject(who, d, st)
  BY DEF Client!Total, CP!Total, Client!Exists, CP!Exists, Client!CanRepatriate,
    CP!CanRepatriate, Client!CollateralPayable, CP!CollateralPayable, Client!Lesser,
    CP!Lesser, Client!Unreserve, CP!Unreserve, Client!FeeRefunded, CP!FeeRefunded,
    Client!Empty, CP!Empty, Client!Reap, CP!Reap, Client!Repatriate, CP!Repatriate,
    Client!CollateralReturned, CP!CollateralReturned, Client!WithState, CP!WithState,
    Client!OrderReject, CP!OrderReject
<1>1. \A who, base :
        CP!OrderCall(who, base) <=> Client!OrderCall(who, base)
  BY DEF Client!Total, CP!Total, Client!Exists, CP!Exists, Client!Signed, CP!Signed,
    Client!IsOpen, CP!IsOpen, Client!Rush, CP!Rush, Client!CanReserve, CP!CanReserve,
    Client!Acceptable, CP!Acceptable, Client!Reserve, CP!Reserve,
    Client!CollateralReserved, CP!CollateralReserved, Client!StoredOrder,
    CP!StoredOrder, Client!Unset, CP!Unset, Client!OrderStored, CP!OrderStored,
    Client!Send, CP!Send, Client!NewOrderMsg, CP!NewOrderMsg, Client!SentOrder,
    CP!SentOrder, Client!WithState, CP!WithState, Client!OrderCall, CP!OrderCall
<1>2. \A who, base :
        CP!OrderUnsent(who, base) <=> Client!OrderUnsent(who, base)
  BY DEF Client!Total, CP!Total, Client!Exists, CP!Exists, Client!Signed, CP!Signed,
    Client!IsOpen, CP!IsOpen, Client!Rush, CP!Rush, Client!CanReserve, CP!CanReserve,
    Client!Acceptable, CP!Acceptable, Client!Reserve, CP!Reserve,
    Client!CollateralReserved, CP!CollateralReserved, Client!StoredOrder,
    CP!StoredOrder, Client!Unset, CP!Unset, Client!OrderStored, CP!OrderStored,
    Client!OrderUnsent, CP!OrderUnsent
<1>3. \A who, base :
        CP!OrderStranding(who, base) <=> Client!OrderStranding(who, base)
  BY DEF Client!Total, CP!Total, Client!Exists, CP!Exists, Client!Signed, CP!Signed,
    Client!IsOpen, CP!IsOpen, Client!Rush, CP!Rush, Client!CanReserve, CP!CanReserve,
    Client!Acceptable, CP!Acceptable, Client!Reserve, CP!Reserve,
    Client!CollateralReserved, CP!CollateralReserved, Client!OrderStranding,
    CP!OrderStranding
<1>4. \A who, d :
        CP!Cancel(who, d) <=> Client!Cancel(who, d)
  BY <1>0 DEF Client!Total, CP!Total, Client!Exists, CP!Exists, Client!Signed,
    CP!Signed, Client!IsOpen, CP!IsOpen, Client!Cancel, CP!Cancel
<1>5. \A id, p, pen, w, onoff :
        CP!Register(id, p, pen, w, onoff) <=> Client!Register(id, p, pen, w, onoff)
  BY DEF Client!Total, CP!Total, Client!Exists, CP!Exists, Client!Signed, CP!Signed,
    Client!IsOpen, CP!IsOpen, Client!IdleState, CP!IdleState, Client!Register,
    CP!Register
<1>6. /\ CP!Test <=> Client!Test
      /\ CP!NextBlock <=> Client!NextBlock
  BY DEF Client!Send, CP!Send, Client!Undecodable, CP!Undecodable, Client!Test,
    CP!Test, Client!NextBlock, CP!NextBlock
<1>7. \A from, to :
        CP!TransferFunds(from, to) <=> Client!TransferFunds(from, to)
  BY DEF Client!Total, CP!Total, Client!CanTransfer, CP!CanTransfer, Client!Empty,
    CP!Empty, Client!Reap, CP!Reap, Client!Transfer, CP!Transfer,
    Client!TransferFunds, CP!TransferFunds
<1>8. \A p :
        /\ CP!OpenChannel(p) <=> Client!OpenChannel(p)
        /\ CP!Carry(p) <=> Client!Carry(p)
  BY DEF Client!OpenChannel, CP!OpenChannel, Client!Carry, CP!Carry
<1>9. \A who, d, onoff :
        /\ CP!OnReject(who, d, onoff) <=> Client!OnReject(who, d, onoff)
        /\ CP!OnRejectStuck(who, d) <=> Client!OnRejectStuck(who, d)
  BY <1>0 DEF Client!IsOpen, CP!IsOpen, Client!Known, CP!Known, Client!IdleState,
    CP!IdleState, Client!OnReject, CP!OnReject, Client!Total, CP!Total, Client!Exists,
    CP!Exists, Client!CanRepatriate, CP!CanRepatriate, Client!CollateralPayable,
    CP!CollateralPayable, Client!Lesser, CP!Lesser, Client!Unreserve, CP!Unreserve,
    Client!FeeRefunded, CP!FeeRefunded, Client!OnRejectStuck, CP!OnRejectStuck
<1>10. \A who, d, onoff :
        /\ CP!OnDone(who, d, onoff) <=> Client!OnDone(who, d, onoff)
        /\ CP!OnDoneStuck(who, d) <=> Client!OnDoneStuck(who, d)
  <2>1. /\ \A l, from, to, v :
             /\ CP!CanRepatriate(l, from, to, v) <=> Client!CanRepatriate(l, from, to, v)
             /\ CP!Repatriate(l, from, to, v) = Client!Repatriate(l, from, to, v)
        /\ \A l, a, v : CP!Unreserve(l, a, v) = Client!Unreserve(l, a, v)
    BY DEF Client!Total, CP!Total, Client!Exists, CP!Exists, Client!CanRepatriate,
      CP!CanRepatriate, Client!Lesser, CP!Lesser, Client!Unreserve, CP!Unreserve,
      Client!Empty, CP!Empty, Client!Reap, CP!Reap, Client!Repatriate, CP!Repatriate
  <2> QED
    BY <2>1 DEF Client!IsOpen, CP!IsOpen, Client!Known, CP!Known,
      Client!CollateralPayable, CP!CollateralPayable, Client!FeePaid, CP!FeePaid,
      Client!CollateralReturned, CP!CollateralReturned, Client!WithState, CP!WithState,
      Client!IdleState, CP!IdleState, Client!OnDone, CP!OnDone, Client!OnDoneStuck,
      CP!OnDoneStuck
<1>11. \A msg :
        CP!HasEffect(msg) <=> Client!HasEffect(msg)
  BY DEF Client!Total, CP!Total, Client!Exists, CP!Exists, Client!CanRepatriate,
    CP!CanRepatriate, Client!CollateralPayable, CP!CollateralPayable, Client!Lesser,
    CP!Lesser, Client!Unreserve, CP!Unreserve, Client!FeeRefunded, CP!FeeRefunded,
    Client!Empty, CP!Empty, Client!Reap, CP!Reap, Client!Repatriate, CP!Repatriate,
    Client!CollateralReturned, CP!CollateralReturned, Client!WithState, CP!WithState,
    Client!OrderReject, CP!OrderReject, Client!IsOpen, CP!IsOpen, Client!Known,
    CP!Known, Client!HasEffect, CP!HasEffect
<1>12. \A msg : CP!Verdict(msg) <=> Client!Verdict(msg)
  BY <1>9, <1>10 DEF CP!Verdict, Client!Verdict
<1>13. CP!CallStep <=> Client!CallStep
  BY <1>1, <1>2, <1>3, <1>4, <1>5, <1>6
  DEF Client!CallStep, CP!CallStep, Client!OrderBase, CP!OrderBase
<1>14. CP!ChainStep <=> Client!ChainStep
  BY <1>6, <1>7, <1>8 DEF Client!ChainStep, CP!ChainStep, Client!Paras, CP!Paras, Client!Unset,
    CP!Unset
<1>15. CP!MessageStep <=> Client!MessageStep
  BY <1>11, <1>12 DEF Client!MessageStep, CP!MessageStep, Client!VerdictMsg, CP!VerdictMsg
<1> QED
  BY <1>12, <1>13, <1>14, <1>15

LEMMA ServiceActionsSame ==
  /\ SP!PalletStep <=> Service!PalletStep
  /\ SP!ChainStep <=> Service!ChainStep
<1>0. \A d, st, onoff : SP!OrderReject(d, st, onoff) <=> Service!OrderReject(d, st, onoff)
  BY DEF Service!IsLocal, SP!IsLocal, Service!Lesser, SP!Lesser, Service!Unreserve,
    SP!Unreserve, Service!Total, SP!Total, Service!Exists, SP!Exists,
    Service!CanRepatriate, SP!CanRepatriate, Service!CollateralPayable,
    SP!CollateralPayable, Service!Empty, SP!Empty, Service!Reap, SP!Reap,
    Service!Repatriate, SP!Repatriate, Service!CollateralReturned,
    SP!CollateralReturned, Service!IsOpen, SP!IsOpen, Service!Send, SP!Send,
    Service!OrderRejectMsg, SP!OrderRejectMsg, Service!WithState, SP!WithState,
    Service!OrderReject, SP!OrderReject
<1>1. \A who, base :
        SP!OrderCall(who, base) <=> Service!OrderCall(who, base)
  BY DEF Service!Total, SP!Total, Service!Exists, SP!Exists, Service!Signed,
    SP!Signed, Service!IsOpen, SP!IsOpen, Service!Rush, SP!Rush, Service!Acceptable,
    SP!Acceptable, Service!IsLocal, SP!IsLocal, Service!CanReserve, SP!CanReserve,
    Service!Reserve, SP!Reserve, Service!HeldForOrder, SP!HeldForOrder,
    Service!WithState, SP!WithState, Service!Send, SP!Send, Service!TrySend,
    SP!TrySend, Service!OrderAcceptMsg, SP!OrderAcceptMsg, Service!OrderReceived,
    SP!OrderReceived, Service!StoredOrder, SP!StoredOrder, Service!OrderCall,
    SP!OrderCall
<1>2. \A who, base :
        SP!OrderStranding(who, base) <=> Service!OrderStranding(who, base)
  BY DEF Service!Total, SP!Total, Service!Exists, SP!Exists, Service!Signed,
    SP!Signed, Service!IsOpen, SP!IsOpen, Service!Rush, SP!Rush, Service!Acceptable,
    SP!Acceptable, Service!CanReserve, SP!CanReserve, Service!Reserve, SP!Reserve,
    Service!OrderStranding, SP!OrderStranding
<1>3. \A who, d :
        SP!Cancel(who, d) <=> Service!Cancel(who, d)
  BY <1>0 DEF Service!Total, SP!Total, Service!Exists, SP!Exists, Service!Signed,
    SP!Signed, Service!IsOpen, SP!IsOpen, Service!Cancel, SP!Cancel
<1>4. \A id, onoff :
        SP!Reject(id, onoff) <=> Service!Reject(id, onoff)
  BY <1>0 DEF Service!Total, SP!Total, Service!Exists, SP!Exists, Service!Signed,
    SP!Signed, Service!IdleState, SP!IdleState, Service!Reject, SP!Reject
<1>5. \A id, onoff :
        SP!Done(id, onoff) <=> Service!Done(id, onoff)
  <2>1. /\ \A l, from, to, v :
             /\ SP!CanRepatriate(l, from, to, v) <=> Service!CanRepatriate(l, from, to, v)
             /\ SP!Repatriate(l, from, to, v) = Service!Repatriate(l, from, to, v)
        /\ \A l, a, v : SP!Unreserve(l, a, v) = Service!Unreserve(l, a, v)
    BY DEF Service!Total, SP!Total, Service!Exists, SP!Exists, Service!CanRepatriate,
      SP!CanRepatriate, Service!Lesser, SP!Lesser, Service!Unreserve, SP!Unreserve,
      Service!Empty, SP!Empty, Service!Reap, SP!Reap, Service!Repatriate, SP!Repatriate
  <2>2. \A id, onoff : SP!DoneBegins(id, onoff) <=> Service!DoneBegins(id, onoff)
    BY DEF Service!Total, SP!Total, Service!Exists, SP!Exists, Service!Signed, SP!Signed,
      Service!IsOpen, SP!IsOpen, Service!WithState, SP!WithState, Service!IdleState,
      SP!IdleState, Service!DoneBegins, SP!DoneBegins
  <2>3. \A id, onoff :
          /\ SP!DoneLocal(id, onoff) <=> Service!DoneLocal(id, onoff)
          /\ SP!DoneStranding(id, onoff) <=> Service!DoneStranding(id, onoff)
    BY <2>1, <2>2 DEF Service!IsLocal, SP!IsLocal, Service!CollateralPayable,
      SP!CollateralPayable, Service!FeePaid, SP!FeePaid, Service!CollateralReturned,
      SP!CollateralReturned, Service!DoneLocal, SP!DoneLocal, Service!DoneStranding,
      SP!DoneStranding
  <2>4. \A id, onoff :
          /\ SP!DoneRemote(id, onoff) <=> Service!DoneRemote(id, onoff)
          /\ SP!DoneUnreported(id, onoff) <=> Service!DoneUnreported(id, onoff)
    BY <2>2 DEF Service!IsLocal, SP!IsLocal, Service!Send, SP!Send, Service!OrderDoneMsg,
      SP!OrderDoneMsg, Service!DoneRemote, SP!DoneRemote, Service!DoneUnreported,
      SP!DoneUnreported
  <2> QED
    BY <2>3, <2>4 DEF Service!Done, SP!Done
<1>6. \A id, onoff :
        SP!SetState(id, onoff) <=> Service!SetState(id, onoff)
  BY DEF Service!Total, SP!Total, Service!Exists, SP!Exists, Service!Signed,
    SP!Signed, Service!WithState, SP!WithState, Service!IdleState, SP!IdleState,
    Service!SetState, SP!SetState
<1>7. \A id :
        SP!Accept(id) <=> Service!Accept(id)
  BY DEF Service!Total, SP!Total, Service!Exists, SP!Exists, Service!Signed,
    SP!Signed, Service!IsOpen, SP!IsOpen, Service!WithState, SP!WithState,
    Service!IsLocal, SP!IsLocal, Service!Send, SP!Send, Service!TrySend, SP!TrySend,
    Service!OrderAcceptMsg, SP!OrderAcceptMsg, Service!Accept, SP!Accept
<1>8. \A id, p, w, onoff :
        SP!Register(id, p, w, onoff) <=> Service!Register(id, p, w, onoff)
  BY DEF Service!Total, SP!Total, Service!Exists, SP!Exists, Service!Signed,
    SP!Signed, Service!IsOpen, SP!IsOpen, Service!IdleState, SP!IdleState,
    Service!Register, SP!Register
<1>9. \A msg :
        SP!Handles(msg) <=> Service!Handles(msg)
  BY DEF Service!IsOpen, SP!IsOpen, Service!Rush, SP!Rush, Service!Acceptable,
    SP!Acceptable, Service!Handles, SP!Handles
<1>10. \A s, msg :
        SP!HandleBlobMessage(s, msg) <=> Service!HandleBlobMessage(s, msg)
  BY DEF Service!IsOpen, SP!IsOpen, Service!Rush, SP!Rush, Service!Acceptable,
    SP!Acceptable, Service!Handles, SP!Handles, Service!IsLocal, SP!IsLocal,
    Service!CanReserve, SP!CanReserve, Service!Reserve, SP!Reserve,
    Service!HeldForOrder, SP!HeldForOrder, Service!WithState, SP!WithState,
    Service!Send, SP!Send, Service!TrySend, SP!TrySend, Service!OrderAcceptMsg,
    SP!OrderAcceptMsg, Service!OrderReceived, SP!OrderReceived, Service!StoredOrder,
    SP!StoredOrder, Service!vars, SP!vars, Service!HandleBlobMessage,
    SP!HandleBlobMessage
<1>11. \A from, to :
        SP!TransferFunds(from, to) <=> Service!TransferFunds(from, to)
  BY DEF Service!Total, SP!Total, Service!CanTransfer, SP!CanTransfer,
    Service!Empty, SP!Empty, Service!Reap, SP!Reap, Service!Transfer, SP!Transfer,
    Service!TransferFunds, SP!TransferFunds
<1>12. SP!NextBlock <=> Service!NextBlock
  BY DEF Service!NextBlock, SP!NextBlock
<1>13. \A p :
        /\ SP!OpenChannel(p) <=> Service!OpenChannel(p)
        /\ SP!Carry(p) <=> Service!Carry(p)
  BY DEF Service!OpenChannel, SP!OpenChannel, Service!Carry, SP!Carry
<1>14. \A id : SP!DeviceStep(id) <=> Service!DeviceStep(id)
  BY <1>4, <1>5, <1>6, <1>7 DEF Service!DeviceStep, SP!DeviceStep
<1>15. SP!PalletStep <=> Service!PalletStep
  BY <1>1, <1>2, <1>3, <1>8, <1>9, <1>10, <1>14
  DEF Service!PalletStep, SP!PalletStep, Service!OrderBase, SP!OrderBase, Service!OrderMsg,
    SP!OrderMsg
<1>16. SP!ChainStep <=> Service!ChainStep
  BY <1>11, <1>12, <1>13 DEF Service!ChainStep, SP!ChainStep
<1> QED
  BY <1>15, <1>16

LEMMA ClientSame ==
  /\ (CP!TypeOK <=> Client!TypeOK) /\ (CP!TypeOK' <=> Client!TypeOK')
  /\ (CP!Init <=> Client!Init) /\ (CP!Next <=> Client!Next)
  /\ [CP!Next]_CP!vars <=> [Client!Next]_Client!vars
<1>1. CP!TypeOK <=> Client!TypeOK
  BY DEF Client!Account, CP!Account, Client!DeviceState, CP!DeviceState,
    Client!OrderBase, CP!OrderBase, Client!Order, CP!Order,
    Client!OrderMsg, CP!OrderMsg, Client!Paras, CP!Paras,
    Client!DeviceProfile, CP!DeviceProfile, Client!Unset, CP!Unset,
    Client!Undecodable, CP!Undecodable, Client!SentMsg, CP!SentMsg,
    Client!TypeOK, CP!TypeOK
<1>2. CP!TypeOK' <=> Client!TypeOK'
  BY DEF Client!Account, CP!Account, Client!DeviceState, CP!DeviceState,
    Client!OrderBase, CP!OrderBase, Client!Order, CP!Order,
    Client!OrderMsg, CP!OrderMsg, Client!Paras, CP!Paras,
    Client!DeviceProfile, CP!DeviceProfile, Client!Unset, CP!Unset,
    Client!Undecodable, CP!Undecodable, Client!SentMsg, CP!SentMsg,
    Client!TypeOK, CP!TypeOK
<1>3. CP!Init <=> Client!Init
  BY DEF Client!Paras, CP!Paras, Client!Init, CP!Init
<1>4. CP!Next <=> Client!Next
  BY ClientActionsSame DEF Client!Next, CP!Next
<1>5. [CP!Next]_CP!vars <=> [Client!Next]_Client!vars
  BY <1>4 DEF CP!vars, Client!vars
<1> QED BY <1>1, <1>2, <1>3, <1>4, <1>5

LEMMA ServiceSame ==
  /\ (SP!TypeOK <=> Service!TypeOK) /\ (SP!TypeOK' <=> Service!TypeOK')
  /\ (SP!Init <=> Service!Init) /\ (SP!Next <=> Service!Next)
  /\ [SP!Next]_SP!vars <=> [Service!Next]_Service!vars
<1>1. SP!TypeOK <=> Service!TypeOK
  BY DEF Service!Account, SP!Account, Service!Empty, SP!Empty, Service!Total,
    SP!Total, Service!Exists, SP!Exists, Service!Lesser, SP!Lesser,
    Service!Reap, SP!Reap, Service!Unreserve, SP!Unreserve,
    Service!CanRepatriate, SP!CanRepatriate, Service!Repatriate,
    SP!Repatriate, Service!DeviceState, SP!DeviceState, Service!Order,
    SP!Order, Service!OrderRejectMsg, SP!OrderRejectMsg,
    Service!VerdictMsg, SP!VerdictMsg, Service!ParaIds, SP!ParaIds,
    Service!DeviceProfile, SP!DeviceProfile, Service!Verdicts,
    SP!Verdicts, Service!TypeOK, SP!TypeOK, Service!IsOpen, SP!IsOpen,
    Service!IsLocal, SP!IsLocal, Service!WithState, SP!WithState,
    Service!Send, SP!Send, Service!CollateralReturned,
    SP!CollateralReturned, Service!CollateralPayable,
    SP!CollateralPayable, Service!OrderReject, SP!OrderReject
<1>2. SP!TypeOK' <=> Service!TypeOK'
  BY DEF Service!Account, SP!Account, Service!Empty, SP!Empty, Service!Total,
    SP!Total, Service!Exists, SP!Exists, Service!Lesser, SP!Lesser,
    Service!Reap, SP!Reap, Service!Unreserve, SP!Unreserve,
    Service!CanRepatriate, SP!CanRepatriate, Service!Repatriate,
    SP!Repatriate, Service!DeviceState, SP!DeviceState, Service!Order,
    SP!Order, Service!OrderRejectMsg, SP!OrderRejectMsg,
    Service!VerdictMsg, SP!VerdictMsg, Service!ParaIds, SP!ParaIds,
    Service!DeviceProfile, SP!DeviceProfile, Service!Verdicts,
    SP!Verdicts, Service!TypeOK, SP!TypeOK, Service!IsOpen, SP!IsOpen,
    Service!IsLocal, SP!IsLocal, Service!WithState, SP!WithState,
    Service!Send, SP!Send, Service!CollateralReturned,
    SP!CollateralReturned, Service!CollateralPayable,
    SP!CollateralPayable, Service!OrderReject, SP!OrderReject
<1>3. SP!Init <=> Service!Init
  BY DEF Service!Init, SP!Init
<1>4. SP!Next <=> Service!Next
  BY ServiceActionsSame DEF Service!Next, SP!Next
<1>5. [SP!Next]_SP!vars <=> [Service!Next]_Service!vars
  BY <1>4 DEF SP!vars, Service!vars
<1> QED BY <1>1, <1>2, <1>3, <1>4, <1>5

LEMMA ClientTypeStep == Client!TypeOK /\ [Client!Next]_Client!vars => Client!TypeOK'
<1>1. CP!TypeOK /\ [CP!Next]_CP!vars => CP!TypeOK'
  BY ClientAssumed, DepositAssumption, InputsAssumption, CP!TypeStep
<1> QED
  BY <1>1, ClientSame

LEMMA ServiceTypeStep == Service!TypeOK /\ [Service!Next]_Service!vars => Service!TypeOK'
<1>1. SP!TypeOK /\ [SP!Next]_SP!vars => SP!TypeOK'
  BY ServiceAssumed, DepositAssumption, InputsAssumption, SP!TypeStep
<1> QED
  BY <1>1, ServiceSame

\* Both chains are pallets with one neighbour each.
LEMMA Channels ==
  ASSUME TypeOK
  PROVE  /\ ServicePara \in Client!Paras /\ ToService \in Seq(Client!SentMsg)
         /\ ToClient \in Seq(VerdictMsg)
<1>1. Service!VerdictMsg = VerdictMsg
  BY DEF Service!VerdictMsg, VerdictMsg
<1> QED
  BY <1>1 DEF TypeOK, Client!TypeOK, Service!TypeOK, Service!Verdicts, Client!Paras,
     ToService, ToClient

LEMMA HeadType ==
  ASSUME NEW M, NEW q \in Seq(M), q # <<>>
  PROVE  Head(q) \in M
BY HeadTailProperties

\* Apart from a verdict that has an effect, only calls and the chain act.
ClientQuiet == Client!CallStep \/ Client!ChainStep \/ UNCHANGED Client!vars

VerdictTaken ==
  /\ DeliverVerdict /\ Client!Verdict(Head(ToClient)) /\ Client!HasEffect(Head(ToClient))
  /\ Head(ToClient) \in VerdictMsg

LEMMA ClientActs ==
  ASSUME TypeOK, [Next]_vars
  PROVE  ClientQuiet \/ VerdictTaken
<1> USE DEF ClientQuiet, Client!CallStep, Client!ChainStep
<1>1. CASE ClientCall
  <2>1. ASSUME NEW who \in Accounts, NEW base \in OrderBase,
               Client!OrderStranding(who, base)
        PROVE  ClientQuiet
    <3>1. base \in Client!OrderBase
      BY DEF OrderBase, Client!OrderBase
    <3> QED
      BY <2>1, <3>1
  <2>2. ASSUME NEW id \in Registrants, NEW pen \in Penalties, NEW w \in Durations,
               NEW onoff \in BOOLEAN, Client!Register(id, ServicePara, pen, w, onoff)
        PROVE  ClientQuiet
    BY <2>2
  <2>3. ASSUME NEW from \in Accounts, NEW to \in Accounts, Client!TransferFunds(from, to)
        PROVE  ClientQuiet
    BY <2>3
  <2> QED
    BY <1>1, <2>1, <2>2, <2>3 DEF ClientCall
<1>2. ASSUME NEW who \in Accounts, NEW d \in Accounts, ClientCancel(who, d)
      PROVE  ClientQuiet
  BY <1>2 DEF ClientCancel
<1>3. CASE ServiceCall
  <2>1. UNCHANGED now
    BY <1>3 DEF ServiceCall, Service!DeviceStep, Service!Reject, Service!Done,
       Service!DoneLocal, Service!DoneStranding, Service!DoneRemote, Service!DoneUnreported,
       Service!SetState, Service!Accept, Service!Register, Service!Cancel
  <2> QED
    BY <1>3, <2>1 DEF ServiceCall, clientVars, Client!vars
<1>4. CASE DeliverOrder
  BY <1>4, Channels DEF DeliverOrder
<1>5. CASE DeliverVerdict
  <2>1. /\ Client!HandleBlobMessage(Head(ToClient)) /\ ToClient # <<>>
    BY <1>5 DEF DeliverVerdict, Service!Carry, ToClient
  <2>2. Head(ToClient) \in VerdictMsg
    BY <2>1, Channels, HeadType
  <2> QED
    BY <1>5, <2>1, <2>2 DEF Client!HandleBlobMessage, VerdictTaken
<1>6. CASE NextBlock
  BY <1>6 DEF NextBlock
<1>7. CASE OpenChannels
  BY <1>7, Channels DEF OpenChannels, Service!OpenChannel, clientVars, Client!vars
<1>8. CASE UNCHANGED vars
  BY <1>8 DEF vars, clientVars, Client!vars
<1>9. ASSUME NEW who \in Accounts, NEW base \in OrderBase, ClientOrder(who, base)
      PROVE  ClientQuiet
  <2>1. base \in Client!OrderBase
    BY DEF OrderBase, Client!OrderBase
  <2> QED
    BY <1>9, <2>1 DEF ClientOrder
<1> QED
  BY <1>1, <1>2, <1>3, <1>4, <1>5, <1>6, <1>7, <1>8, <1>9 DEF Next

LEMMA ClientTakesStep ==
  ASSUME TypeOK, [Next]_vars
  PROVE  [Client!Next]_Client!vars
<1>1. CASE ClientQuiet
  BY <1>1 DEF ClientQuiet, Client!Next
<1>2. CASE VerdictTaken
  <2>1. Head(ToClient) \in Client!VerdictMsg
    BY <1>2 DEF VerdictTaken, Client!VerdictMsg, VerdictMsg
  <2> QED
    BY <1>2, <2>1 DEF VerdictTaken, Client!Next, Client!MessageStep
<1> QED
  BY <1>1, <1>2, ClientActs

LEMMA ServiceTakesStep ==
  ASSUME TypeOK, [Next]_vars
  PROVE  [Service!Next]_Service!vars
<1> USE DEF Service!Next, Service!PalletStep, Service!ChainStep
<1>1. CASE ClientCall
  <2>1. UNCHANGED now
    BY <1>1 DEF ClientCall, Client!OrderStranding, Client!Register, Client!TransferFunds
  <2> QED
    BY <1>1, <2>1 DEF ClientCall, serviceVars, Service!vars
<1>2. ASSUME NEW who \in Accounts, NEW d \in Accounts, ClientCancel(who, d)
      PROVE  UNCHANGED Service!vars
  BY <1>2 DEF ClientCancel, Client!Cancel, serviceVars, Service!vars
<1>3. CASE ServiceCall
  BY <1>3 DEF ServiceCall
<1>4. CASE DeliverOrder
  <2>1. /\ Service!HandleBlobMessage(ClientPara, Head(ToService)) /\ ToService # <<>>
    BY <1>4 DEF DeliverOrder, Client!Carry, ToService
  <2>2. CASE Service!Handles(Head(ToService))
    <3>1. Head(ToService) \in Client!SentMsg /\ Head(ToService).kind = "NewOrder"
      BY <2>1, <2>2, Channels, HeadType DEF Service!Handles
    <3>2. Head(ToService) \in Client!OrderMsg
      BY <3>1 DEF Client!SentMsg, Client!Undecodable
    <3>3. Head(ToService) \in Service!OrderMsg
      BY <3>2 DEF Client!OrderMsg, Service!OrderMsg, Client!OrderBase, Service!OrderBase
    <3> QED
      BY <2>1, <2>2, <3>3
  <2>3. CASE ~Service!Handles(Head(ToService))
    BY <2>1, <2>3 DEF Service!HandleBlobMessage
  <2> QED
    BY <2>2, <2>3
<1>5. CASE DeliverVerdict
  BY <1>5 DEF DeliverVerdict
<1>6. CASE NextBlock
  BY <1>6 DEF NextBlock, Client!NextBlock, Service!NextBlock, serviceVars
<1>7. CASE OpenChannels
  BY <1>7 DEF OpenChannels, Client!OpenChannel, serviceVars, Service!vars
<1>8. CASE UNCHANGED vars
  BY <1>8 DEF vars, serviceVars, Service!vars
<1>9. ASSUME NEW who \in Accounts, NEW base \in OrderBase, ClientOrder(who, base)
      PROVE  UNCHANGED Service!vars
  BY <1>9 DEF ClientOrder, Client!OrderCall, Client!OrderUnsent, serviceVars, Service!vars
<1> QED
  BY <1>1, <1>2, <1>3, <1>4, <1>5, <1>6, <1>7, <1>8, <1>9 DEF Next

LEMMA TypeStep == TypeOK /\ [Next]_vars => TypeOK'
<1> SUFFICES ASSUME TypeOK, [Next]_vars PROVE TypeOK'
  OBVIOUS
<1>1. Client!TypeOK' /\ Service!TypeOK'
  BY ClientTakesStep, ServiceTakesStep, ClientTypeStep, ServiceTypeStep DEF TypeOK
<1>2. CASE DeliverVerdict
  <2>1. ToClient # <<>>
    BY <1>2 DEF DeliverVerdict, Service!Carry, ToClient
  <2>2. Head(ToClient) \in VerdictMsg
    BY <2>1, Channels, HeadType
  <2>3. Head(ToClient).client \in Accounts
    BY <2>2 DEF VerdictMsg
  <2> QED
    BY <1>1, <1>2, <2>3 DEF DeliverVerdict, TypeOK
<1>3. ASSUME NEW who \in Accounts, NEW d \in Accounts, ClientCancel(who, d)
      PROVE  TypeOK'
  BY <1>1, <1>3 DEF ClientCancel, TypeOK
<1>4. CASE UNCHANGED history
  BY <1>1, <1>4 DEF history, TypeOK
<1>5. ASSUME NEW who \in Accounts, NEW base \in OrderBase, ClientOrder(who, base)
      PROVE  TypeOK'
  BY <1>1, <1>5 DEF ClientOrder, TypeOK
<1> QED
  BY <1>2, <1>3, <1>4, <1>5 DEF Next, ClientCall, ServiceCall, DeliverOrder, NextBlock,
     OpenChannels, vars

LEMMA TypeInit == Init => TypeOK
<1>1. CP!Init => CP!TypeOK
  BY ClientAssumed, DepositAssumption, InputsAssumption, CP!TypeInit
<1>2. SP!Init => SP!TypeOK
  BY ServiceAssumed, DepositAssumption, InputsAssumption, SP!TypeInit
<1> QED
  BY <1>1, <1>2, ClientSame, ServiceSame DEF Init, TypeOK

\* On the two chains together every table, channel and ledger keeps its type,
\* whatever the pallets send each other.
THEOREM TypeCorrect == Spec => []TypeOK
<1>1. Init => TypeOK
  BY TypeInit
<1>2. TypeOK /\ [Next]_vars => TypeOK'
  BY TypeStep
<1> QED
  BY <1>1, <1>2, PTL DEF Spec

\* Connected, the chain of the clients still is a client pallet, which relies
\* on nothing that comes over its channel (handle_blob_message).
THEOREM ClientChainIsPallet == Spec => Client!Spec
<1>1. Init => Client!Init
  BY DEF Init
<1>2. TypeOK /\ [Next]_vars => [Client!Next]_Client!vars
  BY ClientTakesStep
<1> QED
  BY <1>1, <1>2, TypeCorrect, PTL DEF Spec, Client!Spec

\* And the chain of the devices is a service pallet: whatever orders clients
\* send and cancel, every step of it is one the pallet is verified for.
THEOREM ServiceChainIsPallet == Spec => Service!Spec
<1>1. Init => Service!Init
  BY DEF Init
<1>2. TypeOK /\ [Next]_vars => [Service!Next]_Service!vars
  BY ServiceTakesStep
<1> QED
  BY <1>1, <1>2, TypeCorrect, PTL DEF Spec, Service!Spec

-----------------------------------------------------------------------------
(***************************************************************************)
(* How each step of the chains changes the trace of a device.              *)
(***************************************************************************)

Trace(d) == Good(cOrders[d], ToService, sOrders[d], ToClient, d)

\* A client's order or another of its calls.
ClientActing == ClientCall \/ \E who \in Accounts, base \in OrderBase : ClientOrder(who, base)

LEMMA ClientCallTrace ==
  ASSUME TypeOK, ClientActing, NEW d \in Accounts
  PROVE  \/ cOrders'[d] = cOrders[d]
              /\ Irrelevant(ToService, ToService', OrdersFor(d), Client!SentMsg)
         \/ /\ cOrders[d] = NoOrder /\ cOrders'[d] # NoOrder
            /\ \/ ToService' = ToService
               \/ /\ OrderOf(cOrders'[d], d) \in Client!SentMsg
                  /\ ToService' = Append(ToService, OrderOf(cOrders'[d], d))
<1> DEFINE Goal == \/ cOrders'[d] = cOrders[d]
                        /\ Irrelevant(ToService, ToService', OrdersFor(d), Client!SentMsg)
                   \/ /\ cOrders[d] = NoOrder /\ cOrders'[d] # NoOrder
                      /\ \/ ToService' = ToService
                         \/ /\ OrderOf(cOrders'[d], d) \in Client!SentMsg
                            /\ ToService' = Append(ToService, OrderOf(cOrders'[d], d))
<1>1. ASSUME UNCHANGED <<cOrders, cOutbox>>
      PROVE  Goal
  BY <1>1 DEF ToService, Irrelevant
<1>2. ASSUME NEW who \in Accounts, NEW base \in OrderBase,
             Client!OrderStored(who, base),
             \/ Client!Send(cDevices[base.device].paraid,
                  Client!NewOrderMsg(who,
                    Client!SentOrder(Client!StoredOrder(base, who, Client!Unset), base.device)))
             \/ UNCHANGED cOutbox
      PROVE  Goal
  <2> DEFINE o == StoredOrder(base, who, 0)
             m == OrderOf(o, base.device)
  <2>1. /\ cOrders' = [cOrders EXCEPT ![base.device] = o]
        /\ cOrders[base.device] = NoOrder /\ cDevices[base.device] # NoDevice
    BY <1>2 DEF Client!OrderStored, Client!Acceptable, Client!IsOpen, Client!StoredOrder,
       Client!Unset, StoredOrder
  <2>2. base.device \in Accounts /\ SentOrder(o, base.device) = base /\ o.client = who
    BY DEF OrderBase, SentOrder, StoredOrder
  <2>3. m \in OrderMsg /\ m.order.device = base.device /\ m \in Client!SentMsg
    <3>1. m = NewOrderMsg(who, base)
      BY <2>2 DEF OrderOf
    <3>2. NewOrderMsg(who, base) \in OrderMsg
      BY DEF NewOrderMsg, OrderMsg
    <3>3. OrderMsg = Client!OrderMsg
      BY DEF OrderMsg, Client!OrderMsg, OrderBase, Client!OrderBase
    <3>4. NewOrderMsg(who, base).order.device = base.device
      BY DEF NewOrderMsg
    <3> QED
      BY <3>1, <3>2, <3>3, <3>4 DEF Client!SentMsg
  <2>4. o # NoOrder
    <3>1. o \in Order({Client!Unset, ClientPara, ServicePara})
      BY DEF StoredOrder, Order, OrderBase, Client!Unset
    <3> QED
      BY <3>1, CrossAssumption
  <2>5. ToService' = ToService \/ ToService' = Append(ToService, m)
    <3>1. cDevices[base.device].paraid = ServicePara
      BY <2>1, <2>2 DEF TypeOK, Client!TypeOK, Client!DeviceProfile
    <3>2. Client!NewOrderMsg(who,
            Client!SentOrder(Client!StoredOrder(base, who, Client!Unset), base.device)) = m
      BY <2>2 DEF OrderOf, NewOrderMsg, SentOrder, StoredOrder, Client!NewOrderMsg,
         Client!SentOrder, Client!StoredOrder, Client!Unset
    <3>3. CASE UNCHANGED cOutbox
      BY <3>3 DEF ToService
    <3>4. CASE Client!Send(ServicePara, m)
      <4>1. cOutbox' = [cOutbox EXCEPT ![ServicePara] = Append(cOutbox[ServicePara], m)]
        BY <3>4 DEF Client!Send
      <4>2. ServicePara \in DOMAIN cOutbox
        BY Channels DEF TypeOK, Client!TypeOK
      <4> QED
        BY <4>1, <4>2 DEF ToService
    <3> QED
      BY <1>2, <3>1, <3>2, <3>3, <3>4
  <2>6. DOMAIN cOrders = Accounts
    BY DEF TypeOK, Client!TypeOK
  <2> HIDE DEF o, m
  <2>7. CASE d = base.device
    <3>1. cOrders'[d] = o
      BY <2>1, <2>2, <2>6, <2>7
    <3>2. OrderOf(cOrders'[d], d) = m
      BY <3>1, <2>7 DEF m
    <3> QED
      BY <2>1, <2>3, <2>4, <2>5, <2>7, <3>1, <3>2
  <2>8. CASE d # base.device
    <3>1. m \notin OrdersFor(d)
      BY <2>3, <2>8 DEF OrdersFor
    <3>2. cOrders'[d] = cOrders[d]
      BY <2>1, <2>6, <2>8
    <3> QED
      BY <2>3, <2>5, <3>1, <3>2 DEF Irrelevant
  <2> QED BY <2>7, <2>8
<1> HIDE DEF Goal
<1>3. ASSUME NEW who \in Accounts, NEW base \in OrderBase,
             \/ Client!OrderCall(who, base)
             \/ Client!OrderUnsent(who, base)
             \/ Client!OrderStranding(who, base)
      PROVE  Goal
  BY <1>1, <1>2, <1>3 DEF Client!OrderCall, Client!OrderUnsent, Client!OrderStranding
<1>4. Goal
  BY <1>1, <1>3 DEF ClientActing, ClientOrder, ClientCall, Client!Register,
     Client!TransferFunds
<1> QED
  BY <1>4 DEF Goal

\* The verdict on the order of id may go to either channel, or none.
LEMMA ServiceSends ==
  ASSUME TypeOK, NEW p, NEW m, Service!Send(p, m)
  PROVE  ToClient' = ToClient \/ ToClient' = Append(ToClient, m)
BY DEF Service!Send, TypeOK, Service!TypeOK, Service!Verdicts, ToClient

LEMMA AcceptIrrelevant ==
  ASSUME TypeOK, NEW p, NEW c \in Accounts, NEW id \in Accounts, NEW d,
         \/ Service!TrySend(p, Service!OrderAcceptMsg(c, id))
         \/ UNCHANGED sOutbox
  PROVE  Irrelevant(ToClient, ToClient', VerdictsFor(d), VerdictMsg)
<1> DEFINE m == Service!OrderAcceptMsg(c, id)
<1>1. m \in VerdictMsg /\ m.kind = "OrderAccept"
  BY DEF Service!OrderAcceptMsg, VerdictMsg
<1>2. m \notin VerdictsFor(d)
  BY <1>1 DEF VerdictsFor, Settles
<1> HIDE DEF m
<1>3. CASE UNCHANGED sOutbox
  BY <1>3 DEF ToClient, Irrelevant
<1>4. CASE Service!Send(p, m)
  BY <1>1, <1>2, <1>4, ServiceSends DEF Irrelevant
<1> QED
  BY <1>3, <1>4 DEF Service!TrySend, m

\* What ends the order of a device, with or without a message.
Ends(id) ==
  /\ sOrders' = [sOrders EXCEPT ![id] = NoOrder]
  /\ \/ ToClient' = ToClient
     \/ \E m \in VerdictMsg :
          /\ sOrders[id] # NoOrder /\ m.client = sOrders[id].client
          /\ m.device = id /\ ToClient' = Append(ToClient, m)

LEMMA RejectEnds ==
  ASSUME TypeOK, NEW id \in Accounts, NEW st, NEW onoff \in BOOLEAN,
         Service!OrderReject(id, st, onoff)
  PROVE  Ends(id)
<1> DEFINE m == Service!OrderRejectMsg(sOrders[id].client, id, onoff)
<1>1. sOrders' = [sOrders EXCEPT ![id] = NoOrder]
  BY DEF Service!OrderReject
<1>2. CASE Service!IsOpen(id) /\ Service!Send(sOrders[id].paraid, m)
  <2>1. sOrders[id] # NoOrder /\ sOrders[id].client \in Accounts
    BY <1>2 DEF Service!IsOpen, TypeOK, Service!TypeOK, Service!Order
  <2>2. /\ m \in VerdictMsg /\ m.client = sOrders[id].client
        /\ m.device = id
    BY <2>1 DEF Service!OrderRejectMsg, VerdictMsg
  <2> HIDE DEF m
  <2> QED
    BY <1>1, <1>2, <2>1, <2>2, ServiceSends DEF Ends
<1>3. CASE UNCHANGED sOutbox
  BY <1>1, <1>3 DEF Ends, ToClient
<1> QED
  BY <1>2, <1>3 DEF Service!OrderReject

LEMMA DoneEnds ==
  ASSUME TypeOK, NEW id \in Accounts, NEW onoff \in BOOLEAN, Service!Done(id, onoff)
  PROVE  Ends(id)
<1> DEFINE m == Service!OrderDoneMsg(sOrders[id].client, id, onoff)
<1>1. sOrders' = [sOrders EXCEPT ![id] = NoOrder] /\ sOrders[id] # NoOrder
  BY DEF Service!Done, Service!DoneLocal, Service!DoneStranding, Service!DoneRemote,
     Service!DoneUnreported, Service!DoneBegins, Service!IsOpen
<1>2. UNCHANGED sOutbox \/ Service!Send(sOrders[id].paraid, m)
  BY DEF Service!Done, Service!DoneLocal, Service!DoneStranding, Service!DoneRemote,
     Service!DoneUnreported
<1>3. /\ m \in VerdictMsg /\ m.client = sOrders[id].client
      /\ m.device = id
  <2>1. sOrders[id].client \in Accounts
    BY <1>1 DEF TypeOK, Service!TypeOK, Service!Order
  <2> QED
    BY <2>1 DEF Service!OrderDoneMsg, VerdictMsg
<1> HIDE DEF m
<1>4. CASE UNCHANGED sOutbox
  BY <1>1, <1>4 DEF Ends, ToClient
<1>5. CASE Service!Send(sOrders[id].paraid, m)
  BY <1>1, <1>3, <1>5, ServiceSends DEF Ends
<1> QED
  BY <1>2, <1>4, <1>5

LEMMA ServiceCallTrace ==
  ASSUME TypeOK, ServiceCall, NEW d \in Accounts
  PROVE  \/ /\ sOrders'[d] = sOrders[d]
            /\ Irrelevant(ToClient, ToClient', VerdictsFor(d), VerdictMsg)
         \/ /\ sOrders[d] # NoOrder /\ sOrders'[d] = NoOrder
            /\ \/ ToClient' = ToClient
               \/ \E m \in VerdictMsg :
                    m.client = sOrders[d].client /\ ToClient' = Append(ToClient, m)
<1> DEFINE Quiet == /\ sOrders'[d] = sOrders[d]
                    /\ Irrelevant(ToClient, ToClient', VerdictsFor(d), VerdictMsg)
           Ended == /\ sOrders[d] # NoOrder /\ sOrders'[d] = NoOrder
                    /\ \/ ToClient' = ToClient
                       \/ \E m \in VerdictMsg :
                            m.client = sOrders[d].client /\ ToClient' = Append(ToClient, m)
<1>1. ASSUME NEW id \in Accounts, Ends(id)
      PROVE  Quiet \/ Ended
  <2>0. DOMAIN sOrders = Accounts
    BY DEF TypeOK, Service!TypeOK
  <2>1. CASE id # d
    <3>1. sOrders'[d] = sOrders[d]
      BY <1>1, <2>0, <2>1 DEF Ends
    <3>2. \A m \in VerdictMsg : m.device = id => m \notin VerdictsFor(d)
      BY <2>1 DEF VerdictsFor, Settles
    <3> QED
      BY <1>1, <3>1, <3>2 DEF Ends, Irrelevant
  <2>2. CASE id = d /\ sOrders[d] # NoOrder
    <3>1. sOrders'[d] = NoOrder
      BY <1>1, <2>0, <2>2 DEF Ends
    <3> QED
      BY <1>1, <2>2, <3>1 DEF Ends
  <2>3. CASE id = d /\ sOrders[d] = NoOrder
    <3>1. sOrders'[d] = sOrders[d] /\ ToClient' = ToClient
      BY <1>1, <2>0, <2>3 DEF Ends
    <3> QED
      BY <3>1 DEF Irrelevant
  <2> QED BY <2>1, <2>2, <2>3
<1>2. ASSUME UNCHANGED <<sOrders, sOutbox>>
      PROVE  Quiet
  BY <1>2 DEF ToClient, Irrelevant
<1>3. ASSUME NEW id \in Accounts, Service!Accept(id)
      PROVE  Quiet
  <2>1. UNCHANGED sOrders /\ sOrders[id] # NoOrder
    BY <1>3 DEF Service!Accept, Service!IsOpen
  <2>2. sOrders[id].client \in Accounts
    BY <2>1 DEF TypeOK, Service!TypeOK, Service!Order
  <2>3. \/ Service!TrySend(sOrders[id].paraid,
             Service!OrderAcceptMsg(sOrders[id].client, id))
        \/ UNCHANGED sOutbox
    BY <1>3 DEF Service!Accept
  <2> QED
    BY <2>1, <2>2, <2>3, AcceptIrrelevant
<1> HIDE DEF Quiet, Ended
<1>4. ASSUME NEW id \in Accounts, Service!DeviceStep(id)
      PROVE  Quiet \/ Ended
  <2>1. ASSUME NEW onoff \in BOOLEAN, Service!Reject(id, onoff) \/ Service!Done(id, onoff)
        PROVE  Ends(id)
    BY <2>1, RejectEnds, DoneEnds DEF Service!Reject
  <2>2. ASSUME NEW onoff \in BOOLEAN, Service!SetState(id, onoff)
        PROVE  UNCHANGED <<sOrders, sOutbox>>
    BY <2>2 DEF Service!SetState
  <2> QED
    BY <1>1, <1>2, <1>3, <1>4, <2>1, <2>2 DEF Service!DeviceStep
<1>5. ASSUME NEW who \in Accounts, NEW id \in Accounts, Service!Cancel(who, id)
      PROVE  Quiet \/ Ended
  <2>1. Ends(id)
    BY <1>5, RejectEnds DEF Service!Cancel
  <2> QED
    BY <1>1, <2>1
<1>6. Quiet \/ Ended
  BY <1>2, <1>4, <1>5 DEF ServiceCall, Service!Register
<1> QED
  BY <1>6 DEF Quiet, Ended

LEMMA DeliverOrderTrace ==
  ASSUME TypeOK, DeliverOrder, NEW d \in Accounts
  PROVE  /\ ToService # <<>> /\ ToService' = Tail(ToService) /\ UNCHANGED <<cOrders, now>>
         /\ Irrelevant(ToClient, ToClient', VerdictsFor(d), VerdictMsg)
         /\ \/ sOrders'[d] = sOrders[d]
            \/ LET m == Head(ToService) IN
               /\ m \in OrdersFor(d) /\ sOrders[d] = NoOrder /\ now < m.order.until
               /\ sOrders'[d] = StoredOrder(m.order, m.client, ClientPara)
<1> DEFINE m == Head(ToService)
           o == Service!StoredOrder(m.order, m.client, ClientPara)
<1>1. /\ ToService # <<>> /\ UNCHANGED <<cOrders, now>>
      /\ cOutbox' = [cOutbox EXCEPT ![ServicePara] = Tail(cOutbox[ServicePara])]
  BY DEF DeliverOrder, Client!Carry, ToService
<1>2. ToService' = Tail(ToService)
  BY <1>1, Channels DEF ToService, TypeOK, Client!TypeOK
<1>3. Service!HandleBlobMessage(ClientPara, m)
  BY DEF DeliverOrder
<1>4. CASE ~Service!Handles(m)
  <2>1. UNCHANGED <<sOrders, sOutbox>>
    BY <1>3, <1>4 DEF Service!HandleBlobMessage, Service!vars
  <2> QED
    BY <1>1, <1>2, <2>1 DEF ToClient, Irrelevant
<1>5. CASE Service!Handles(m)
  <2>1. m \in OrderMsg
    <3>1. m \in Client!SentMsg /\ m.kind = "NewOrder"
      BY <1>1, <1>5, Channels, HeadType DEF Service!Handles
    <3> QED
      BY <3>1 DEF Client!SentMsg, Client!Undecodable, Client!OrderMsg, OrderMsg,
         Client!OrderBase, OrderBase
  <2>2. m.order.device \in Accounts /\ m.client \in Accounts
    BY <2>1 DEF OrderMsg, OrderBase
  <2>3. /\ Service!OrderReceived(o, m.order.device)
        /\ o = StoredOrder(m.order, m.client, ClientPara) /\ o.client = m.client
    BY <1>3, <1>5 DEF Service!HandleBlobMessage, Service!StoredOrder, StoredOrder
  <2> HIDE DEF o
  <2>4. /\ sOrders' = [sOrders EXCEPT ![m.order.device] = o]
        /\ sOrders[m.order.device] = NoOrder /\ now < m.order.until
        /\ \/ Service!TrySend(o.paraid, Service!OrderAcceptMsg(o.client, m.order.device))
           \/ UNCHANGED sOutbox
    BY <2>3 DEF Service!OrderReceived, Service!Acceptable, Service!IsOpen, StoredOrder
  <2>5. Irrelevant(ToClient, ToClient', VerdictsFor(d), VerdictMsg)
    BY <2>2, <2>3, <2>4, AcceptIrrelevant
  <2>6. DOMAIN sOrders = Accounts
    BY DEF TypeOK, Service!TypeOK
  <2>7. CASE m.order.device = d
    <3>1. m \in OrdersFor(d)
      BY <2>1, <2>7 DEF OrdersFor
    <3>2. sOrders'[d] = o
      BY <2>2, <2>4, <2>6, <2>7
    <3> QED
      BY <1>1, <1>2, <2>3, <2>4, <2>5, <2>7, <3>1, <3>2
  <2>8. CASE m.order.device # d
    <3>1. sOrders'[d] = sOrders[d]
      BY <2>4, <2>6, <2>8
    <3> QED
      BY <1>1, <1>2, <2>5, <3>1
  <2> QED BY <2>7, <2>8
<1> QED BY <1>4, <1>5

LEMMA DeliverVerdictTrace ==
  ASSUME TypeOK, DeliverVerdict, NEW d \in Accounts
  PROVE  /\ ToClient # <<>> /\ ToClient' = Tail(ToClient)
         /\ sOutbox' = [sOutbox EXCEPT ![ClientPara] = Tail(ToClient)]
         /\ UNCHANGED <<cOutbox, sOrders, now>>
         /\ \/ cOrders'[d] = cOrders[d]
            \/ Head(ToClient) \in VerdictsFor(d) /\ cOrders'[d] = NoOrder
<1> DEFINE m == Head(ToClient)
<1>1. /\ ToClient # <<>> /\ UNCHANGED sOrders
      /\ sOutbox' = [sOutbox EXCEPT ![ClientPara] = Tail(ToClient)]
  BY DEF DeliverVerdict, Service!Carry, ToClient
<1>2. ToClient' = Tail(ToClient)
  BY <1>1 DEF ToClient, TypeOK, Service!TypeOK, Service!Verdicts
<1>3. m \in VerdictMsg
  BY <1>1, Channels, HeadType
<1>4. m.device \in Accounts
  BY <1>3 DEF VerdictMsg
<1>5. \/ UNCHANGED <<cOrders, cOutbox, now>>
      \/ /\ cOrders' = [cOrders EXCEPT ![m.device] = NoOrder]
         /\ m.kind \in {"OrderReject", "OrderDone"}
         /\ UNCHANGED <<cOutbox, now>>
  BY DEF DeliverVerdict, Client!HandleBlobMessage, Client!vars, Client!Verdict,
     Client!OnReject, Client!OnRejectStuck, Client!OnDone, Client!OnDoneStuck,
     Client!OrderReject
<1>6. DOMAIN cOrders = Accounts
  BY DEF TypeOK, Client!TypeOK
<1>7. CASE m.device = d /\ m.kind \in {"OrderReject", "OrderDone"}
  <2>1. m \in VerdictsFor(d)
    BY <1>3, <1>7 DEF VerdictsFor, Settles
  <2> HIDE DEF m
  <2> QED
    BY <1>1, <1>2, <1>5, <1>6, <1>7, <2>1 DEF m
<1>8. CASE ~(m.device = d /\ m.kind \in {"OrderReject", "OrderDone"})
  <2> HIDE DEF m
  <2>1. cOrders'[d] = cOrders[d]
    BY <1>5, <1>6, <1>8
  <2> QED
    BY <1>1, <1>2, <1>5, <2>1
<1> QED BY <1>7, <1>8

(***************************************************************************)
(* The token.                                                              *)
(***************************************************************************)

\* The places of OneTrace and SameOrder are those counted here.
LEMMA UnderWay ==
  ASSUME TypeOK, NEW d
  PROVE  /\ OrdersUnderWay(d) = Places(ToService, OrdersFor(d))
         /\ VerdictsUnderWay(d) = Places(ToClient, VerdictsFor(d))
<1>1. ASSUME NEW i \in DOMAIN ToService
      PROVE  (ToService[i].kind = "NewOrder" /\ ToService[i].order.device = d)
               <=> ToService[i] \in OrdersFor(d)
  <2>1. ToService[i] \in Client!SentMsg
    BY Channels, ElementOfSeq, LenProperties
  <2>2. CASE ToService[i] \in OrderMsg
    <3>1. ToService[i].kind = "NewOrder"
      BY <2>2 DEF OrderMsg
    <3> QED
      BY <2>2, <3>1 DEF OrdersFor
  <2>3. CASE ToService[i] = Client!Undecodable
    <3>1. ToService[i].kind # "NewOrder"
      BY <2>3 DEF Client!Undecodable
    <3> QED
      BY <3>1 DEF OrdersFor, OrderMsg
  <2>4. Client!OrderMsg = OrderMsg
    BY DEF OrderMsg, Client!OrderMsg, OrderBase, Client!OrderBase
  <2> QED
    BY <2>1, <2>2, <2>3, <2>4 DEF Client!SentMsg
<1>2. ASSUME NEW i \in DOMAIN ToClient
      PROVE  Settles(ToClient[i], d) <=> ToClient[i] \in VerdictsFor(d)
  <2>1. ToClient[i] \in VerdictMsg
    BY Channels, ElementOfSeq, LenProperties
  <2> QED
    BY <2>1 DEF VerdictsFor
<1>3. OrdersUnderWay(d) = Places(ToService, OrdersFor(d))
  BY <1>1 DEF OrdersUnderWay, Places
<1>4. VerdictsUnderWay(d) = Places(ToClient, VerdictsFor(d))
  BY <1>2 DEF VerdictsUnderWay, Places
<1> QED
  BY <1>3, <1>4

\* Nothing under way, as the actions and as the counts see it.
LEMMA NoTraces ==
  ASSUME TypeOK, NEW d
  PROVE  Traces(d) = 0 <=> /\ sOrders[d] = NoOrder
                           /\ Count(ToService, OrdersFor(d)) = 0
                           /\ Count(ToClient, VerdictsFor(d)) = 0
<1>1. Count(ToService, OrdersFor(d)) \in Nat /\ Count(ToClient, VerdictsFor(d)) \in Nat
  BY Channels, PlacesFinite
<1> QED
  BY <1>1, UnderWay DEF Traces, Count, Service!IsOpen

TraceInv == TypeOK /\ \A d \in Accounts \ cancelled : Trace(d)

\* An order for a device with a cancelled one clears it only if it meets
\* nothing of the earlier order, and then its trace begins afresh.
LEMMA BeginsAfresh ==
  ASSUME TraceInv, [Next]_vars, NEW d \in Accounts, d \notin cancelled'
  PROVE  Trace(d)
<1>1. CASE d \notin cancelled
  BY <1>1 DEF TraceInv
<1>2. ASSUME NEW who \in Accounts, NEW base \in OrderBase, ClientOrder(who, base),
             d \in cancelled
      PROVE  Trace(d)
  <2>1. base.device = d /\ Traces(d) = 0
    BY <1>2 DEF ClientOrder
  <2>2. cOrders[d] = NoOrder
    BY <1>2, <2>1 DEF ClientOrder, Client!OrderCall, Client!OrderUnsent, Client!OrderStored,
       Client!Acceptable, Client!IsOpen
  <2>3. /\ sOrders[d] = NoOrder
        /\ Count(ToService, OrdersFor(d)) = 0 /\ Count(ToClient, VerdictsFor(d)) = 0
    BY <2>1, NoTraces DEF TraceInv
  <2>4. /\ Among(ToService) \cap OrdersFor(d) = {}
        /\ Among(ToClient) \cap VerdictsFor(d) = {}
    BY <2>3, CountNone, Channels DEF TraceInv
  <2> QED
    BY <2>2, <2>3, <2>4 DEF Trace, Good
<1>3. CASE cancelled \subseteq cancelled'
  BY <1>1, <1>3
<1> QED
  BY <1>1, <1>2, <1>3 DEF Next, ClientCall, ClientCancel, ServiceCall, DeliverOrder,
     DeliverVerdict, NextBlock, OpenChannels, history, vars

LEMMA TraceStep == TraceInv /\ [Next]_vars => TraceInv'
<1> SUFFICES ASSUME TraceInv, [Next]_vars PROVE TraceInv'
  OBVIOUS
<1>1. TypeOK /\ TypeOK'
  BY TypeStep DEF TraceInv
<1>2. ASSUME NEW d \in Accounts, d \notin cancelled'
      PROVE  Trace(d)'
  <2>1. Trace(d) /\ ToService \in Seq(Client!SentMsg) /\ ToClient \in Seq(VerdictMsg)
    BY <1>1, <1>2, BeginsAfresh, Channels
  <2>2. CASE ClientActing
    <3>1. sOrders' = sOrders /\ ToClient' = ToClient
      BY <2>2 DEF ClientActing, ClientOrder, ClientCall, serviceVars, ToClient
    <3>2. Good(cOrders'[d], ToService', sOrders[d], ToClient, d)
      BY <1>1, <2>1, <2>2, ClientCallTrace, ClientKeeps DEF Trace
    <3> QED
      BY <3>1, <3>2 DEF Trace
  <2>3. ASSUME NEW who \in Accounts, NEW x \in Accounts, ClientCancel(who, x)
        PROVE  Trace(d)'
    <3>1. /\ sOrders' = sOrders /\ ToClient' = ToClient /\ ToService' = ToService
          /\ cOrders' = [cOrders EXCEPT ![x] = NoOrder] /\ DOMAIN cOrders = Accounts
      BY <1>1, <2>3 DEF ClientCancel, Client!Cancel, Client!OrderReject, serviceVars,
         ToClient, ToService, TypeOK, Client!TypeOK
    <3>2. CASE x # d
      BY <2>1, <3>1, <3>2 DEF Trace
    <3>3. CASE x = d
      <4>1. Traces(d) = 0
        BY <1>2, <2>3, <3>3 DEF ClientCancel
      <4>2. /\ Among(ToService) \cap OrdersFor(d) = {}
            /\ Among(ToClient) \cap VerdictsFor(d) = {}
        BY <1>1, <2>1, <4>1, NoTraces, CountNone
      <4> QED
        BY <1>1, <3>1, <3>3, <4>1, <4>2, NoTraces DEF Trace, Good
    <3> QED
      BY <3>2, <3>3
  <2>4. CASE ServiceCall
    <3>1. cOrders' = cOrders /\ ToService' = ToService
      BY <2>4 DEF ServiceCall, clientVars, ToService
    <3>2. Good(cOrders[d], ToService, sOrders'[d], ToClient', d)
      BY <1>1, <2>1, <2>4, ServiceCallTrace, ServiceKeeps DEF Trace
    <3> QED
      BY <3>1, <3>2 DEF Trace
  <2>5. CASE DeliverOrder
    <3>1. cOrders[d] \in Client!Order({Client!Unset}) \cup {NoOrder}
      BY <1>1 DEF TypeOK, Client!TypeOK
    <3>2. cOrders[d] \in Order({Client!Unset}) \cup {NoOrder}
      BY <3>1 DEF Client!Order, Order
    <3>3. Good(cOrders[d], Tail(ToService), sOrders'[d], ToClient', d)
      BY <1>1, <2>1, <2>5, <3>2, DeliverOrderTrace, OrderArrives DEF Trace
    <3> QED
      BY <1>1, <2>5, <3>3, DeliverOrderTrace DEF Trace
  <2>6. CASE DeliverVerdict
    <3>1. Good(cOrders'[d], ToService, sOrders[d], Tail(ToClient), d)
      BY <1>1, <2>1, <2>6, DeliverVerdictTrace, VerdictArrives DEF Trace
    <3> QED
      BY <1>1, <2>6, <3>1, DeliverVerdictTrace DEF Trace, ToService
  <2>7. CASE UNCHANGED <<cOrders, cOutbox, sOrders, sOutbox>>
    BY <2>1, <2>7 DEF Trace, ToService, ToClient
  <2> QED
    BY <2>2, <2>3, <2>4, <2>5, <2>6, <2>7 DEF Next, ClientActing, NextBlock, Client!NextBlock,
       OpenChannels, Client!OpenChannel, Service!OpenChannel, clientVars, serviceVars, vars
<1> QED
  BY <1>1, <1>2 DEF TraceInv

LEMMA TraceInit == Init => TraceInv
<1> SUFFICES ASSUME Init PROVE TraceInv
  OBVIOUS
<1>1. /\ cOrders = [x \in Accounts |-> NoOrder] /\ sOrders = [x \in Accounts |-> NoOrder]
      /\ ToService = <<>> /\ ToClient = <<>>
  BY Channels DEF Init, Client!Init, Service!Init, ToService, ToClient, Client!Paras
<1>2. \A S : Count(<<>>, S) = 0 /\ Among(<<>>) = {}
  BY FS_EmptySet DEF Count, Places, Among
<1>3. \A d \in Accounts : Trace(d)
  BY <1>1, <1>2 DEF Trace, Good
<1>4. TypeOK
  BY TypeInit
<1> QED
  BY <1>3, <1>4 DEF TraceInv

LEMMA TraceInvariant == Spec => []TraceInv
<1>1. Init => TraceInv
  BY TraceInit
<1>2. TraceInv /\ [Next]_vars => TraceInv'
  BY TraceStep
<1> QED
  BY <1>1, <1>2, PTL DEF Spec

\* Unless a client cancelled before the job had come to rest, an order is on
\* its way, or open on the service chain, or its verdict is on its way back,
\* and never two of these: for any number of clients, devices and messages.
THEOREM OrderIsOneToken == Spec => []OneTrace
<1>1. TraceInv => OneTrace
  <2> SUFFICES ASSUME TraceInv, NEW d \in Accounts \ cancelled PROVE Traces(d) <= 1
    BY DEF OneTrace
  <2>1. Trace(d) /\ TypeOK
    BY DEF TraceInv
  <2> QED
    BY <2>1, UnderWay DEF Trace, Good, Traces, Count, Service!IsOpen
<1> QED
  BY <1>1, TraceInvariant, PTL

\* With the same exception, what the service chain holds, is sent or reports
\* is about the very order the client chain holds funds for: stored, sent
\* (Order::convert), received and settled, its terms and client are the same.
THEOREM OrderStaysTheSame == Spec => []SameOrder
<1>1. TraceInv => SameOrder
  <2> SUFFICES ASSUME TraceInv, NEW d \in Accounts \ cancelled
               PROVE  /\ Service!IsOpen(d) =>
                           /\ Client!IsOpen(d)
                           /\ sOrders[d] = [cOrders[d] EXCEPT !.paraid = ClientPara]
                      /\ \A i \in OrdersUnderWay(d) :
                           /\ Client!IsOpen(d)
                           /\ ToService[i]
                                = NewOrderMsg(cOrders[d].client, SentOrder(cOrders[d], d))
                      /\ \A i \in VerdictsUnderWay(d) :
                           Client!IsOpen(d) /\ ToClient[i].client = cOrders[d].client
    BY DEF SameOrder
  <2>1. Trace(d) /\ TypeOK
    BY DEF TraceInv
  <2>2. Service!IsOpen(d) =>
          Client!IsOpen(d) /\ sOrders[d] = [cOrders[d] EXCEPT !.paraid = ClientPara]
    BY <2>1 DEF Trace, Good, Service!IsOpen, Client!IsOpen
  <2>3. ASSUME NEW i \in OrdersUnderWay(d)
        PROVE  /\ Client!IsOpen(d)
               /\ ToService[i] = NewOrderMsg(cOrders[d].client, SentOrder(cOrders[d], d))
    <3>1. ToService[i] \in Among(ToService) \cap OrdersFor(d)
      BY <2>1, UnderWay DEF Places, Among
    <3> QED
      BY <2>1, <3>1 DEF Trace, Good, OrderOf, Client!IsOpen
  <2>4. ASSUME NEW i \in VerdictsUnderWay(d)
        PROVE  Client!IsOpen(d) /\ ToClient[i].client = cOrders[d].client
    <3>1. ToClient[i] \in Among(ToClient) \cap VerdictsFor(d)
      BY <2>1, UnderWay DEF Places, Among
    <3> QED
      BY <2>1, <3>1 DEF Trace, Good, Client!IsOpen
  <2> QED
    BY <2>2, <2>3, <2>4
<1> QED
  BY <1>1, TraceInvariant, PTL

EndsEarly(d) ==
  (Client!IsOpen(d) /\ cOrders'[d] # cOrders[d] /\ now < cOrders[d].until)
    => /\ ToClient # <<>> /\ Settles(Head(ToClient), d)
       /\ sOutbox' = [sOutbox EXCEPT ![ClientPara] = Tail(ToClient)]

LEMMA EarlyEnd ==
  ASSUME TypeOK, [Next]_vars, NEW d \in Accounts
  PROVE  EndsEarly(d)
<1>1. CASE ClientActing
  BY <1>1, ClientCallTrace DEF EndsEarly, Client!IsOpen
<1>2. ASSUME NEW who \in Accounts, NEW x \in Accounts, ClientCancel(who, x)
      PROVE  EndsEarly(d)
  <2>1. cOrders' = [cOrders EXCEPT ![x] = NoOrder] /\ now >= cOrders[x].until
        /\ Client!IsOpen(x)
    BY <1>2 DEF ClientCancel, Client!Cancel, Client!OrderReject
  <2>2. CASE x = d
    <3>1. cOrders[d].until \in Nat /\ now \in Nat
      BY <2>1, <2>2, InputsAssumption DEF TypeOK, Client!TypeOK, Client!Order, Client!IsOpen
    <3> QED
      BY <2>1, <2>2, <3>1 DEF EndsEarly
  <2>3. CASE x # d
    BY <2>1, <2>3 DEF EndsEarly, TypeOK, Client!TypeOK
  <2> QED BY <2>2, <2>3
<1>3. CASE UNCHANGED cOrders
  BY <1>3 DEF EndsEarly
<1>4. CASE DeliverVerdict
  BY <1>4, DeliverVerdictTrace DEF EndsEarly, VerdictsFor
<1>5. CASE DeliverOrder
  BY <1>5, DeliverOrderTrace DEF EndsEarly
<1> QED
  BY <1>1, <1>2, <1>3, <1>4, <1>5 DEF Next, ClientActing, ServiceCall, NextBlock, Client!NextBlock,
     OpenChannels, Client!OpenChannel, clientVars, vars

\* No step but the arrival of a verdict about its device takes an order off
\* the client chain before its deadline, cancelled devices included.
THEOREM VerdictEndsEarly == Spec => EarlyEndNeedsVerdict
<1>1. TypeOK /\ [Next]_vars
        => [\A d \in Accounts :
              (Client!IsOpen(d) /\ cOrders'[d] # cOrders[d] /\ now < cOrders[d].until)
                => /\ ToClient # <<>> /\ Settles(Head(ToClient), d)
                   /\ sOutbox' = [sOutbox EXCEPT ![ClientPara] = Tail(ToClient)]]_vars
  BY EarlyEnd DEF EndsEarly
<1> QED
  BY <1>1, TypeCorrect, PTL DEF Spec, EarlyEndNeedsVerdict

-----------------------------------------------------------------------------
(***************************************************************************)
(* The funds behind the orders of the client chain.                        *)
(***************************************************************************)

ClientKnown == TypeOK /\ Client!OrderedDevicesKnown

LEMMA KnownSame ==
  ((CP!KnownInv /\ TypeOK) <=> ClientKnown) /\ ((CP!KnownInv /\ TypeOK)' <=> ClientKnown')
<1>1. CP!OrderedDevicesKnown <=> Client!OrderedDevicesKnown
  BY DEF CP!OrderedDevicesKnown, Client!OrderedDevicesKnown, CP!IsOpen, Client!IsOpen
<1>2. CP!OrderedDevicesKnown' <=> Client!OrderedDevicesKnown'
  BY DEF CP!OrderedDevicesKnown, Client!OrderedDevicesKnown, CP!IsOpen, Client!IsOpen
<1> QED
  BY <1>1, <1>2, ClientSame DEF ClientKnown, TypeOK, CP!KnownInv

LEMMA KnownStep == ClientKnown /\ [Next]_vars => ClientKnown'
<1>1. CP!KnownInv /\ [CP!Next]_CP!vars => CP!OrderedDevicesKnown'
  BY ClientAssumed, DepositAssumption, InputsAssumption, CP!KnownStep
<1>2. CP!KnownInv' <=> CP!TypeOK' /\ CP!OrderedDevicesKnown'
  BY DEF CP!KnownInv
<1>3. ClientKnown /\ [Next]_vars => [CP!Next]_CP!vars /\ TypeOK'
  BY ClientSame, ClientTakesStep, TypeStep DEF ClientKnown
<1>4. TypeOK' => CP!TypeOK'
  BY ClientSame DEF TypeOK
<1> QED
  BY <1>1, <1>2, <1>3, <1>4, KnownSame

LEMMA KnownInit == Init => ClientKnown
<1> SUFFICES ASSUME Init PROVE ClientKnown
  OBVIOUS
<1>1. cOrders = [x \in Accounts |-> NoOrder]
  BY DEF Init, Client!Init
<1> QED
  BY <1>1, TypeInit DEF ClientKnown, Client!OrderedDevicesKnown, Client!IsOpen

LEMMA FundedSame ==
  ASSUME NEW a
  PROVE  /\ CP!Funded(a) <=> Client!Held(a) <= cLedger[a].reserved
         /\ CP!Funded(a)' <=> (Client!Held(a) <= cLedger[a].reserved)'
<1>1. CP!Held(a) = Client!Held(a)
  BY DEF CP!Held, Client!Held, CP!FeeUnits, Client!FeeUnits, CP!IsOpen, Client!IsOpen,
     CP!Cardinality, Client!Cardinality, CP!IsFiniteSet, Client!IsFiniteSet
<1>2. CP!Held(a)' = Client!Held(a)'
  BY DEF CP!Held, Client!Held, CP!FeeUnits, Client!FeeUnits, CP!IsOpen, Client!IsOpen,
     CP!Cardinality, Client!Cardinality, CP!IsFiniteSet, Client!IsFiniteSet
<1> QED
  BY <1>1, <1>2 DEF CP!Funded

LEMMA StepSame ==
  /\ ClientQuiet <=> CP!CallStep \/ CP!ChainStep \/ UNCHANGED CP!vars
  /\ \A msg : Client!Verdict(msg) <=> CP!Verdict(msg)
  /\ AmountsCoverDeposit <=> CP!AmountsCoverDeposit
  /\ VerdictMsg = CP!VerdictMsg
<1>1. ClientQuiet <=> CP!CallStep \/ CP!ChainStep \/ UNCHANGED CP!vars
  BY ClientActionsSame DEF ClientQuiet, Client!vars, CP!vars
<1>2. \A msg : Client!Verdict(msg) <=> CP!Verdict(msg)
  BY ClientActionsSame
<1>3. (AmountsCoverDeposit <=> CP!AmountsCoverDeposit) /\ VerdictMsg = CP!VerdictMsg
  BY DEF AmountsCoverDeposit, CP!AmountsCoverDeposit, VerdictMsg, CP!VerdictMsg
<1> QED BY <1>1, <1>2, <1>3

FundsInv == ClientKnown /\ ClientFundsBacked

LEMMA FundsStep ==
  ASSUME AmountsCoverDeposit, FundsInv, [Next]_vars
  PROVE  FundsInv'
<1>1. ClientKnown /\ ClientKnown' /\ TypeOK /\ TypeOK'
  BY KnownStep DEF FundsInv, ClientKnown
<1>2. CP!KnownInv /\ CP!KnownInv'
  BY <1>1, KnownSame
<1>3. drawnOn \subseteq drawnOn'
  BY DEF Next, ClientOrder, ClientCall, ClientCancel, ServiceCall, DeliverOrder,
     DeliverVerdict, NextBlock, OpenChannels, history, vars
<1>4. ASSUME NEW a \in Accounts, a \notin drawnOn'
      PROVE  (Client!Held(a) <= cLedger[a].reserved)'
  <2>1. CP!Funded(a)
    BY <1>3, <1>4, FundedSame DEF FundsInv, ClientFundsBacked
  <2>2. CASE ClientQuiet
    <3>1. CP!Funded(a)'
      BY <1>2, <1>4, <2>1, <2>2, StepSame, ClientAssumed, DepositAssumption,
         InputsAssumption, CP!FundedCall
    <3> QED
      BY <3>1, FundedSame
  <2>3. CASE VerdictTaken
    <3> DEFINE m == Head(ToClient)
    <3>1. /\ m \in CP!VerdictMsg /\ CP!Verdict(m)
      BY <2>3, StepSame DEF VerdictTaken
    <3>2. a = m.client => a = cOrders[m.device].client /\ cOrders' # cOrders
      BY <1>4, <2>3 DEF VerdictTaken, DeliverVerdict, DrawsOn
    <3> HIDE DEF m
    <3>3. CP!Funded(a)'
      BY <1>2, <1>4, <2>1, <3>1, <3>2, StepSame, ClientAssumed, DepositAssumption,
         InputsAssumption, CP!FundedVerdict
    <3> QED
      BY <3>3, FundedSame
  <2> QED
    BY <1>1, <2>2, <2>3, ClientActs
<1> QED
  BY <1>1, <1>4 DEF FundsInv, ClientFundsBacked

\* If no amount is below the existential deposit, the reserve of an account
\* on the client chain covers all its open orders hold, through any
\* interleaving of cancels, new orders and stale verdicts, until a verdict
\* about somebody else's order, or one that failed half way, has drawn on it.
THEOREM ClientReservesBacked == ASSUME AmountsCoverDeposit PROVE Spec => []ClientFundsBacked
<1>1. Init => FundsInv
  <2> SUFFICES ASSUME Init PROVE FundsInv
    OBVIOUS
  <2>1. TypeOK /\ cOrders = [x \in Accounts |-> NoOrder]
    BY TypeInit DEF Init, Client!Init
  <2>2. ClientKnown
    BY KnownInit
  <2>3. ASSUME NEW a \in Accounts
        PROVE  Client!Held(a) <= cLedger[a].reserved
    <3>1. Client!FeeUnits(a) = {} /\ ~Client!IsOpen(a)
      BY <2>1, <2>3 DEF Client!FeeUnits, Client!IsOpen
    <3>2. Client!Cardinality(Client!FeeUnits(a)) = Cardinality({})
      BY <3>1 DEF Client!Cardinality, Cardinality, Client!IsFiniteSet, IsFiniteSet
    <3>3. Client!Held(a) = 0
      BY <3>1, <3>2, FS_EmptySet DEF Client!Held
    <3>4. cLedger[a].reserved = 0
      BY <2>3 DEF Init, Client!Init
    <3> QED
      BY <3>3, <3>4
  <2> QED
    BY <2>2, <2>3 DEF FundsInv, ClientFundsBacked
<1>2. FundsInv /\ [Next]_vars => FundsInv'
  BY FundsStep
<1>3. FundsInv => ClientFundsBacked
  BY DEF FundsInv
<1> QED
  BY <1>1, <1>2, <1>3, PTL DEF Spec

-----------------------------------------------------------------------------
(***************************************************************************)
(* One job for each device: RemoteOrder is implemented.                    *)
(*                                                                         *)
(* While the trace of a device is good, its job depends on the order of    *)
(* the client chain, on whether the service chain has the order, and on    *)
(* three counts.  A step changes these for one device at most.             *)
(***************************************************************************)

DoneFor(d) == {m \in VerdictsFor(d) : m.kind = "OrderDone"}

StageOf(n, so, k, e) ==
  IF n # 0 THEN "offered" ELSE IF so # NoOrder THEN "taken"
  ELSE IF k = 0 THEN "stranded" ELSE IF e # 0 THEN "done" ELSE "rejected"

Stage(d) ==
  StageOf(Count(ToService, OrdersFor(d)), sOrders[d],
          Count(ToClient, VerdictsFor(d)), Count(ToClient, DoneFor(d)))

JobAt(co, st) ==
  [stage |-> st, held |-> TermsOf(co),
   offer |-> IF st \in {"offered", "taken"} THEN TermsOf(co) ELSE NoOrder]

JobOf(d) ==
  IF d \in cancelled THEN Remote!Withdrawn
  ELSE IF cOrders[d] = NoOrder THEN Remote!Free
  ELSE JobAt(cOrders[d], Stage(d))

JobsCounted == \A d \in Accounts : Job(d) = JobOf(d)

\* The places of Job are those counted here.
LEMMA StageCounted ==
  ASSUME TypeOK, NEW d
  PROVE  /\ Count(ToService, OrdersFor(d)) = 0 <=> OrdersUnderWay(d) = {}
         /\ Count(ToClient, VerdictsFor(d)) = 0 <=> VerdictsUnderWay(d) = {}
         /\ Count(ToClient, DoneFor(d)) = 0
              <=> ~\E i \in VerdictsUnderWay(d) : ToClient[i].kind = "OrderDone"
<1>1. /\ OrdersUnderWay(d) = Places(ToService, OrdersFor(d))
      /\ VerdictsUnderWay(d) = Places(ToClient, VerdictsFor(d))
  BY UnderWay
<1>2. /\ Count(ToService, OrdersFor(d)) = 0 <=> Places(ToService, OrdersFor(d)) = {}
      /\ Count(ToClient, VerdictsFor(d)) = 0 <=> Places(ToClient, VerdictsFor(d)) = {}
      /\ Count(ToClient, DoneFor(d)) = 0 <=> Places(ToClient, DoneFor(d)) = {}
  BY Channels, PlacesFinite, FS_EmptySet DEF Count
<1>3. Places(ToClient, DoneFor(d))
        = {i \in Places(ToClient, VerdictsFor(d)) : ToClient[i].kind = "OrderDone"}
  BY DEF Places, DoneFor
<1> QED
  BY <1>1, <1>2, <1>3

\* The terms under way or at work are those that the client chain holds.
LEMMA SameTerms ==
  ASSUME TypeOK, NEW d \in Accounts, Trace(d), cOrders[d] # NoOrder
  PROVE  /\ \A i \in OrdersUnderWay(d) : OfferedIn(ToService[i]) = TermsOf(cOrders[d])
         /\ sOrders[d] # NoOrder => TermsOf(sOrders[d]) = TermsOf(cOrders[d])
<1>1. ASSUME NEW i \in OrdersUnderWay(d)
      PROVE  OfferedIn(ToService[i]) = TermsOf(cOrders[d])
  <2>1. ToService[i] \in Among(ToService) \cap OrdersFor(d)
    BY UnderWay DEF Places, Among
  <2>2. ToService[i] = OrderOf(cOrders[d], d)
    BY <2>1 DEF Trace, Good
  <2> QED
    BY <2>2 DEF OrderOf, NewOrderMsg, SentOrder, OfferedIn, TermsOf
<1>2. ASSUME sOrders[d] # NoOrder
      PROVE  TermsOf(sOrders[d]) = TermsOf(cOrders[d])
  <2>1. sOrders[d] = [cOrders[d] EXCEPT !.paraid = ClientPara]
    BY <1>2 DEF Trace, Good
  <2>2. cOrders[d] \in Client!Order({Client!Unset})
    BY DEF TypeOK, Client!TypeOK
  <2> QED
    BY <2>1, <2>2 DEF Client!Order, TermsOf
<1> QED
  BY <1>1, <1>2

LEMMA JobsAreCounted == TraceInv => JobsCounted
<1> SUFFICES ASSUME TraceInv, NEW d \in Accounts PROVE Job(d) = JobOf(d)
  BY DEF JobsCounted
<1>1. TypeOK
  BY DEF TraceInv
<1>2. CASE d \in cancelled
  BY <1>2 DEF Job, JobOf, Remote!Withdrawn
<1>3. CASE d \notin cancelled /\ cOrders[d] = NoOrder
  BY <1>3 DEF Job, JobOf, Remote!Free, Client!IsOpen
<1>4. CASE d \notin cancelled /\ cOrders[d] # NoOrder
  <2> DEFINE offered == ToService[CHOOSE i \in OrdersUnderWay(d) : TRUE]
  <2>1. Trace(d)
    BY <1>4 DEF TraceInv
  <2>2. OrdersUnderWay(d) # {} => OfferedIn(offered) = TermsOf(cOrders[d])
    BY <1>1, <1>4, <2>1, SameTerms
  <2>3. sOrders[d] # NoOrder => TermsOf(sOrders[d]) = TermsOf(cOrders[d])
    BY <1>1, <1>4, <2>1, SameTerms
  <2>4. JobOf(d) = JobAt(cOrders[d], Stage(d))
    BY <1>4 DEF JobOf
  <2>5. Stage(d) = IF OrdersUnderWay(d) # {} THEN "offered"
                   ELSE IF Service!IsOpen(d) THEN "taken"
                   ELSE IF VerdictsUnderWay(d) = {} THEN "stranded"
                   ELSE IF \E i \in VerdictsUnderWay(d) : ToClient[i].kind = "OrderDone"
                     THEN "done"
                   ELSE "rejected"
    BY <1>1, StageCounted DEF Stage, StageOf, Service!IsOpen
  <2>6. /\ Stage(d) = "offered" => OrdersUnderWay(d) # {}
        /\ Stage(d) = "taken" => sOrders[d] # NoOrder
    BY <2>5 DEF Service!IsOpen
  <2>7. Job(d) = [stage |-> Stage(d), held |-> TermsOf(cOrders[d]),
                  offer |-> CASE Stage(d) = "offered" -> OfferedIn(offered)
                              [] Stage(d) = "taken" -> TermsOf(sOrders[d])
                              [] OTHER -> NoOrder]
    BY <1>4, <2>5, Zenon DEF Job, Client!IsOpen
  <2> HIDE DEF offered
  <2>8. CASE Stage(d) = "offered"
    BY <2>2, <2>4, <2>6, <2>7, <2>8 DEF JobAt
  <2>9. CASE Stage(d) = "taken"
    BY <2>3, <2>4, <2>6, <2>7, <2>9 DEF JobAt
  <2>10. CASE Stage(d) \notin {"offered", "taken"}
    BY <2>4, <2>7, <2>10 DEF JobAt
  <2> QED
    BY <2>8, <2>9, <2>10
<1> QED
  BY <1>2, <1>3, <1>4

LEMMA JobsAreCountedNext == TraceInv' => JobsCounted'
<1>1. TraceInv => JobsCounted
  BY JobsAreCounted
<1> QED
  BY <1>1, PTL

\* What a good trace leaves of the counts.
LEMMA TraceCounts ==
  ASSUME TypeOK, NEW d, Trace(d)
  PROVE  LET n == Count(ToService, OrdersFor(d))
             k == Count(ToClient, VerdictsFor(d))
         IN  /\ n \in Nat /\ k \in Nat
             /\ n + k + (IF sOrders[d] # NoOrder THEN 1 ELSE 0) <= 1
             /\ cOrders[d] = NoOrder => n = 0 /\ k = 0 /\ sOrders[d] = NoOrder
             /\ k = 0 => Count(ToClient, DoneFor(d)) = 0
<1>1. /\ Count(ToService, OrdersFor(d)) \in Nat /\ Count(ToClient, VerdictsFor(d)) \in Nat
  BY Channels, PlacesFinite
<1>2. cOrders[d] = NoOrder =>
        /\ Count(ToService, OrdersFor(d)) = 0 /\ Count(ToClient, VerdictsFor(d)) = 0
        /\ sOrders[d] = NoOrder
  BY Channels, NoTrace DEF Trace
<1>3. Count(ToClient, VerdictsFor(d)) = 0 => Count(ToClient, DoneFor(d)) = 0
  <2>1. DoneFor(d) \subseteq VerdictsFor(d)
    BY DEF DoneFor
  <2> QED
    BY <2>1, Channels, CountNone
<1> QED
  BY <1>1, <1>2, <1>3 DEF Trace, Good

\* Messages of no interest to d leave its job where it is.
LEMMA VerdictsKept ==
  ASSUME TypeOK, NEW d, Irrelevant(ToClient, ToClient', VerdictsFor(d), VerdictMsg)
  PROVE  /\ Count(ToClient', VerdictsFor(d)) = Count(ToClient, VerdictsFor(d))
         /\ Count(ToClient', DoneFor(d)) = Count(ToClient, DoneFor(d))
<1>1. Irrelevant(ToClient, ToClient', DoneFor(d), VerdictMsg)
  BY DEF Irrelevant, DoneFor
<1> QED
  BY <1>1, Channels, IrrelevantKeeps

LEMMA StageKept ==
  ASSUME TypeOK, NEW d, sOrders'[d] = sOrders[d],
         Irrelevant(ToService, ToService', OrdersFor(d), Client!SentMsg),
         Irrelevant(ToClient, ToClient', VerdictsFor(d), VerdictMsg)
  PROVE  Stage(d)' = Stage(d)
<1>1. Count(ToService', OrdersFor(d)) = Count(ToService, OrdersFor(d))
  BY Channels, IrrelevantKeeps
<1> QED
  BY <1>1, VerdictsKept DEF Stage

LEMMA JobKept ==
  ASSUME TraceInv, TraceInv', NEW d \in Accounts,
         cOrders'[d] = cOrders[d], d \in cancelled' <=> d \in cancelled,
         d \in cancelled \/ Stage(d)' = Stage(d)
  PROVE  Job(d)' = Job(d)
<1>1. Job(d) = JobOf(d) /\ Job(d)' = JobOf(d)'
  BY JobsAreCounted, JobsAreCountedNext DEF JobsCounted
<1>2. JobOf(d)' = JobOf(d)
  BY DEF JobOf, Remote!Withdrawn, Remote!Free
<1> QED
  BY <1>1, <1>2

RemoteStep == [Remote!Next]_(Remote!vars)

LEMMA JobsKept ==
  ASSUME \A d \in Accounts : Job(d)' = Job(d), UNCHANGED now \/ now' > now
  PROVE  RemoteStep
<1>1. [d \in Accounts |-> Job(d)]' = [d \in Accounts |-> Job(d)]
  OBVIOUS
<1> QED
  BY <1>1 DEF RemoteStep, Remote!vars, Remote!Next, Remote!Tick

LEMMA JobMoves ==
  ASSUME NEW d \in Accounts, \A x \in Accounts \ {d} : Job(x)' = Job(x), UNCHANGED now
  PROVE  Remote!Become(d, Job(d)')
<1>1. [x \in Accounts |-> Job(x)]' = [[x \in Accounts |-> Job(x)] EXCEPT ![d] = Job(d)']
  OBVIOUS
<1> QED
  BY <1>1 DEF Remote!Become

LEMMA OrderMovesJob ==
  ASSUME TraceInv, TraceInv', [Next]_vars,
         NEW who \in Accounts, NEW base \in OrderBase, ClientOrder(who, base)
  PROVE  RemoteStep
<1> DEFINE d == base.device
           terms == [client |-> who, fee |-> base.fee, until |-> base.until]
<1>1. /\ d \in Accounts /\ now < base.until /\ cOrders[d] = NoOrder
      /\ cOrders' = [cOrders EXCEPT ![d] = StoredOrder(base, who, 0)]
      /\ UNCHANGED <<now, sOrders, sOutbox>> /\ TypeOK /\ TypeOK'
  BY DEF ClientOrder, Client!OrderCall, Client!OrderUnsent, Client!OrderStored,
     Client!Acceptable, Client!IsOpen, Client!StoredOrder, StoredOrder, Client!Unset,
     serviceVars, OrderBase, TraceInv
<1>2. cancelled' = IF Traces(d) = 0 THEN cancelled \ {d} ELSE cancelled
  BY DEF ClientOrder
<1>3. terms \in Remote!Terms
  BY DEF OrderBase, Remote!Terms
<1>4. cOrders'[d] = StoredOrder(base, who, 0) /\ TermsOf(cOrders'[d]) = terms
  BY <1>1 DEF TypeOK, Client!TypeOK, TermsOf, StoredOrder
<1> HIDE DEF d, terms
<1>5. ASSUME NEW x \in Accounts \ {d}
      PROVE  Job(x)' = Job(x)
  <2>1. cOrders'[x] = cOrders[x] /\ (x \in cancelled' <=> x \in cancelled)
    BY <1>1, <1>2 DEF TypeOK, Client!TypeOK
  <2>2. Irrelevant(ToService, ToService', OrdersFor(x), Client!SentMsg)
    BY <1>1, <2>1, ClientCallTrace DEF ClientActing
  <2>3. Stage(x)' = Stage(x)
    BY <1>1, <2>2, StageKept DEF ToClient, Irrelevant
  <2> QED
    BY <2>1, <2>3, JobKept
<1>6. Job(d) = JobOf(d) /\ Job(d)' = JobOf(d)'
  BY <1>1, JobsAreCounted, JobsAreCountedNext DEF JobsCounted
<1>7. CASE d \in cancelled'
  <2>1. d \in cancelled
    BY <1>2, <1>7
  <2>2. Job(d)' = Job(d)
    BY <1>6, <1>7, <2>1 DEF JobOf, Remote!Withdrawn
  <2> QED
    BY <1>1, <1>5, <2>2, JobsKept
<1>8. CASE d \notin cancelled'
  <2>1. Trace(d) /\ Trace(d)'
    BY <1>1, <1>8, BeginsAfresh DEF TraceInv
  <2>2. sOrders'[d] = NoOrder /\ Count(ToClient', VerdictsFor(d)) = 0
    BY <1>1, <2>1, TraceCounts DEF ToClient
  <2>3. Stage(d)' \in {"offered", "stranded"}
    BY <2>2 DEF Stage, StageOf
  <2>4. Job(d) \in {Remote!Free, Remote!Withdrawn}
    BY <1>1, <1>6 DEF JobOf
  <2>5. cOrders'[d] # NoOrder
    <3>1. StoredOrder(base, who, 0) \in Order({Client!Unset, ClientPara, ServicePara})
      BY DEF StoredOrder, Order, OrderBase, Client!Unset
    <3> QED
      BY <1>4, <3>1, CrossAssumption
  <2>6. Job(d)' = JobAt(cOrders'[d], Stage(d)')
    BY <1>6, <1>8, <2>5 DEF JobOf
  <2>7. \/ Job(d)' = [stage |-> "offered", held |-> terms, offer |-> terms]
        \/ Job(d)' = Remote!Stranded(terms)
    BY <1>4, <2>3, <2>6 DEF JobAt, Remote!Stranded
  <2>8. Remote!Become(d, Job(d)')
    BY <1>1, <1>5, JobMoves
  <2>9. now < terms.until
    BY <1>1 DEF terms
  <2>10. Remote!Place(d, terms)
    BY <1>1, <2>4, <2>7, <2>8, <2>9 DEF Remote!Place
  <2> QED
    BY <1>1, <1>3, <2>10 DEF RemoteStep, Remote!Next
<1> QED
  BY <1>7, <1>8

LEMMA CancelMovesJob ==
  ASSUME TraceInv, TraceInv', NEW who \in Accounts, NEW d \in Accounts, ClientCancel(who, d)
  PROVE  RemoteStep
<1>1. /\ cOrders' = [cOrders EXCEPT ![d] = NoOrder] /\ cOrders[d] # NoOrder
      /\ now >= cOrders[d].until /\ TypeOK /\ TypeOK' /\ cOrders'[d] = NoOrder
      /\ UNCHANGED <<now, cOutbox, sOrders, sOutbox>>
  BY DEF ClientCancel, Client!Cancel, Client!OrderReject, Client!IsOpen, serviceVars,
     TraceInv, TypeOK, Client!TypeOK
<1>2. cancelled' = IF Traces(d) = 0 THEN cancelled ELSE cancelled \cup {d}
  BY DEF ClientCancel
<1>3. ASSUME NEW x \in Accounts \ {d}
      PROVE  Job(x)' = Job(x)
  <2>1. cOrders'[x] = cOrders[x] /\ (x \in cancelled' <=> x \in cancelled)
    BY <1>1, <1>2 DEF TypeOK, Client!TypeOK
  <2>2. Stage(x)' = Stage(x)
    BY <1>1, StageKept DEF ToClient, ToService, Irrelevant
  <2> QED
    BY <2>1, <2>2, JobKept
<1>4. Job(d) = JobOf(d) /\ Job(d)' = JobOf(d)'
  BY JobsAreCounted, JobsAreCountedNext DEF JobsCounted
<1>5. CASE d \in cancelled
  <2>1. Job(d)' = Job(d)
    BY <1>2, <1>4, <1>5 DEF JobOf, Remote!Withdrawn
  <2> QED
    BY <1>1, <1>3, <2>1, JobsKept
<1>6. CASE d \notin cancelled
  <2>1. Trace(d)
    BY <1>6 DEF TraceInv
  <2>2. Traces(d) = 0 <=> Stage(d) = "stranded"
    BY <1>1, NoTraces DEF Stage, StageOf
  <2>3. Job(d) = JobAt(cOrders[d], Stage(d))
    BY <1>1, <1>4, <1>6 DEF JobOf
  <2>4. Job(d)' = IF Job(d).stage = "stranded" THEN Remote!Free ELSE Remote!Withdrawn
    BY <1>1, <1>2, <1>4, <1>6, <2>2, <2>3 DEF JobOf, JobAt
  <2>5. now >= Job(d).held.until
    BY <1>1, <2>3 DEF JobAt, TermsOf
  <2>6. Job(d).stage \notin {"free", "withdrawn"}
    BY <2>3 DEF JobAt, Stage, StageOf
  <2>7. Remote!Become(d, Job(d)')
    BY <1>1, <1>3, JobMoves
  <2>8. Remote!Withdraw(d)
    BY <2>4, <2>5, <2>6, <2>7
    DEF Remote!Withdraw, Remote!Late, Remote!Free, Remote!Withdrawn
  <2> QED
    BY <2>8 DEF RemoteStep, Remote!Next
<1> QED
  BY <1>5, <1>6

\* A call on the service chain ends the order of one device at most.
LEMMA ServiceCallOne ==
  ASSUME TypeOK, ServiceCall
  PROVE  UNCHANGED now /\ \E id \in Accounts : \A d \in Accounts \ {id} : sOrders'[d] = sOrders[d]
<1>1. ASSUME NEW id \in Accounts,
             \/ UNCHANGED sOrders
             \/ sOrders' = [sOrders EXCEPT ![id] = NoOrder]
      PROVE  \A d \in Accounts \ {id} : sOrders'[d] = sOrders[d]
  BY <1>1 DEF TypeOK, Service!TypeOK
<1>2. ASSUME NEW id \in Accounts, Service!DeviceStep(id)
      PROVE  /\ UNCHANGED now
             /\ UNCHANGED sOrders \/ sOrders' = [sOrders EXCEPT ![id] = NoOrder]
  BY <1>2 DEF Service!DeviceStep, Service!Reject, Service!OrderReject, Service!Done,
     Service!DoneLocal, Service!DoneStranding, Service!DoneRemote, Service!DoneUnreported,
     Service!DoneBegins, Service!SetState, Service!Accept
<1>3. ASSUME NEW id \in Registrants, NEW pen \in Penalties, NEW w \in Durations,
             NEW onoff \in BOOLEAN, Service!Register(id, pen, w, onoff)
      PROVE  UNCHANGED <<now, sOrders>> /\ id \in Accounts
  BY <1>3, CrossAssumption DEF Service!Register
<1>4. ASSUME NEW who \in Accounts, NEW id \in Accounts, Service!Cancel(who, id)
      PROVE  UNCHANGED now /\ sOrders' = [sOrders EXCEPT ![id] = NoOrder]
  BY <1>4 DEF Service!Cancel, Service!OrderReject
<1> QED
  BY <1>1, <1>2, <1>3, <1>4 DEF ServiceCall

LEMMA ServiceMovesJob ==
  ASSUME TraceInv, TraceInv', ServiceCall
  PROVE  RemoteStep
<1>1. /\ TypeOK /\ TypeOK'
      /\ UNCHANGED <<cOrders, cOutbox, cancelled>> /\ ToService' = ToService
  BY DEF TraceInv, ServiceCall, clientVars, history, ToService
<1>2. UNCHANGED now
  BY <1>1, ServiceCallOne
<1>3. PICK d \in Accounts : \A x \in Accounts \ {d} : sOrders'[x] = sOrders[x]
  BY <1>1, ServiceCallOne
<1>4. ASSUME NEW x \in Accounts, sOrders'[x] = sOrders[x]
      PROVE  Job(x)' = Job(x)
  <2>1. Irrelevant(ToClient, ToClient', VerdictsFor(x), VerdictMsg)
    BY <1>1, <1>4, ServiceCallTrace
  <2>2. Stage(x)' = Stage(x)
    BY <1>1, <1>4, <2>1, StageKept DEF Irrelevant
  <2> QED
    BY <1>1, <2>2, JobKept
<1>5. CASE Job(d)' = Job(d)
  BY <1>2, <1>3, <1>4, <1>5, JobsKept
<1>6. CASE Job(d)' # Job(d)
  <2>1. d \notin cancelled
    BY <1>1, <1>6, JobKept
  <2>2. sOrders[d] # NoOrder /\ sOrders'[d] = NoOrder
    BY <1>1, <1>4, <1>6, ServiceCallTrace
  <2>3. Trace(d)
    BY <2>1 DEF TraceInv
  <2>4. Count(ToService, OrdersFor(d)) = 0 /\ cOrders[d] # NoOrder
    BY <1>1, <2>2, <2>3, TraceCounts
  <2>5. Job(d) = JobOf(d) /\ Job(d)' = JobOf(d)'
    BY JobsAreCounted, JobsAreCountedNext DEF JobsCounted
  <2>6. Job(d) = JobAt(cOrders[d], "taken") /\ Job(d)' = JobAt(cOrders[d], Stage(d)')
    BY <1>1, <2>1, <2>2, <2>4, <2>5 DEF JobOf, Stage, StageOf
  <2>7. Stage(d)' \in {"stranded", "done", "rejected"}
    BY <1>1, <2>2, <2>4 DEF Stage, StageOf
  <2>8. Remote!Become(d, Job(d)')
    BY <1>2, <1>3, <1>4, JobMoves
  <2>9. CASE Stage(d)' = "stranded"
    <3>1. Remote!GoUnreported(d)
      BY <2>6, <2>8, <2>9 DEF Remote!GoUnreported, Remote!Stranded, JobAt
    <3> QED
      BY <3>1 DEF RemoteStep, Remote!Next
  <2>10. CASE Stage(d)' \in {"done", "rejected"}
    <3>1. Remote!Report(d, Stage(d)')
      BY <2>6, <2>8, <2>10 DEF Remote!Report, JobAt
    <3> QED
      BY <2>10, <3>1 DEF RemoteStep, Remote!Next
  <2> QED
    BY <2>7, <2>9, <2>10
<1> QED
  BY <1>5, <1>6

LEMMA ArrivalMovesJob ==
  ASSUME TraceInv, TraceInv', DeliverOrder
  PROVE  RemoteStep
<1> DEFINE m == Head(ToService)
<1>1. TypeOK /\ TypeOK' /\ UNCHANGED cancelled
  BY DEF TraceInv, DeliverOrder, history
<1>2. CASE Accounts = {}
  BY <1>2, JobsKept DEF DeliverOrder, Client!Carry
<1>3. ASSUME NEW x \in Accounts
      PROVE  /\ ToService # <<>> /\ ToService' = Tail(ToService) /\ UNCHANGED <<cOrders, now>>
             /\ Count(ToClient', VerdictsFor(x)) = Count(ToClient, VerdictsFor(x))
             /\ Count(ToClient', DoneFor(x)) = Count(ToClient, DoneFor(x))
             /\ sOrders'[x] = sOrders[x] \/ (m \in OrdersFor(x) /\ now < m.order.until)
             /\ Count(ToService, OrdersFor(x))
                  = Count(ToService', OrdersFor(x)) + IF m \in OrdersFor(x) THEN 1 ELSE 0
             /\ Count(ToService', OrdersFor(x)) \in Nat
  <2>1. /\ ToService # <<>> /\ ToService' = Tail(ToService) /\ UNCHANGED <<cOrders, now>>
        /\ Irrelevant(ToClient, ToClient', VerdictsFor(x), VerdictMsg)
        /\ sOrders'[x] = sOrders[x] \/ (m \in OrdersFor(x) /\ now < m.order.until)
    BY <1>1, DeliverOrderTrace
  <2> HIDE DEF m
  <2>2. /\ Count(ToClient', VerdictsFor(x)) = Count(ToClient, VerdictsFor(x))
        /\ Count(ToClient', DoneFor(x)) = Count(ToClient, DoneFor(x))
    BY <1>1, <2>1, VerdictsKept
  <2>3. /\ Count(ToService, OrdersFor(x))
             = Count(ToService', OrdersFor(x)) + IF m \in OrdersFor(x) THEN 1 ELSE 0
        /\ Count(ToService', OrdersFor(x)) \in Nat
    BY <1>1, <2>1, Channels, CountTail DEF m
  <2> QED
    BY <2>1, <2>2, <2>3
<1>4. ASSUME NEW x \in Accounts, m \notin OrdersFor(x)
      PROVE  Job(x)' = Job(x)
  <2>1. Stage(x)' = Stage(x)
    BY <1>3, <1>4 DEF Stage
  <2> QED
    BY <1>1, <1>3, <2>1, JobKept
<1>5. ASSUME NEW d \in Accounts, m \in OrdersFor(d)
      PROVE  RemoteStep
  <2>1. ASSUME NEW x \in Accounts \ {d}
        PROVE  Job(x)' = Job(x)
    <3>1. m \notin OrdersFor(x)
      BY <1>5, <2>1 DEF OrdersFor
    <3> QED
      BY <1>4, <3>1
  <2>2. CASE d \in cancelled
    BY <1>1, <1>3, <2>1, <2>2, JobKept, JobsKept
  <2>3. CASE d \notin cancelled
    <3>1. Trace(d)
      BY <2>3 DEF TraceInv
    <3>2. /\ Count(ToService, OrdersFor(d)) # 0 /\ Count(ToService', OrdersFor(d)) = 0
          /\ Count(ToClient', VerdictsFor(d)) = 0
          /\ cOrders[d] # NoOrder /\ cOrders'[d] = cOrders[d]
      BY <1>1, <1>3, <1>5, <3>1, TraceCounts
    <3>3. Job(d) = JobOf(d) /\ Job(d)' = JobOf(d)'
      BY JobsAreCounted, JobsAreCountedNext DEF JobsCounted
    <3>4. Job(d) = JobAt(cOrders[d], "offered")
      BY <2>3, <3>2, <3>3 DEF JobOf, Stage, StageOf
    <3>5. Job(d)' = JobAt(cOrders[d], IF sOrders'[d] # NoOrder THEN "taken" ELSE "stranded")
      BY <1>1, <2>3, <3>2, <3>3 DEF JobOf, Stage, StageOf
    <3>6. Remote!Become(d, Job(d)')
      BY <1>3, <2>1, JobMoves
    <3>7. CASE sOrders'[d] = NoOrder
      <4>1. Remote!Refuse(d)
        BY <3>4, <3>5, <3>6, <3>7 DEF Remote!Refuse, Remote!Stranded, JobAt
      <4> QED
        BY <4>1 DEF RemoteStep, Remote!Next
    <3>8. CASE sOrders'[d] # NoOrder
      <4>1. sOrders[d] = NoOrder
        BY <1>1, <3>1, <3>2, TraceCounts
      <4>2. now < m.order.until
        BY <1>3, <3>8, <4>1
      <4>3. m = OrderOf(cOrders[d], d)
        <5>1. m \in Among(ToService)
          BY <1>1, <1>3, Channels, CountTail
        <5> QED
          BY <1>5, <3>1, <5>1 DEF Trace, Good
      <4> HIDE DEF m
      <4>4. m.order.until = cOrders[d].until
        BY <4>3 DEF OrderOf, NewOrderMsg, SentOrder
      <4>5. Remote!Take(d)
        BY <3>4, <3>5, <3>6, <3>8, <4>2, <4>4 DEF Remote!Take, JobAt, TermsOf
      <4> QED
        BY <4>5 DEF RemoteStep, Remote!Next
    <3> QED
      BY <3>7, <3>8
  <2> QED
    BY <2>2, <2>3
<1>6. CASE Accounts # {} /\ \A x \in Accounts : m \notin OrdersFor(x)
  BY <1>3, <1>4, <1>6, JobsKept
<1> QED
  BY <1>2, <1>5, <1>6

\* A rejection finds its device registered, so that only a late collateral it
\* cannot pay out keeps it from settling the order.
LEMMA OnlyLateSticks ==
  ASSUME ClientKnown, DeliverVerdict, NEW d \in Accounts,
         Head(ToClient) \in VerdictsFor(d), Head(ToClient).kind = "OrderReject",
         cOrders[d] # NoOrder, cOrders'[d] # NoOrder
  PROVE  now >= cOrders[d].until
<1> DEFINE m == Head(ToClient)
<1>1. m.device = d /\ m.kind = "OrderReject" /\ Client!HandleBlobMessage(m)
  BY DEF VerdictsFor, Settles, DeliverVerdict
<1>2. cDevices[d] # NoDevice /\ TypeOK
  BY DEF ClientKnown, Client!OrderedDevicesKnown, Client!IsOpen
<1> HIDE DEF m
<1>3. Client!HasEffect(m)
  BY <1>1, <1>2 DEF Client!HasEffect, Client!Known, Client!IsOpen
<1>4. \/ Client!OnReject(m.client, d, m.onoff)
      \/ Client!OnRejectStuck(m.client, d)
  BY <1>1, <1>3 DEF Client!HandleBlobMessage, Client!Verdict
<1>5. ~Client!OnReject(m.client, d, m.onoff)
  BY <1>2 DEF Client!OnReject, Client!OrderReject, TypeOK, Client!TypeOK
<1>6. ~(now < cOrders[d].until)
  BY <1>4, <1>5 DEF Client!OnRejectStuck, Client!CollateralPayable
<1>7. cOrders[d].until \in Nat /\ now \in Nat
  BY <1>2, InputsAssumption DEF TypeOK, Client!TypeOK, Client!Order
<1> QED
  BY <1>6, <1>7

LEMMA VerdictMovesJob ==
  ASSUME TraceInv, TraceInv', ClientKnown, DeliverVerdict
  PROVE  RemoteStep
<1> DEFINE m == Head(ToClient)
<1>1. TypeOK /\ TypeOK' /\ UNCHANGED cancelled
  BY DEF TraceInv, DeliverVerdict
<1>2. CASE Accounts = {}
  BY <1>2, JobsKept DEF DeliverVerdict, Service!Carry
<1>3. ASSUME NEW x \in Accounts
      PROVE  /\ ToClient # <<>> /\ ToClient' = Tail(ToClient)
             /\ UNCHANGED <<sOrders, now>> /\ ToService' = ToService
             /\ cOrders'[x] = cOrders[x] \/ (m \in VerdictsFor(x) /\ cOrders'[x] = NoOrder)
  BY <1>1, DeliverVerdictTrace DEF ToService
<1>4. ASSUME NEW x \in Accounts, NEW S
      PROVE  /\ Count(ToClient, S) = Count(ToClient', S) + IF m \in S THEN 1 ELSE 0
             /\ Count(ToClient', S) \in Nat
  <2>1. ToClient # <<>> /\ ToClient' = Tail(ToClient) /\ ToClient \in Seq(VerdictMsg)
    BY <1>1, <1>3, Channels
  <2> QED
    BY <2>1, CountTail
<1>5. ASSUME NEW x \in Accounts, m \notin VerdictsFor(x)
      PROVE  Job(x)' = Job(x)
  <2>1. m \notin DoneFor(x)
    BY <1>5 DEF DoneFor
  <2>2. /\ Count(ToClient', VerdictsFor(x)) = Count(ToClient, VerdictsFor(x))
        /\ Count(ToClient', DoneFor(x)) = Count(ToClient, DoneFor(x))
    BY <1>4, <1>5, <2>1
  <2>3. Stage(x)' = Stage(x)
    BY <1>3, <2>2 DEF Stage
  <2> QED
    BY <1>1, <1>3, <1>5, <2>3, JobKept
<1>6. ASSUME NEW d \in Accounts, m \in VerdictsFor(d)
      PROVE  RemoteStep
  <2>1. ASSUME NEW x \in Accounts \ {d}
        PROVE  Job(x)' = Job(x)
    <3>1. m \notin VerdictsFor(x)
      BY <1>6, <2>1 DEF VerdictsFor, Settles
    <3> QED
      BY <1>5, <3>1
  <2>2. CASE Job(d)' = Job(d)
    BY <1>3, <2>1, <2>2, JobsKept
  <2>3. CASE Job(d)' # Job(d)
    <3>1. d \notin cancelled
      <4> SUFFICES ASSUME d \in cancelled PROVE FALSE
        OBVIOUS
      <4>1. Job(d) = JobOf(d) /\ Job(d)' = JobOf(d)'
        BY JobsAreCounted, JobsAreCountedNext DEF JobsCounted
      <4> QED
        BY <1>1, <2>3, <4>1 DEF JobOf, Remote!Withdrawn
    <3>2. Trace(d)
      BY <3>1 DEF TraceInv
    <3>3. /\ Count(ToService, OrdersFor(d)) = 0 /\ sOrders[d] = NoOrder
          /\ Count(ToClient, VerdictsFor(d)) # 0 /\ Count(ToClient', VerdictsFor(d)) = 0
          /\ cOrders[d] # NoOrder
      BY <1>1, <1>4, <1>6, <3>2, TraceCounts
    <3>4. Count(ToClient', DoneFor(d)) = 0
      <4>1. DoneFor(d) \subseteq VerdictsFor(d) /\ ToClient' \in Seq(VerdictMsg)
        BY <1>1, <1>3, Channels, CountTail DEF DoneFor
      <4> QED
        BY <3>3, <4>1, CountNone
    <3>5. Count(ToClient, DoneFor(d)) # 0 <=> m.kind = "OrderDone"
      BY <1>4, <1>6, <3>4 DEF DoneFor
    <3>6. Stage(d) = IF m.kind = "OrderDone" THEN "done" ELSE "rejected"
      BY <3>3, <3>5 DEF Stage, StageOf
    <3>7. Stage(d)' = "stranded"
      BY <1>3, <3>3 DEF Stage, StageOf
    <3>8. Job(d) = JobOf(d) /\ Job(d)' = JobOf(d)'
      BY JobsAreCounted, JobsAreCountedNext DEF JobsCounted
    <3>9. /\ Job(d) = JobAt(cOrders[d], Stage(d))
          /\ Job(d)' = IF cOrders'[d] = NoOrder THEN Remote!Free
                       ELSE JobAt(cOrders[d], "stranded")
      BY <1>1, <1>3, <3>1, <3>3, <3>7, <3>8 DEF JobOf
    <3>10. Remote!Become(d, Job(d)')
      BY <1>3, <2>1, JobMoves
    <3>11. CASE cOrders'[d] = NoOrder
      <4>1. Remote!Settle(d)
        BY <3>6, <3>9, <3>10, <3>11 DEF Remote!Settle, JobAt
      <4> QED
        BY <4>1 DEF RemoteStep, Remote!Next
    <3>12. CASE cOrders'[d] # NoOrder
      <4>1. m.kind = "OrderDone" \/ (m.kind = "OrderReject" /\ now >= cOrders[d].until)
        BY <1>6, <3>3, <3>12, OnlyLateSticks DEF VerdictsFor, Settles
      <4>2. Remote!Stick(d)
        BY <3>6, <3>9, <3>10, <3>12, <4>1
        DEF Remote!Stick, Remote!Late, Remote!Stranded, JobAt, TermsOf
      <4> QED
        BY <4>2 DEF RemoteStep, Remote!Next
    <3> QED
      BY <3>11, <3>12
  <2> QED
    BY <2>2, <2>3
<1>7. CASE Accounts # {} /\ \A x \in Accounts : m \notin VerdictsFor(x)
  BY <1>3, <1>5, <1>7, JobsKept
<1> QED
  BY <1>2, <1>6, <1>7

LEMMA JobInit == Init => Remote!Init
<1> SUFFICES ASSUME Init PROVE Remote!Init
  OBVIOUS
<1>1. \A d \in Accounts : Job(d) = JobOf(d)
  BY TraceInit, JobsAreCounted DEF JobsCounted
<1>2. /\ cancelled = {} /\ now = 0
      /\ cOrders = [x \in Accounts |-> NoOrder]
  BY DEF Init, Client!Init
<1>3. \A d \in Accounts : Job(d) = Remote!Free
  BY <1>1, <1>2 DEF JobOf
<1> QED
  BY <1>2, <1>3 DEF Remote!Init

LEMMA EveryStepMovesOneJob ==
  ASSUME TraceInv, TraceInv', ClientKnown, [Next]_vars
  PROVE  RemoteStep
<1>1. ASSUME UNCHANGED <<cOrders, cOutbox, sOrders, sOutbox, cancelled>>,
             UNCHANGED now \/ now' > now
      PROVE  RemoteStep
  <2>1. TypeOK
    BY DEF TraceInv
  <2>2. \A d \in Accounts : Stage(d)' = Stage(d)
    BY <1>1, <2>1, StageKept DEF ToService, ToClient, Irrelevant
  <2> QED
    BY <1>1, <2>2, JobKept, JobsKept
<1>2. CASE ClientCall
  BY <1>1, <1>2 DEF ClientCall, Client!OrderStranding, Client!Register,
     Client!TransferFunds, serviceVars, history
<1>3. CASE NextBlock
  <2>1. now \in Nat
    BY DEF TraceInv, TypeOK, Client!TypeOK
  <2> QED
    BY <1>1, <1>3, <2>1 DEF NextBlock, Client!NextBlock, serviceVars, history
<1>4. CASE OpenChannels
  BY <1>1, <1>4 DEF OpenChannels, Client!OpenChannel, Service!OpenChannel, clientVars,
     serviceVars, history
<1>5. CASE UNCHANGED vars
  BY <1>1, <1>5 DEF vars, clientVars, serviceVars, history
<1> QED
  BY <1>2, <1>3, <1>4, <1>5, OrderMovesJob, CancelMovesJob, ServiceMovesJob,
     ArrivalMovesJob, VerdictMovesJob DEF Next

\* The two chains, their channels and their handlers implement one job for
\* each device: every step of either chain moves at most one job, by one
\* stage, on the terms the client's funds are held for.
THEOREM RemoteOrderImplemented == Spec => ImplementsRemoteOrder
<1> DEFINE Inv == TraceInv /\ ClientKnown
<1>1. Init => Inv /\ Remote!Init
  BY TraceInit, KnownInit, JobInit
<1>2. Inv /\ [Next]_vars => Inv'
  BY TraceStep, KnownStep
<1>3. Inv /\ Inv' /\ [Next]_vars => [Remote!Next]_(Remote!vars)
  BY EveryStepMovesOneJob DEF RemoteStep
<1> HIDE DEF Inv
<1> QED
  BY <1>1, <1>2, <1>3, PTL DEF Spec, ImplementsRemoteOrder, Remote!Spec

=============================================================================

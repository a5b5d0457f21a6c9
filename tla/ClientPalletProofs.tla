------------------------- MODULE ClientPalletProofs --------------------------
(***************************************************************************)
(* Proofs about ClientPallet, for every value of its constants.            *)
(***************************************************************************)
EXTENDS ClientPallet, LedgerProofs

ProfileTable == [Accounts -> DeviceProfile \cup {NoDevice}]

OrderTable == [Accounts -> Order({Unset}) \cup {NoOrder}]

Sent == [Paras -> Seq(SentMsg)]

(***************************************************************************)
(* The shared state changes keep their variables in type.                  *)
(***************************************************************************)

LEMMA StateTypes ==
  /\ \A onoff \in BOOLEAN : IdleState(onoff) \in {"Ready", "Off"}
  /\ {"Ready", "Off", "Busy", "Busy2"} \subseteq DeviceState
BY DEF DeviceState, IdleState

LEMMA WithStateType ==
  ASSUME TypeOK, NEW d \in Accounts, devices[d] # NoDevice, NEW st \in DeviceState
  PROVE  WithState(d, st) \in ProfileTable
BY DEF TypeOK, WithState, DeviceProfile, ProfileTable

LEMMA SendType ==
  ASSUME TypeOK, NEW p \in Paras, NEW m \in SentMsg, Send(p, m)
  PROVE  outbox' \in Sent
<1>1. outbox \in Sent /\ outbox' = [outbox EXCEPT ![p] = Append(outbox[p], m)]
  BY DEF TypeOK, Sent, Send
<1>2. outbox[p] \in Seq(SentMsg)
  BY <1>1 DEF Sent
<1>3. Append(outbox[p], m) \in Seq(SentMsg)
  BY <1>2
<1> QED
  BY <1>1, <1>3 DEF Sent

\* A device whose profile is known, and the amounts of a known order.
LEMMA KnownDevice ==
  ASSUME TypeOK, NEW d \in Accounts, devices[d] # NoDevice
  PROVE  /\ devices[d] \in DeviceProfile
         /\ devices[d].penalty \in Nat /\ devices[d].penalty \in Penalties
         /\ devices[d].paraid \in Paras
BY AmountTypes DEF TypeOK, DeviceProfile, Paras

LEMMA KnownOrder ==
  ASSUME TypeOK, NEW d \in Accounts, IsOpen(d)
  PROVE  /\ orders[d] \in Order({Unset})
         /\ orders[d].fee \in Nat /\ orders[d].fee <= MaxBalance /\ orders[d].fee \in Fees
         /\ orders[d].until \in Nat
         /\ orders[d].client \in Accounts
BY AmountTypes DEF TypeOK, IsOpen, Order

LEMMA StoredOrderType ==
  ASSUME NEW base \in OrderBase, NEW who \in Accounts
  PROVE  /\ StoredOrder(base, who, Unset) \in Order({Unset})
         /\ StoredOrder(base, who, Unset) # NoOrder
         /\ base.device \in Accounts
         /\ base.fee \in Nat /\ base.fee <= MaxBalance
BY ClientAssumption, AmountTypes DEF OrderBase, StoredOrder, Order

\* What is sent of an order is a message of the fixed shape.
LEMMA SentOrderType ==
  ASSUME NEW base \in OrderBase, NEW who \in Accounts
  PROVE  /\ SentOrder(StoredOrder(base, who, Unset), base.device) = base
         /\ NewOrderMsg(who, SentOrder(StoredOrder(base, who, Unset), base.device))
              \in OrderMsg
<1>1. SentOrder(StoredOrder(base, who, Unset), base.device) = base
  BY DEF OrderBase, StoredOrder, SentOrder
<1> QED
  BY <1>1 DEF NewOrderMsg, OrderMsg

LEMMA OrderStoredType ==
  ASSUME TypeOK, NEW who \in Accounts, NEW base \in OrderBase, OrderStored(who, base)
  PROVE  /\ devices[base.device] # NoDevice
         /\ CollateralReserved(base) \in Ledgers
         /\ ledger' \in Ledgers
         /\ orders' \in OrderTable
<1>1. base.device \in Accounts /\ base.fee \in Nat
  BY StoredOrderType
<1>2. /\ devices[base.device] # NoDevice
      /\ CanReserve(ledger, base.device, devices[base.device].penalty)
  BY DEF OrderStored, Acceptable
<1>3. devices[base.device].penalty \in Nat
  BY <1>1, <1>2, KnownDevice
<1>4. CollateralReserved(base) \in Ledgers
  BY <1>1, <1>2, <1>3, ReserveType DEF CollateralReserved, TypeOK, Ledgers
<1>5. ledger' \in Ledgers
  BY <1>1, <1>4, ReserveType DEF OrderStored
<1>6. orders' \in OrderTable
  BY <1>1, StoredOrderType DEF OrderStored, OrderTable, TypeOK
<1> QED
  BY <1>2, <1>4, <1>5, <1>6

LEMMA RefundedType ==
  ASSUME TypeOK, NEW who \in Accounts, NEW d \in Accounts, IsOpen(d)
  PROVE  FeeRefunded(who, d) \in Ledgers /\ FeePaid(who, d) \in Ledgers
BY KnownOrder, UnreserveType, RepatriateType DEF FeeRefunded, FeePaid, TypeOK, Ledgers

LEMMA CollateralReturnedType ==
  ASSUME TypeOK, NEW l \in Ledgers, NEW d \in Accounts, NEW to \in Accounts,
         devices[d] # NoDevice, IsOpen(d)
  PROVE  CollateralReturned(l, d, to) \in Ledgers
BY KnownDevice, KnownOrder, UnreserveType, RepatriateType DEF CollateralReturned

\* An order that is settled, by cancel or by a verdict.
LEMMA OrderRejectType ==
  ASSUME TypeOK, NEW who \in Accounts, NEW d \in Accounts, IsOpen(d),
         devices[d] # NoDevice, NEW st \in DeviceState, OrderReject(who, d, st),
         UNCHANGED <<now, open, outbox>>
  PROVE  TypeOK'
<1>1. orders[d].client \in Accounts
  BY KnownOrder
<1>2. ledger' \in Ledgers
  BY <1>1, RefundedType, CollateralReturnedType DEF OrderReject
<1>3. orders' \in OrderTable
  BY DEF OrderReject, OrderTable, TypeOK
<1>4. devices' \in ProfileTable
  BY WithStateType DEF OrderReject
<1> QED
  BY <1>2, <1>3, <1>4 DEF TypeOK, Ledgers, OrderTable, ProfileTable

(***************************************************************************)
(* Type correctness, action by action.                                     *)
(***************************************************************************)

LEMMA TypeInit == Init => TypeOK
BY ClientAssumption DEF Init, TypeOK, Account

LEMMA VerdictParts ==
  ASSUME NEW msg \in VerdictMsg
  PROVE  /\ msg.client \in Accounts /\ msg.device \in Accounts
         /\ msg.kind \in {"OrderReject", "OrderDone"} => msg.onoff \in BOOLEAN
BY DEF VerdictMsg

LEMMA VerdictType ==
  ASSUME TypeOK, NEW msg \in VerdictMsg, Verdict(msg)
  PROVE  TypeOK'
<1> DEFINE who == msg.client
           d == msg.device
<1>1. who \in Accounts /\ d \in Accounts
  BY VerdictParts
<1>2. IsOpen(d) /\ devices[d] # NoDevice
  BY DEF Verdict, OnReject, OnRejectStuck, OnDone, OnDoneStuck, Known
<1>3. CASE msg.kind = "OrderReject" /\ OnReject(who, d, msg.onoff)
  BY <1>1, <1>2, <1>3, VerdictParts, StateTypes, OrderRejectType DEF OnReject
<1>4. CASE OnRejectStuck(who, d)
  BY <1>1, <1>2, <1>4, RefundedType DEF OnRejectStuck, TypeOK, Ledgers
<1>5. CASE msg.kind = "OrderDone" /\ OnDone(who, d, msg.onoff)
  <2>1. ledger' \in Ledgers
    BY <1>1, <1>2, <1>5, RefundedType, CollateralReturnedType DEF OnDone
  <2>2. devices' \in ProfileTable
    BY <1>1, <1>2, <1>5, VerdictParts, StateTypes, WithStateType DEF OnDone
  <2> QED
    BY <1>5, <2>1, <2>2 DEF OnDone, TypeOK, Ledgers, ProfileTable
<1>6. CASE OnDoneStuck(who, d)
  BY <1>1, <1>2, <1>6, RefundedType DEF OnDoneStuck, TypeOK, Ledgers
<1> QED
  BY <1>3, <1>4, <1>5, <1>6 DEF Verdict

LEMMA TypeStep == TypeOK /\ [Next]_vars => TypeOK'
<1> SUFFICES ASSUME TypeOK, [Next]_vars PROVE TypeOK'
  OBVIOUS
<1>1. ASSUME NEW who \in Accounts, NEW base \in OrderBase, OrderCall(who, base)
      PROVE  TypeOK'
  <2>1. OrderStored(who, base) /\ base.device \in Accounts
    BY <1>1, StoredOrderType DEF OrderCall
  <2>2. devices' \in ProfileTable
    BY <1>1, <2>1, OrderStoredType, WithStateType, StateTypes DEF OrderCall
  <2>3. outbox' \in Sent
    <3>1. devices[base.device].paraid \in Paras
      BY <2>1, OrderStoredType, KnownDevice
    <3>2. NewOrderMsg(who, SentOrder(StoredOrder(base, who, Unset), base.device)) \in SentMsg
      BY SentOrderType DEF SentMsg
    <3> QED
      BY <1>1, <3>1, <3>2, SendType DEF OrderCall
  <2> QED
    BY <1>1, <2>1, <2>2, <2>3, OrderStoredType
    DEF OrderCall, TypeOK, Ledgers, OrderTable, ProfileTable, Sent
<1>2. ASSUME NEW who \in Accounts, NEW base \in OrderBase, OrderUnsent(who, base)
      PROVE  TypeOK'
  BY <1>2, OrderStoredType DEF OrderUnsent, TypeOK, Ledgers, OrderTable
<1>3. ASSUME NEW who \in Accounts, NEW base \in OrderBase, OrderStranding(who, base)
      PROVE  TypeOK'
  <2>1. base.device \in Accounts /\ devices[base.device] # NoDevice
    BY <1>3, StoredOrderType DEF OrderStranding, Acceptable
  <2>2. devices[base.device].penalty \in Nat
    BY <2>1, KnownDevice
  <2>3. ledger' \in Ledgers
    BY <1>3, <2>1, <2>2, ReserveType
    DEF OrderStranding, Acceptable, CollateralReserved, TypeOK, Ledgers
  <2> QED
    BY <1>3, <2>3 DEF OrderStranding, TypeOK, Ledgers
<1>4. ASSUME NEW who \in Accounts, NEW d \in Accounts, Cancel(who, d)
      PROVE  TypeOK'
  <2>1. devices[d] # NoDevice /\ devices[d].state \in DeviceState
    BY <1>4, KnownDevice DEF Cancel, DeviceProfile
  <2> QED
    BY <1>4, <2>1, OrderRejectType DEF Cancel
<1>5. ASSUME NEW id \in Registrants, NEW p \in DeviceParas, NEW pen \in Penalties,
             NEW w \in Durations, NEW onoff \in BOOLEAN, Register(id, p, pen, w, onoff)
      PROVE  TypeOK'
  <2>1. id \in Accounts
    BY ClientAssumption
  <2>2. [state |-> IdleState(onoff), penalty |-> pen, wcd |-> w, paraid |-> p]
          \in DeviceProfile
    BY StateTypes DEF DeviceProfile
  <2> QED
    BY <1>5, <2>1, <2>2 DEF Register, TypeOK
<1>6. CASE Test
  <2>1. outbox' \in Sent
    BY <1>6, SendType DEF Test, Paras, SentMsg
  <2> QED
    BY <1>6, <2>1 DEF Test, TypeOK, Sent
<1>7. CASE MessageStep
  BY <1>7, VerdictType DEF MessageStep
<1>8. ASSUME NEW from \in Accounts, NEW to \in Accounts, TransferFunds(from, to)
      PROVE  TypeOK'
  <2>1. PICK v \in 1 .. ledger[from].free :
          CanTransfer(ledger, from, to, v) /\ ledger' = Transfer(ledger, from, to, v)
    BY <1>8 DEF TransferFunds
  <2>2. v \in Nat
    BY <2>1 DEF TypeOK, Account
  <2>3. ledger' \in Ledgers
    BY <2>1, <2>2, TransferType DEF TypeOK, Ledgers
  <2> QED
    BY <1>8, <2>3 DEF TransferFunds, TypeOK, Ledgers
<1>9. CASE NextBlock
  <2>1. now' \in Nat
    BY <1>9 DEF NextBlock, TypeOK
  <2> QED
    BY <1>9, <2>1 DEF NextBlock, TypeOK
<1>10. ASSUME NEW p \in Paras, OpenChannel(p)
       PROVE  TypeOK'
  <2>1. open' \in SUBSET Paras
    BY <1>10 DEF OpenChannel, TypeOK
  <2> QED
    BY <1>10, <2>1 DEF OpenChannel, TypeOK
<1>11. ASSUME NEW p \in Paras, Carry(p)
       PROVE  TypeOK'
  <2>1. outbox[p] \in Seq(SentMsg) /\ outbox[p] # <<>>
    BY <1>11 DEF Carry, TypeOK
  <2>2. Tail(outbox[p]) \in Seq(SentMsg)
    BY <2>1
  <2> QED
    BY <1>11, <2>2 DEF Carry, TypeOK
<1>12. CASE UNCHANGED vars
  BY <1>12 DEF vars, TypeOK
<1> QED
  BY <1>1, <1>2, <1>3, <1>4, <1>5, <1>6, <1>7, <1>8, <1>9, <1>10, <1>11, <1>12
  DEF Next, CallStep, ChainStep

\* Type correctness: no call and no verdict, whoever sent it and whatever
\* order it is for, leaves a balance negative, a profile in an undeclared
\* state or something in the channel that is neither an order nor the two
\* bytes of `test`.
THEOREM TypeCorrect == Spec => []TypeOK
<1>1. Init => TypeOK
  BY TypeInit
<1>2. TypeOK /\ [Next]_vars => TypeOK'
  BY TypeStep
<1> QED
  BY <1>1, <1>2, PTL DEF Spec

(***************************************************************************)
(* A device with an open order is registered, and Busy or still Ready.     *)
(***************************************************************************)

KnownInv == TypeOK /\ OrderedDevicesKnown

LEMMA KnownWithout ==
  ASSUME KnownInv, NEW d \in Accounts, orders' = [orders EXCEPT ![d] = NoOrder],
         \A x \in Accounts \ {d} : devices'[x] = devices[x]
  PROVE  OrderedDevicesKnown'
<1> SUFFICES ASSUME NEW x \in Accounts, orders'[x] # NoOrder
             PROVE  devices'[x] # NoDevice /\ devices'[x].state \in {"Busy", "Ready"}
  BY DEF OrderedDevicesKnown, IsOpen
<1>1. x # d /\ orders[x] # NoOrder /\ devices'[x] = devices[x]
  BY DEF KnownInv, TypeOK
<1> QED
  BY <1>1 DEF KnownInv, OrderedDevicesKnown, IsOpen

LEMMA KnownStored ==
  ASSUME KnownInv, NEW who \in Accounts, NEW base \in OrderBase, OrderStored(who, base),
         NEW st \in {"Busy", "Ready"}, devices' = WithState(base.device, st)
  PROVE  OrderedDevicesKnown'
<1> DEFINE d == base.device
<1>0. TypeOK /\ d \in Accounts
  BY StoredOrderType DEF KnownInv
<1>1. devices[d] \in DeviceProfile
  BY <1>0, KnownDevice DEF OrderStored, Acceptable
<1>2. st \in DeviceState
  BY DEF DeviceState
<1>3. devices'[d] = [devices[d] EXCEPT !.state = st]
  BY <1>0 DEF WithState, TypeOK
<1>4. devices'[d] \in DeviceProfile /\ devices'[d].state = st
  BY <1>1, <1>2, <1>3 DEF DeviceProfile
<1>5. \A x \in Accounts \ {d} : devices'[x] = devices[x] /\ orders'[x] = orders[x]
  BY <1>0 DEF WithState, OrderStored, TypeOK
<1> QED
  BY <1>4, <1>5, ClientAssumption DEF KnownInv, OrderedDevicesKnown, IsOpen

LEMMA KnownStep == KnownInv /\ [Next]_vars => OrderedDevicesKnown'
<1> SUFFICES ASSUME KnownInv, [Next]_vars PROVE OrderedDevicesKnown'
  OBVIOUS
<1>0. TypeOK
  BY DEF KnownInv
<1>1. ASSUME NEW who \in Accounts, NEW base \in OrderBase, OrderCall(who, base)
      PROVE  OrderedDevicesKnown'
  BY <1>1, KnownStored DEF OrderCall
<1>2. ASSUME NEW who \in Accounts, NEW base \in OrderBase, OrderUnsent(who, base)
      PROVE  OrderedDevicesKnown'
  <2> DEFINE d == base.device
  <2>1. OrderStored(who, base) /\ d \in Accounts /\ devices' = devices
    BY <1>2, StoredOrderType DEF OrderUnsent
  <2>2. devices[d] # NoDevice /\ devices[d].state = "Ready"
    BY <2>1 DEF OrderStored, Acceptable
  <2>3. \A x \in Accounts \ {d} : orders'[x] = orders[x]
    BY <1>0, <2>1 DEF OrderStored, TypeOK
  <2> QED
    BY <2>1, <2>2, <2>3 DEF KnownInv, OrderedDevicesKnown, IsOpen
<1>3. ASSUME NEW who \in Accounts, NEW d \in Accounts, Cancel(who, d)
      PROVE  OrderedDevicesKnown'
  BY <1>0, <1>3, KnownWithout DEF Cancel, OrderReject, WithState, TypeOK
<1>4. ASSUME NEW id \in Registrants, NEW p \in DeviceParas, NEW pen \in Penalties,
             NEW w \in Durations, NEW onoff \in BOOLEAN, Register(id, p, pen, w, onoff)
      PROVE  OrderedDevicesKnown'
  <2>1. /\ orders' = orders /\ orders[id] = NoOrder
        /\ \A x \in Accounts \ {id} : devices'[x] = devices[x]
    BY <1>0, <1>4 DEF Register, IsOpen, TypeOK
  <2> QED
    BY <2>1 DEF KnownInv, OrderedDevicesKnown, IsOpen
<1>5. CASE UNCHANGED <<devices, orders>>
  BY <1>5 DEF KnownInv, OrderedDevicesKnown, IsOpen
<1>6. ASSUME NEW msg \in VerdictMsg, Verdict(msg)
      PROVE  OrderedDevicesKnown'
  <2>1. msg.device \in Accounts
    BY VerdictParts
  <2>2. CASE OnReject(msg.client, msg.device, msg.onoff)
    BY <1>0, <2>1, <2>2, KnownWithout DEF OnReject, OrderReject, WithState, TypeOK
  <2>3. CASE OnDone(msg.client, msg.device, msg.onoff)
    BY <1>0, <2>1, <2>3, KnownWithout DEF OnDone, WithState, TypeOK
  <2>4. CASE OnRejectStuck(msg.client, msg.device) \/ OnDoneStuck(msg.client, msg.device)
    BY <1>5, <2>4 DEF OnRejectStuck, OnDoneStuck
  <2> QED
    BY <1>6, <2>2, <2>3, <2>4 DEF Verdict
<1>7. ASSUME NEW who \in Accounts, NEW base \in OrderBase, OrderStranding(who, base)
      PROVE  OrderedDevicesKnown'
  BY <1>5, <1>7 DEF OrderStranding
<1>8. CASE Test \/ ChainStep \/ UNCHANGED vars
  BY <1>5, <1>8 DEF Test, ChainStep, TransferFunds, NextBlock, OpenChannel, Carry, vars
<1> QED
  BY <1>1, <1>2, <1>3, <1>4, <1>6, <1>7, <1>8 DEF Next, CallStep, MessageStep

LEMMA KnownInvariant == Spec => []KnownInv
<1>1. Init => KnownInv
  BY TypeInit DEF Init, KnownInv, OrderedDevicesKnown, IsOpen
<1>2. KnownInv /\ [Next]_vars => KnownInv'
  BY TypeStep, KnownStep DEF KnownInv
<1> QED
  BY <1>1, <1>2, PTL DEF Spec

\* Whatever calls and verdicts come in between, the profile of a device with
\* an open order stays known, so that cancel and the verdicts can settle the
\* order; and the device is Busy, or Ready if the order was never sent.
THEOREM OrderedDevicesRegistered == Spec => []OrderedDevicesKnown
<1>1. KnownInv => OrderedDevicesKnown
  BY DEF KnownInv
<1> QED
  BY <1>1, KnownInvariant, PTL

(***************************************************************************)
(* What is sent is what is stored.                                         *)
(***************************************************************************)

\* What SentAsStored says of one parachain.
SentTo(p) ==
  Len(outbox'[p]) > Len(outbox[p]) /\ outbox'[p][Len(outbox'[p])] # Undecodable
    => LET m == outbox'[p][Len(outbox'[p])]
           d == m.order.device
       IN  /\ ~IsOpen(d) /\ devices'[d].state = "Busy"
           /\ orders'[d] = StoredOrder(m.order, m.client, Unset)
           /\ p = devices'[d].paraid

LEMMA Appended ==
  ASSUME TypeOK, NEW p \in Paras, NEW q \in Paras, NEW m \in SentMsg, Send(q, m),
         Len(outbox'[p]) > Len(outbox[p])
  PROVE  p = q /\ outbox'[p][Len(outbox'[p])] = m
<1>1. outbox[p] \in Seq(SentMsg) /\ Len(outbox[p]) \in Nat
  BY DEF TypeOK
<1>2. outbox' = [outbox EXCEPT ![q] = Append(outbox[q], m)] /\ DOMAIN outbox = Paras
  BY DEF Send, TypeOK
<1>3. p = q
  BY <1>1, <1>2
<1>4. outbox'[p] = Append(outbox[p], m)
  BY <1>2, <1>3
<1>5. /\ Len(Append(outbox[p], m)) = Len(outbox[p]) + 1
      /\ Append(outbox[p], m)[Len(outbox[p]) + 1] = m
  BY <1>1
<1> QED
  BY <1>3, <1>4, <1>5

LEMMA SentOrdered ==
  ASSUME TypeOK, NEW p \in Paras, NEW who \in Accounts, NEW base \in OrderBase,
         OrderCall(who, base)
  PROVE  SentTo(p)
<1> DEFINE d == base.device
           m == NewOrderMsg(who, SentOrder(StoredOrder(base, who, Unset), d))
<1>1. /\ OrderStored(who, base) /\ Send(devices[d].paraid, m)
      /\ devices' = WithState(d, "Busy")
  BY DEF OrderCall
<1>2. d \in Accounts /\ m \in SentMsg /\ m.order = base /\ m.client = who
  BY StoredOrderType, SentOrderType DEF SentMsg, NewOrderMsg
<1>3. devices[d] \in DeviceProfile /\ devices[d].paraid \in Paras
  BY <1>1, <1>2, OrderStoredType, KnownDevice
<1>4. devices'[d] = [devices[d] EXCEPT !.state = "Busy"]
  BY <1>1, <1>2 DEF WithState, TypeOK
<1>5. devices'[d].state = "Busy" /\ devices'[d].paraid = devices[d].paraid
  BY <1>3, <1>4 DEF DeviceProfile
<1>6. ~IsOpen(d) /\ orders'[d] = StoredOrder(base, who, Unset)
  BY <1>1, <1>2 DEF OrderStored, Acceptable, TypeOK
<1> HIDE DEF m
<1>7. ASSUME Len(outbox'[p]) > Len(outbox[p])
      PROVE  p = devices[d].paraid /\ outbox'[p][Len(outbox'[p])] = m
  BY <1>1, <1>2, <1>3, <1>7, Appended
<1> QED
  BY <1>2, <1>5, <1>6, <1>7 DEF SentTo

LEMMA SentStep ==
  ASSUME TypeOK, [Next]_vars, NEW p \in Paras
  PROVE  SentTo(p)
<1>1. outbox[p] \in Seq(SentMsg) /\ Len(outbox[p]) \in Nat
  BY DEF TypeOK
<1>2. CASE UNCHANGED outbox
  BY <1>1, <1>2 DEF SentTo
<1>3. ASSUME NEW who \in Accounts, NEW base \in OrderBase, OrderCall(who, base)
      PROVE  SentTo(p)
  BY <1>3, SentOrdered
<1>4. CASE Test
  <2>1. Send(TestPara, Undecodable) /\ TestPara \in Paras /\ Undecodable \in SentMsg
    BY <1>4 DEF Test, Paras, SentMsg
  <2> QED
    BY <2>1, Appended DEF SentTo
<1>5. ASSUME NEW q \in Paras, Carry(q)
      PROVE  SentTo(p)
  <2>1. outbox' = [outbox EXCEPT ![q] = Tail(outbox[q])] /\ outbox[q] # <<>>
    BY <1>5 DEF Carry
  <2>2. CASE p = q
    <3>1. outbox'[p] = Tail(outbox[p])
      BY <2>1, <2>2 DEF TypeOK
    <3>2. Len(Tail(outbox[p])) = Len(outbox[p]) - 1
      BY <1>1, <2>1, <2>2
    <3> QED
      BY <1>1, <3>1, <3>2 DEF SentTo
  <2>3. CASE p # q
    <3>1. outbox'[p] = outbox[p]
      BY <2>1, <2>3 DEF TypeOK
    <3> QED
      BY <1>1, <3>1 DEF SentTo
  <2> QED BY <2>2, <2>3
<1>6. ASSUME NEW who \in Accounts, NEW base \in OrderBase,
             OrderUnsent(who, base) \/ OrderStranding(who, base)
      PROVE  SentTo(p)
  BY <1>2, <1>6 DEF OrderUnsent, OrderStranding
<1>7. ASSUME NEW id \in Registrants, NEW q \in DeviceParas, NEW pen \in Penalties,
             NEW w \in Durations, NEW onoff \in BOOLEAN, Register(id, q, pen, w, onoff)
      PROVE  SentTo(p)
  BY <1>2, <1>7 DEF Register
<1>8. ASSUME NEW who \in Accounts, NEW d \in Accounts, Cancel(who, d)
      PROVE  SentTo(p)
  BY <1>2, <1>8 DEF Cancel
<1>9. CASE MessageStep
  BY <1>2, <1>9 DEF MessageStep, Verdict, OnReject, OnRejectStuck, OnDone, OnDoneStuck
<1>10. ASSUME NEW from \in Accounts, NEW to \in Accounts, TransferFunds(from, to)
       PROVE  SentTo(p)
  BY <1>2, <1>10 DEF TransferFunds
<1>11. CASE NextBlock \/ (\E q \in Paras : OpenChannel(q)) \/ UNCHANGED vars
  BY <1>2, <1>11 DEF NextBlock, OpenChannel, vars
<1> QED
  BY <1>3, <1>4, <1>5, <1>6, <1>7, <1>8, <1>9, <1>10, <1>11 DEF Next, CallStep, ChainStep

\* A NewOrder is queued only in the step that stores its order, takes the
\* device from free to Busy and is addressed to that device's parachain; the
\* terms that travel are the terms stored.
THEOREM OrdersSentAsStored == Spec => SentAsStored
<1>1. TypeOK /\ [Next]_vars
        => [\A p \in Paras :
              Len(outbox'[p]) > Len(outbox[p]) /\ outbox'[p][Len(outbox'[p])] # Undecodable
                => LET m == outbox'[p][Len(outbox'[p])]
                       d == m.order.device
                   IN  /\ ~IsOpen(d) /\ devices'[d].state = "Busy"
                       /\ orders'[d] = StoredOrder(m.order, m.client, Unset)
                       /\ p = devices'[d].paraid]_vars
  BY SentStep DEF SentTo
<1> QED
  BY <1>1, TypeCorrect, PTL DEF Spec, SentAsStored

(***************************************************************************)
(* What the orders of a table hold.                                        *)
(***************************************************************************)

\* What order o holds of the funds of its client x.
FeeOf(o, x) == IF o # NoOrder /\ o.client = x THEN o.fee ELSE 0

FeesOf(ords, x) == [d \in Accounts |-> FeeOf(ords[d], x)]

HeldCollateral(devs, ords, x) == IF ords[x] # NoOrder THEN devs[x].penalty ELSE 0

HeldIn(devs, ords, x) ==
  Cardinality(Units(FeesOf(ords, x))) + HeldCollateral(devs, ords, x)

LEMMA TableOrder ==
  ASSUME NEW o \in Order({Unset}) \cup {NoOrder}, NEW x
  PROVE  FeeOf(o, x) \in 0 .. MaxBalance /\ FeeOf(o, x) \in Nat
BY AmountTypes DEF FeeOf, Order

LEMMA FeesType ==
  ASSUME NEW ords \in OrderTable, NEW x
  PROVE  /\ FeesOf(ords, x) \in FeeTable
         /\ Cardinality(Units(FeesOf(ords, x))) \in Nat
<1>1. FeesOf(ords, x) \in FeeTable
  BY TableOrder DEF FeesOf, FeeTable, OrderTable
<1> QED
  BY <1>1, UnitsFinite, ClientAssumption

LEMMA FeeUnitsAre ==
  ASSUME NEW ords \in OrderTable, NEW x
  PROVE  {u \in Accounts \X (1 .. MaxBalance) :
            ords[u[1]] # NoOrder /\ ords[u[1]].client = x /\ u[2] <= ords[u[1]].fee}
           = Units(FeesOf(ords, x))
<1>1. ASSUME NEW u \in Accounts \X (1 .. MaxBalance)
      PROVE  u[2] <= FeesOf(ords, x)[u[1]]
               <=> /\ ords[u[1]] # NoOrder /\ ords[u[1]].client = x
                   /\ u[2] <= ords[u[1]].fee
  <2>1. u[1] \in Accounts /\ u[2] \in 1 .. MaxBalance /\ MaxBalance \in Nat
    BY AmountTypes
  <2>2. FeesOf(ords, x)[u[1]] = FeeOf(ords[u[1]], x)
    BY <2>1 DEF FeesOf
  <2> QED
    BY <2>1, <2>2 DEF FeeOf
<1> QED
  BY <1>1 DEF Units

LEMMA HeldIs ==
  ASSUME TypeOK, NEW x \in Accounts
  PROVE  Held(x) = HeldIn(devices, orders, x)
<1>1. orders \in OrderTable
  BY DEF TypeOK, OrderTable
<1>2. FeeUnits(x) = Units(FeesOf(orders, x))
  BY <1>1, FeeUnitsAre DEF FeeUnits, IsOpen
<1> QED
  BY <1>2 DEF Held, HeldIn, HeldCollateral, IsOpen

LEMMA HeldIsNext ==
  ASSUME TypeOK', NEW x \in Accounts
  PROVE  Held(x)' = HeldIn(devices', orders', x)
<1>1. orders' \in OrderTable
  BY DEF TypeOK, OrderTable
<1>2. FeeUnits(x)' = Units(FeesOf(orders', x))
  BY <1>1, FeeUnitsAre DEF FeeUnits, IsOpen
<1> QED
  BY <1>2 DEF Held, HeldIn, HeldCollateral, IsOpen

\* What order o at device d holds of x, when the collateral is c.
HoldOf(o, d, c, x) == FeeOf(o, x) + IF x = d /\ o # NoOrder THEN c ELSE 0

\* Storing an order where there was none adds its hold and nothing else.
LEMMA HeldInsert ==
  ASSUME NEW devs \in ProfileTable, NEW ords \in OrderTable,
         \A y \in Accounts : ords[y] # NoOrder => devs[y] # NoDevice,
         NEW d \in Accounts, ords[d] = NoOrder, devs[d] # NoDevice,
         NEW o \in Order({Unset}) \cup {NoOrder}, NEW x \in Accounts
  PROVE  /\ HoldOf(o, d, devs[d].penalty, x) \in Nat
         /\ HeldIn(devs, ords, x) \in Nat
         /\ HeldIn(devs, [ords EXCEPT ![d] = o], x)
              = HeldIn(devs, ords, x) + HoldOf(o, d, devs[d].penalty, x)
<1> DEFINE after == [ords EXCEPT ![d] = o]
           fees == FeesOf(ords, x)
<1>1. devs[d].penalty \in Nat
  BY AmountTypes DEF ProfileTable, DeviceProfile
<1>2. FeeOf(o, x) \in 0 .. MaxBalance /\ FeeOf(o, x) \in Nat
  BY TableOrder
<1>3. HeldCollateral(devs, ords, x) \in Nat
  BY AmountTypes DEF HeldCollateral, ProfileTable, DeviceProfile
<1>4. /\ fees \in FeeTable /\ fees[d] = 0
      /\ Cardinality(Units(fees)) \in Nat
  BY FeesType DEF FeesOf, FeeOf
<1>5. FeesOf(after, x) = [fees EXCEPT ![d] = FeeOf(o, x)]
  BY DEF FeesOf, OrderTable
<1>6. HeldCollateral(devs, after, x)
        = HeldCollateral(devs, ords, x) + IF x = d /\ o # NoOrder THEN devs[d].penalty ELSE 0
  <2>1. CASE x = d
    BY <1>1, <2>1 DEF HeldCollateral, OrderTable
  <2>2. CASE x # d
    BY <1>3, <2>2 DEF HeldCollateral, OrderTable
  <2> QED BY <2>1, <2>2
<1>7. HeldIn(devs, ords, x) = Cardinality(Units(fees)) + HeldCollateral(devs, ords, x)
  BY DEF HeldIn
<1>8. HeldIn(devs, after, x)
        = Cardinality(Units([fees EXCEPT ![d] = FeeOf(o, x)])) + HeldCollateral(devs, after, x)
  BY <1>5 DEF HeldIn
<1> HIDE DEF fees, after
<1>9. Cardinality(Units([fees EXCEPT ![d] = FeeOf(o, x)]))
        = Cardinality(Units(fees)) + FeeOf(o, x)
  BY <1>2, <1>4, UnitsInsert, ClientAssumption
<1>10. HoldOf(o, d, devs[d].penalty, x) \in Nat
  BY <1>1, <1>2 DEF HoldOf
<1>11. HeldIn(devs, after, x) = HeldIn(devs, ords, x) + HoldOf(o, d, devs[d].penalty, x)
  BY <1>1, <1>2, <1>3, <1>4, <1>6, <1>7, <1>8, <1>9 DEF HoldOf
<1>12. HeldIn(devs, ords, x) \in Nat
  BY <1>3, <1>4, <1>7
<1> QED
  BY <1>10, <1>11, <1>12 DEF after

\* Taking an order off the table releases its hold and nothing else.
LEMMA HeldRemove ==
  ASSUME NEW devs \in ProfileTable, NEW ords \in OrderTable,
         \A y \in Accounts : ords[y] # NoOrder => devs[y] # NoDevice,
         NEW d \in Accounts, devs[d] # NoDevice, NEW x \in Accounts
  PROVE  LET without == [ords EXCEPT ![d] = NoOrder]
         IN  /\ HoldOf(ords[d], d, devs[d].penalty, x) \in Nat
             /\ HeldIn(devs, without, x) \in Nat
             /\ HeldIn(devs, ords, x)
                  = HeldIn(devs, without, x) + HoldOf(ords[d], d, devs[d].penalty, x)
<1> DEFINE without == [ords EXCEPT ![d] = NoOrder]
<1>1. /\ without \in OrderTable /\ without[d] = NoOrder
      /\ \A y \in Accounts : without[y] # NoOrder => devs[y] # NoDevice
  BY DEF OrderTable
<1>2. [without EXCEPT ![d] = ords[d]] = ords
  BY DEF OrderTable
<1>3. ords[d] \in Order({Unset}) \cup {NoOrder}
  BY DEF OrderTable
<1> HIDE DEF without
<1>4. /\ HoldOf(ords[d], d, devs[d].penalty, x) \in Nat
      /\ HeldIn(devs, without, x) \in Nat
      /\ HeldIn(devs, [without EXCEPT ![d] = ords[d]], x)
           = HeldIn(devs, without, x) + HoldOf(ords[d], d, devs[d].penalty, x)
  BY <1>1, <1>3, HeldInsert
<1> QED
  BY <1>2, <1>4 DEF without

\* A change of profiles moves no hold if those of open orders keep their penalty.
LEMMA HeldSamePenalties ==
  ASSUME NEW devs, NEW devs2, NEW ords, NEW x \in Accounts,
         ords[x] # NoOrder => devs2[x].penalty = devs[x].penalty
  PROVE  HeldIn(devs2, ords, x) = HeldIn(devs, ords, x)
BY DEF HeldIn, HeldCollateral

LEMMA WithStatePenalty ==
  ASSUME TypeOK, NEW d \in Accounts, devices[d] # NoDevice, NEW st, NEW x \in Accounts
  PROVE  WithState(d, st)[x].penalty = devices[x].penalty
BY KnownDevice DEF TypeOK, WithState, DeviceProfile

LEMMA KnownTables ==
  ASSUME KnownInv
  PROVE  /\ devices \in ProfileTable /\ orders \in OrderTable
         /\ \A y \in Accounts : orders[y] # NoOrder => devices[y] # NoDevice
BY DEF KnownInv, TypeOK, ProfileTable, OrderTable, OrderedDevicesKnown, IsOpen

(***************************************************************************)
(* No verdict, cancel or order touches the holds of another order.         *)
(***************************************************************************)

\* What OthersHoldsUntouched says of one account.
Untouched(a) ==
  \/ Surplus(a) < 0
  \/ Surplus(a)' = Surplus(a)
  \/ ~Exists(ledger', a)
  \/ \E base \in OrderBase : OrderStranding(a, base)
  \/ \E msg \in VerdictMsg :
       Stray(msg) /\ a \in {msg.client, orders[msg.device].client}

LEMMA Amounts ==
  ASSUME KnownInv, NEW a \in Accounts
  PROVE  /\ ledger \in Ledgers /\ ledger[a].reserved \in Nat
         /\ HeldIn(devices, orders, a) \in Nat
         /\ Surplus(a) = ledger[a].reserved - HeldIn(devices, orders, a)
<1>1. TypeOK
  BY DEF KnownInv
<1>2. ledger \in Ledgers /\ ledger[a].reserved \in Nat
  BY <1>1 DEF TypeOK, Ledgers, Account
<1>3. HeldCollateral(devices, orders, a) \in Nat
  BY <1>1, KnownTables, KnownDevice DEF HeldCollateral
<1>4. HeldIn(devices, orders, a) \in Nat
  BY <1>3, KnownTables, FeesType DEF HeldIn
<1> QED
  BY <1>1, <1>2, <1>4, HeldIs DEF Surplus

\* A step that takes from the reserve what it takes from the holds.
LEMMA SurplusKept ==
  ASSUME KnownInv, TypeOK', NEW a \in Accounts, NEW h \in Int,
         HeldIn(devices', orders', a) = HeldIn(devices, orders, a) + h,
         ledger'[a].reserved = ledger[a].reserved + h
  PROVE  Surplus(a)' = Surplus(a)
<1>1. Surplus(a)' = ledger'[a].reserved - HeldIn(devices', orders', a)
  BY HeldIsNext DEF Surplus
<1> QED
  BY <1>1, Amounts

LEMMA SurplusUnmoved ==
  ASSUME KnownInv, TypeOK', NEW a \in Accounts, orders' = orders,
         orders[a] # NoOrder => devices'[a].penalty = devices[a].penalty,
         ledger'[a].reserved = ledger[a].reserved
  PROVE  Surplus(a)' = Surplus(a)
<1>1. HeldIn(devices', orders', a) = HeldIn(devices, orders, a)
  BY HeldSamePenalties
<1>2. HeldIn(devices', orders', a) = HeldIn(devices, orders, a) + 0
  BY <1>1, Amounts
<1>3. ledger'[a].reserved = ledger[a].reserved + 0
  BY Amounts
<1> QED
  BY <1>2, <1>3, SurplusKept

(***************************************************************************)
(* A new order.                                                            *)
(***************************************************************************)

LEMMA UntouchedStored ==
  ASSUME KnownInv, TypeOK', NEW a \in Accounts, NEW who \in Accounts, NEW base \in OrderBase,
         OrderStored(who, base),
         \A x \in Accounts : devices'[x].penalty = devices[x].penalty
  PROVE  Surplus(a)' = Surplus(a)
<1> DEFINE d == base.device
           pen == devices[d].penalty
           o == StoredOrder(base, who, Unset)
           first == CollateralReserved(base)
<1>1. TypeOK /\ d \in Accounts /\ base.fee \in Nat
  BY StoredOrderType DEF KnownInv
<1>2. devices[d] # NoDevice /\ orders[d] = NoOrder /\ orders' = [orders EXCEPT ![d] = o]
  BY DEF OrderStored, Acceptable, IsOpen
<1>3. pen \in Nat
  BY <1>1, <1>2, KnownDevice
<1>4. /\ HoldOf(o, d, pen, a) \in Nat
      /\ HeldIn(devices, [orders EXCEPT ![d] = o], a)
           = HeldIn(devices, orders, a) + HoldOf(o, d, pen, a)
  <2>1. o \in Order({Unset}) \cup {NoOrder}
    BY StoredOrderType
  <2> HIDE DEF o
  <2> QED
    BY <1>1, <1>2, <2>1, KnownTables, HeldInsert
<1>5. HeldIn(devices', orders', a) = HeldIn(devices, orders, a) + HoldOf(o, d, pen, a)
  BY <1>2, <1>4, HeldSamePenalties
<1>6. HoldOf(o, d, pen, a)
        = (IF a = who THEN base.fee ELSE 0) + (IF a = d THEN pen ELSE 0)
  BY StoredOrderType DEF HoldOf, FeeOf, StoredOrder
<1>7. first[a].reserved = ledger[a].reserved + IF a = d THEN pen ELSE 0
  BY <1>1, <1>3, Amounts DEF CollateralReserved, Reserve, Ledgers, Account
<1>8. ledger'[a].reserved = first[a].reserved + IF a = who THEN base.fee ELSE 0
  <2>1. first \in Ledgers /\ ledger' = Reserve(first, who, base.fee)
    BY <1>1, OrderStoredType DEF OrderStored
  <2> HIDE DEF first
  <2> QED
    BY <1>1, <2>1 DEF Reserve, Ledgers, Account
<1> HIDE DEF first, o, pen, d
<1>9. ledger'[a].reserved = ledger[a].reserved + HoldOf(o, d, pen, a)
  BY <1>1, <1>3, <1>6, <1>7, <1>8, Amounts
<1> QED
  BY <1>4, <1>5, <1>9, SurplusKept

\* The only order that strands is one a device places with itself.
LEMMA UntouchedStranding ==
  ASSUME KnownInv, TypeOK', NEW a \in Accounts, NEW who \in Accounts, NEW base \in OrderBase,
         OrderStranding(who, base), a # who
  PROVE  Surplus(a)' = Surplus(a)
<1> DEFINE d == base.device
<1>1. /\ d \in Accounts /\ CanReserve(ledger, who, base.fee)
      /\ ~CanReserve(Reserve(ledger, d, devices[d].penalty), who, base.fee)
  BY StoredOrderType DEF OrderStranding, Acceptable, CollateralReserved
<1>2. d = who
  BY <1>1, Amounts DEF CanReserve, Reserve, Ledgers
<1>3. ledger'[a] = ledger[a] /\ orders' = orders /\ devices' = devices
  BY <1>2, Amounts DEF OrderStranding, CollateralReserved, Reserve, Ledgers
<1> QED
  BY <1>3, SurplusUnmoved

(***************************************************************************)
(* A settlement.                                                           *)
(***************************************************************************)

\* Whom a call or verdict about d's order, naming who, confuses.
Confused(who, d) == IF who = orders[d].client THEN {} ELSE {who, orders[d].client}

\* The first half of a settlement takes the fee of its client, no more.
LEMMA FeeTaken ==
  ASSUME KnownInv, NEW a \in Accounts, NEW who \in Accounts, NEW d \in Accounts,
         IsOpen(d), a = who => orders[d].fee <= ledger[a].reserved,
         NEW mid \in {FeeRefunded(who, d), FeePaid(who, d)}
  PROVE  \/ mid[a].reserved = ledger[a].reserved - IF a = who THEN orders[d].fee ELSE 0
         \/ a = who /\ mid[a] = Empty
BY KnownOrder, Amounts, UnreserveTakes, RepatriateTakes DEF FeeRefunded, FeePaid, KnownInv

LEMMA HoldTaken ==
  ASSUME KnownInv, NEW a \in Accounts, NEW who \in Accounts, NEW d \in Accounts,
         NEW to \in Accounts, IsOpen(d), NEW mid \in {FeeRefunded(who, d), FeePaid(who, d)},
         CollateralPayable(mid, d, to), ledger' = CollateralReturned(mid, d, to),
         Surplus(a) >= 0, Exists(ledger', a), a \notin Confused(who, d)
  PROVE  ledger'[a].reserved
           = ledger[a].reserved - HoldOf(orders[d], d, devices[d].penalty, a)
<1> DEFINE pen == devices[d].penalty
           fee == orders[d].fee
           paid == IF a = who THEN fee ELSE 0
           due == IF a = d THEN pen ELSE 0
<1>1. TypeOK /\ devices[d] # NoDevice /\ orders[d] # NoOrder
  BY DEF KnownInv, OrderedDevicesKnown, IsOpen
<1>2. pen \in Nat /\ fee \in Nat /\ paid \in Nat /\ due \in Nat
  BY <1>1, KnownDevice, KnownOrder
<1>3. HoldOf(orders[d], d, pen, a) = paid + due
  BY <1>1, <1>2 DEF HoldOf, FeeOf, Confused
<1>4. paid + due <= ledger[a].reserved
  <2>1. /\ HeldIn(devices, [orders EXCEPT ![d] = NoOrder], a) \in Nat
        /\ HeldIn(devices, orders, a)
             = HeldIn(devices, [orders EXCEPT ![d] = NoOrder], a)
                 + HoldOf(orders[d], d, pen, a)
    BY <1>1, KnownTables, HeldRemove
  <2> QED
    BY <1>2, <1>3, <2>1, Amounts
<1>5. mid \in Ledgers
  BY <1>1, RefundedType
<1>6. mid[a] # Empty
  <2> SUFFICES ASSUME mid[a] = Empty PROVE FALSE
    OBVIOUS
  <2>1. Unreserve(mid, d, pen)[a] = Empty
    BY <1>2, <1>5, DeadStaysDead
  <2>2. CanRepatriate(mid, d, to, pen) => Repatriate(mid, d, to, pen)[a] = Empty
    BY <1>2, <1>5, DeadStaysDead
  <2>3. ledger'[a] = Empty
    BY <2>1, <2>2 DEF CollateralReturned, CollateralPayable
  <2> QED
    BY <2>3, DepositAssumption DEF Exists, Total, Empty
<1>7. mid[a].reserved = ledger[a].reserved - paid
  BY <1>2, <1>4, <1>6, FeeTaken, Amounts
<1>8. ledger'[a].reserved = mid[a].reserved - due
  <2>1. a = d => pen <= mid[a].reserved
    BY <1>2, <1>4, <1>7, Amounts
  <2>2. CASE now < orders[d].until
    BY <1>2, <1>5, <2>1, <2>2, UnreserveTakes DEF CollateralReturned
  <2>3. CASE ~(now < orders[d].until)
    <3>1. ledger' = Repatriate(mid, d, to, pen)
      BY <2>3 DEF CollateralReturned
    <3>2. ~(ledger'[a] = Empty)
      <4>1. Total(Empty) = 0
        BY DEF Total, Empty
      <4> QED
        BY <4>1, DepositAssumption DEF Exists
    <3> QED
      BY <1>2, <1>5, <2>1, <3>1, <3>2, RepatriateTakes
  <2> QED BY <2>2, <2>3
<1> HIDE DEF paid, due
<1>9. ledger'[a].reserved = ledger[a].reserved - (paid + due)
  BY <1>2, <1>7, <1>8, Amounts
<1> QED
  BY <1>3, <1>9

LEMMA UntouchedSettled ==
  ASSUME KnownInv, TypeOK', NEW a \in Accounts, NEW who \in Accounts, NEW d \in Accounts,
         NEW to \in Accounts, IsOpen(d), NEW mid \in {FeeRefunded(who, d), FeePaid(who, d)},
         CollateralPayable(mid, d, to), ledger' = CollateralReturned(mid, d, to),
         orders' = [orders EXCEPT ![d] = NoOrder],
         NEW st, devices' = WithState(d, st),
         Surplus(a) >= 0, Exists(ledger', a), a \notin Confused(who, d)
  PROVE  Surplus(a)' = Surplus(a)
<1> DEFINE hold == HoldOf(orders[d], d, devices[d].penalty, a)
<1>1. TypeOK /\ devices[d] # NoDevice
  BY DEF KnownInv, OrderedDevicesKnown
<1>2. /\ hold \in Nat
      /\ HeldIn(devices, [orders EXCEPT ![d] = NoOrder], a) \in Nat
      /\ HeldIn(devices, orders, a)
           = HeldIn(devices, [orders EXCEPT ![d] = NoOrder], a) + hold
  BY <1>1, KnownTables, HeldRemove
<1>3. HeldIn(devices', orders', a) = HeldIn(devices, [orders EXCEPT ![d] = NoOrder], a)
  BY <1>1, WithStatePenalty, HeldSamePenalties
<1>4. ledger'[a].reserved = ledger[a].reserved - hold
  BY HoldTaken
<1> HIDE DEF hold
<1>5. -hold \in Int /\ HeldIn(devices', orders', a) = HeldIn(devices, orders, a) + (-hold)
  BY <1>2, <1>3
<1>6. ledger'[a].reserved = ledger[a].reserved + (-hold)
  BY <1>2, <1>4, Amounts
<1> QED
  BY <1>5, <1>6, SurplusKept

\* A settlement that fails half way has only touched whom its message names.
LEMMA UntouchedStuck ==
  ASSUME KnownInv, TypeOK', NEW a \in Accounts, NEW who \in Accounts, NEW d \in Accounts,
         IsOpen(d), ledger' \in {FeeRefunded(who, d), FeePaid(who, d)},
         UNCHANGED <<devices, orders>>, a # who
  PROVE  Surplus(a)' = Surplus(a)
<1>1. ledger'[a].reserved = ledger[a].reserved - 0
  BY FeeTaken
<1>2. ledger'[a].reserved = ledger[a].reserved
  BY <1>1, Amounts
<1> QED
  BY <1>2, SurplusUnmoved

LEMMA UntouchedVerdict ==
  ASSUME KnownInv, TypeOK', NEW a \in Accounts, NEW msg \in VerdictMsg, Verdict(msg)
  PROVE  Untouched(a)
<1> DEFINE who == msg.client
           d == msg.device
<1>1. who \in Accounts /\ d \in Accounts
  BY VerdictParts
<1>2. Known(d) /\ IsOpen(d)
  BY DEF Verdict, OnReject, OnRejectStuck, OnDone, OnDoneStuck, Known
<1>3. orders[d].client \in Accounts
  BY <1>1, <1>2, KnownOrder DEF KnownInv
<1> SUFFICES ASSUME ~(Surplus(a) < 0), Exists(ledger', a),
                    ~(Stray(msg) /\ a \in {who, orders[d].client})
             PROVE  Surplus(a)' = Surplus(a)
  BY DEF Untouched
<1>4. Surplus(a) >= 0
  BY Amounts
<1>5. a \notin Confused(who, d)
  BY <1>2 DEF Stray, Confused
<1>6. orders' = orders => a # who
  BY <1>2 DEF Stray
<1>7. CASE OnReject(who, d, msg.onoff)
  BY <1>1, <1>2, <1>3, <1>4, <1>5, <1>7, UntouchedSettled DEF OnReject, OrderReject
<1>8. CASE OnRejectStuck(who, d)
  BY <1>1, <1>2, <1>6, <1>8, UntouchedStuck DEF OnRejectStuck
<1>9. CASE OnDone(who, d, msg.onoff)
  BY <1>1, <1>2, <1>4, <1>5, <1>9, UntouchedSettled DEF OnDone
<1>10. CASE OnDoneStuck(who, d)
  BY <1>1, <1>2, <1>6, <1>10, UntouchedStuck DEF OnDoneStuck
<1> QED
  BY <1>7, <1>8, <1>9, <1>10 DEF Verdict

LEMMA UntouchedStep ==
  ASSUME KnownInv, TypeOK', [Next]_vars, NEW a \in Accounts
  PROVE  Untouched(a)
<1>0. TypeOK
  BY DEF KnownInv
<1>1. ASSUME NEW who \in Accounts, NEW base \in OrderBase, OrderCall(who, base)
      PROVE  Untouched(a)
  <2>1. OrderStored(who, base) /\ devices' = WithState(base.device, "Busy")
    BY <1>1 DEF OrderCall
  <2>2. base.device \in Accounts /\ devices[base.device] # NoDevice
    BY <2>1, StoredOrderType DEF OrderStored, Acceptable
  <2>3. \A x \in Accounts : devices'[x].penalty = devices[x].penalty
    BY <1>0, <2>1, <2>2, WithStatePenalty
  <2> QED
    BY <2>1, <2>3, UntouchedStored DEF Untouched
<1>2. ASSUME NEW who \in Accounts, NEW base \in OrderBase, OrderUnsent(who, base)
      PROVE  Untouched(a)
  BY <1>2, UntouchedStored DEF OrderUnsent, Untouched
<1>3. ASSUME NEW who \in Accounts, NEW base \in OrderBase, OrderStranding(who, base)
      PROVE  Untouched(a)
  BY <1>3, UntouchedStranding DEF Untouched
<1>4. ASSUME NEW who \in Accounts, NEW d \in Accounts, Cancel(who, d)
      PROVE  Untouched(a)
  <2> SUFFICES ASSUME ~(Surplus(a) < 0), Exists(ledger', a)
               PROVE  Surplus(a)' = Surplus(a)
    BY DEF Untouched
  <2>1. /\ IsOpen(d) /\ orders[d].client = who /\ OrderReject(who, d, devices[d].state)
    BY <1>4 DEF Cancel
  <2>2. Surplus(a) >= 0 /\ a \notin Confused(who, d)
    BY <2>1, Amounts DEF Confused
  <2> QED
    BY <2>1, <2>2, UntouchedSettled DEF OrderReject
<1>5. ASSUME UNCHANGED <<orders, ledger>>,
             orders[a] # NoOrder => devices'[a].penalty = devices[a].penalty
      PROVE  Untouched(a)
  BY <1>5, SurplusUnmoved DEF Untouched
<1>6. ASSUME NEW id \in Registrants, NEW p \in DeviceParas, NEW pen \in Penalties,
             NEW w \in Durations, NEW onoff \in BOOLEAN, Register(id, p, pen, w, onoff)
      PROVE  Untouched(a)
  <2>1. orders[a] # NoOrder => devices'[a] = devices[a]
    BY <1>0, <1>6 DEF Register, IsOpen, TypeOK
  <2> QED
    BY <1>5, <1>6, <2>1 DEF Register
<1>7. CASE MessageStep
  BY <1>7, UntouchedVerdict DEF MessageStep
<1>8. ASSUME NEW from \in Accounts, NEW to \in Accounts, TransferFunds(from, to)
      PROVE  Untouched(a)
  <2>1. PICK v \in 1 .. ledger[from].free :
          CanTransfer(ledger, from, to, v) /\ ledger' = Transfer(ledger, from, to, v)
    BY <1>8 DEF TransferFunds
  <2>2. v \in Nat /\ ledger \in Ledgers
    BY <1>0, <2>1 DEF TypeOK, Account, Ledgers
  <2>3. CASE ledger'[a].reserved = ledger[a].reserved
    BY <1>8, <2>3, SurplusUnmoved DEF TransferFunds, Untouched
  <2>4. CASE ledger'[a] = Empty
    <3>1. ~Exists(ledger', a)
      BY <2>4, DepositAssumption DEF Exists, Total, Empty
    <3> QED
      BY <3>1 DEF Untouched
  <2> QED
    BY <2>1, <2>2, <2>3, <2>4, TransferTakes
<1>9. CASE Test \/ NextBlock \/ (\E p \in Paras : OpenChannel(p) \/ Carry(p)) \/ UNCHANGED vars
  BY <1>5, <1>9 DEF Test, NextBlock, OpenChannel, Carry, vars
<1> QED
  BY <1>1, <1>2, <1>3, <1>4, <1>6, <1>7, <1>8, <1>9 DEF Next, CallStep, ChainStep

\* An order is paid and settled out of its own hold: what an account has
\* reserved beyond its orders' holds is the same after any call and any
\* verdict, but for a device that orders from itself and for the clients a
\* misdirected or half-failed verdict names.  No amount need cover the
\* existential deposit for this.
THEOREM OthersUntouched == Spec => OthersHoldsUntouched
<1>1. KnownInv /\ KnownInv' /\ [Next]_vars
        => [\A a \in Accounts :
              \/ Surplus(a) < 0
              \/ Surplus(a)' = Surplus(a)
              \/ ~Exists(ledger', a)
              \/ \E base \in OrderBase : OrderStranding(a, base)
              \/ \E msg \in VerdictMsg :
                   Stray(msg) /\ a \in {msg.client, orders[msg.device].client}]_vars
  BY UntouchedStep DEF Untouched, KnownInv
<1> QED
  BY <1>1, KnownInvariant, PTL DEF Spec, OthersHoldsUntouched

(***************************************************************************)
(* Cancel has no error left to return.                                     *)
(***************************************************************************)

\* From the deadline on, what cancel and order_reject check of a living
\* client's order holds: the device is registered (NoDevice) and, once the fee
\* is back, the collateral has a living account to go to (DeadAccount).
CancelUnhindered ==
  \A d \in Accounts :
    (IsOpen(d) /\ now >= orders[d].until /\ Signed(orders[d].client))
      => LET client == orders[d].client
         IN  /\ devices[d] # NoDevice
             /\ CollateralPayable(FeeRefunded(client, d), d, client)

\* No verdict and no other call can put a client that is still alive in a
\* position where cancel fails: the guards of Cancel that CancelNeverBlocked
\* asks for hold in every reachable state.
THEOREM CancelHasNoError == Spec => []CancelUnhindered
<1>1. ASSUME KnownInv, NEW d \in Accounts, IsOpen(d), Signed(orders[d].client)
      PROVE  /\ devices[d] # NoDevice
             /\ CollateralPayable(FeeRefunded(orders[d].client, d), d, orders[d].client)
  <2>1. TypeOK /\ devices[d] # NoDevice
    BY <1>1 DEF KnownInv, OrderedDevicesKnown
  <2>2. orders[d].client \in Accounts /\ orders[d].fee \in Nat
    BY <1>1, <2>1, KnownOrder
  <2>3. Exists(FeeRefunded(orders[d].client, d), orders[d].client)
    BY <1>1, <2>1, <2>2, UnreserveKeepsAlive DEF FeeRefunded, Signed, TypeOK, Ledgers
  <2> QED
    BY <2>1, <2>3 DEF CollateralPayable, CanRepatriate
<1>2. KnownInv => CancelUnhindered
  BY <1>1 DEF CancelUnhindered
<1> QED
  BY <1>2, KnownInvariant, PTL

(***************************************************************************)
(* The reserve stays sufficient, if no amount is below the deposit.        *)
(***************************************************************************)

LEMMA HeldCoversDeposit ==
  ASSUME AmountsCoverDeposit, NEW devs \in ProfileTable, NEW ords \in OrderTable,
         \A y \in Accounts : ords[y] # NoOrder => devs[y] # NoDevice, NEW x \in Accounts
  PROVE  /\ HeldIn(devs, ords, x) \in Nat
         /\ HeldIn(devs, ords, x) = 0 \/ HeldIn(devs, ords, x) >= ExistentialDeposit
<1> DEFINE fees == FeesOf(ords, x)
           pen == HeldCollateral(devs, ords, x)
<1>1. pen \in Nat /\ (pen = 0 \/ pen >= ExistentialDeposit)
  BY AmountTypes DEF HeldCollateral, ProfileTable, DeviceProfile, AmountsCoverDeposit
<1>2. fees \in FeeTable /\ Cardinality(Units(fees)) \in Nat
  BY FeesType
<1>3. \A d \in Accounts : fees[d] = 0 \/ fees[d] >= ExistentialDeposit
  BY DEF FeesOf, FeeOf, OrderTable, Order, AmountsCoverDeposit
<1>4. HeldIn(devs, ords, x) = Cardinality(Units(fees)) + pen
  BY DEF HeldIn
<1> HIDE DEF fees, pen
<1>5. CASE \A d \in Accounts : fees[d] = 0
  BY <1>1, <1>2, <1>4, <1>5, UnitsCount, ClientAssumption, AmountTypes
<1>6. CASE \E d \in Accounts : fees[d] # 0
  <2>1. PICK d \in Accounts : fees[d] >= ExistentialDeposit
    BY <1>3, <1>6
  <2>2. fees[d] <= Cardinality(Units(fees))
    BY <1>2, UnitsCount, ClientAssumption
  <2>3. fees[d] \in Nat
    BY <1>2, AmountTypes DEF FeeTable
  <2> QED
    BY <1>1, <1>2, <1>4, <2>1, <2>2, <2>3, AmountTypes
<1> QED BY <1>5, <1>6

Funded(a) == Held(a) <= ledger[a].reserved

LEMMA FundedIs ==
  ASSUME KnownInv, NEW a \in Accounts
  PROVE  /\ Funded(a) <=> HeldIn(devices, orders, a) <= ledger[a].reserved
         /\ Funded(a) => Surplus(a) >= 0
BY HeldIs, Amounts DEF Funded, KnownInv

LEMMA FundedIsNext ==
  ASSUME TypeOK', NEW a \in Accounts
  PROVE  Funded(a)' <=> HeldIn(devices', orders', a) <= ledger'[a].reserved
BY HeldIsNext DEF Funded

LEMMA FundedSurplus ==
  ASSUME KnownInv, KnownInv', NEW a \in Accounts, Funded(a), Surplus(a)' = Surplus(a)
  PROVE  Funded(a)'
<1>1. HeldIn(devices', orders', a) \in Nat /\ ledger'[a].reserved \in Nat
  <2>1. TypeOK'
    BY DEF KnownInv
  <2>2. /\ devices' \in ProfileTable /\ orders' \in OrderTable
        /\ \A y \in Accounts : orders'[y] # NoOrder => devices'[y] # NoDevice
    BY DEF KnownInv, TypeOK, ProfileTable, OrderTable, OrderedDevicesKnown, IsOpen
  <2>3. HeldCollateral(devices', orders', a) \in Nat
    BY <2>2, AmountTypes DEF HeldCollateral, ProfileTable, DeviceProfile
  <2> QED
    BY <2>1, <2>2, <2>3, FeesType DEF HeldIn, TypeOK, Account
<1>2. Surplus(a)' = ledger'[a].reserved - HeldIn(devices', orders', a)
  BY HeldIsNext DEF Surplus, KnownInv
<1>3. /\ Surplus(a) = ledger[a].reserved - HeldIn(devices, orders, a)
      /\ HeldIn(devices, orders, a) \in Nat /\ ledger[a].reserved \in Nat
  BY Amounts
<1>4. HeldIn(devices, orders, a) <= ledger[a].reserved
  BY FundedIs
<1>5. ledger'[a].reserved - HeldIn(devices', orders', a)
        = ledger[a].reserved - HeldIn(devices, orders, a)
  BY <1>2, <1>3
<1>6. HeldIn(devices', orders', a) <= ledger'[a].reserved
  BY <1>1, <1>3, <1>4, <1>5
<1> QED
  BY <1>6, FundedIsNext DEF KnownInv

\* A step that leaves the orders of a and only adds to its reserve.
LEMMA FundedKept ==
  ASSUME KnownInv, TypeOK', NEW a \in Accounts, Funded(a), orders' = orders,
         orders[a] # NoOrder => devices'[a].penalty = devices[a].penalty,
         \/ ledger[a].reserved <= ledger'[a].reserved
         \/ HeldIn(devices, orders, a) <= ledger'[a].reserved
  PROVE  Funded(a)'
<1>1. HeldIn(devices', orders', a) = HeldIn(devices, orders, a)
  BY HeldSamePenalties
<1>2. ledger'[a].reserved \in Nat
  BY DEF TypeOK, Account
<1> QED
  BY <1>1, <1>2, Amounts, FundedIs, FundedIsNext

\* What the settlement of d's order, naming who, must leave in a's reserve:
\* the holds of the other orders, and until it is returned the collateral.
LEMMA MidFunded ==
  ASSUME KnownInv, AmountsCoverDeposit, NEW a \in Accounts, NEW who \in Accounts,
         NEW d \in Accounts, IsOpen(d), NEW mid \in {FeeRefunded(who, d), FeePaid(who, d)},
         NEW n \in Nat, n = 0 \/ n >= ExistentialDeposit,
         n + (IF a = who THEN orders[d].fee ELSE 0) <= ledger[a].reserved
  PROVE  n <= mid[a].reserved
<1>1. orders[d].fee \in Nat /\ ledger \in Ledgers
  BY KnownOrder, Amounts DEF KnownInv
<1>2. n <= FeePaid(who, d)[a].reserved
  BY <1>1, RepatriateKeeps DEF FeePaid
<1>3. n <= FeeRefunded(who, d)[a].reserved
  <2>1. FeeRefunded(who, d)[a].reserved
          = ledger[a].reserved - IF a = who THEN orders[d].fee ELSE 0
    <3>1. a = who => orders[d].fee <= ledger[a].reserved
      BY <1>1 DEF Ledgers, Account
    <3> QED
      BY <1>1, <3>1, UnreserveTakes DEF FeeRefunded
  <2> QED
    BY <1>1, <2>1 DEF Ledgers, Account
<1> QED BY <1>2, <1>3

LEMMA FundedSettled ==
  ASSUME KnownInv, TypeOK', AmountsCoverDeposit, NEW a \in Accounts, NEW who \in Accounts,
         NEW d \in Accounts, NEW to \in Accounts, IsOpen(d),
         NEW mid \in {FeeRefunded(who, d), FeePaid(who, d)},
         ledger' = CollateralReturned(mid, d, to),
         orders' = [orders EXCEPT ![d] = NoOrder],
         NEW st, devices' = WithState(d, st),
         Funded(a), a = who => a = orders[d].client
  PROVE  Funded(a)'
<1> DEFINE without == [orders EXCEPT ![d] = NoOrder]
           rest == HeldIn(devices, without, a)
           pen == devices[d].penalty
           due == IF a = d THEN pen ELSE 0
<1>1. TypeOK /\ devices[d] # NoDevice /\ orders[d] # NoOrder
  BY DEF KnownInv, OrderedDevicesKnown, IsOpen
<1>2. /\ pen \in Nat /\ orders[d].fee \in Nat
      /\ pen = 0 \/ pen >= ExistentialDeposit
  BY <1>1, KnownDevice, KnownOrder DEF AmountsCoverDeposit
<1>3. /\ HoldOf(orders[d], d, pen, a) \in Nat /\ rest \in Nat
      /\ HeldIn(devices, orders, a) = rest + HoldOf(orders[d], d, pen, a)
  BY <1>1, KnownTables, HeldRemove
<1>4. rest = 0 \/ rest >= ExistentialDeposit
  <2>1. without \in OrderTable /\ \A y \in Accounts : without[y] # NoOrder => devices[y] # NoDevice
    BY KnownTables DEF OrderTable
  <2> HIDE DEF without
  <2> QED
    BY <2>1, KnownTables, HeldCoversDeposit
<1>5. (rest + due) + (IF a = who THEN orders[d].fee ELSE 0) <= ledger[a].reserved
  <2>1. HoldOf(orders[d], d, pen, a)
          = (IF a = orders[d].client THEN orders[d].fee ELSE 0) + due
    BY <1>1 DEF HoldOf, FeeOf
  <2>2. rest + HoldOf(orders[d], d, pen, a) <= ledger[a].reserved
    BY <1>3, FundedIs
  <2> HIDE DEF rest, due
  <2>3. rest \in Nat /\ due \in Nat /\ ledger[a].reserved \in Nat
    BY <1>2, <1>3, Amounts DEF due
  <2> QED
    BY <1>2, <2>1, <2>2, <2>3
<1> HIDE DEF rest
<1>6. mid \in Ledgers
  BY <1>1, RefundedType
<1>7. rest + due <= mid[a].reserved
  <2>1. rest + due \in Nat /\ (rest + due = 0 \/ rest + due >= ExistentialDeposit)
    BY <1>2, <1>3, <1>4, AmountTypes
  <2> QED
    BY <1>5, <2>1, MidFunded
<1>8. rest <= ledger'[a].reserved
  <2>1. rest <= Repatriate(mid, d, to, pen)[a].reserved
    BY <1>2, <1>3, <1>4, <1>6, <1>7, RepatriateKeeps
  <2>2. rest <= Unreserve(mid, d, pen)[a].reserved
    <3>1. a = d => pen <= mid[a].reserved
      BY <1>2, <1>3, <1>6, <1>7 DEF Ledgers, Account
    <3>2. Unreserve(mid, d, pen)[a].reserved = mid[a].reserved - IF a = d THEN pen ELSE 0
      BY <1>2, <1>6, <3>1, UnreserveTakes
    <3> QED
      BY <1>2, <1>3, <1>6, <1>7, <3>2 DEF Ledgers, Account
  <2> QED
    BY <2>1, <2>2 DEF CollateralReturned
<1>9. HeldIn(devices', orders', a) = rest
  BY <1>1, WithStatePenalty, HeldSamePenalties DEF rest
<1> QED
  BY <1>8, <1>9, FundedIsNext

\* A verdict that settles the order of the client it names, or touches
\* neither the reserve nor an order of a, leaves a funded.
LEMMA FundedVerdict ==
  ASSUME KnownInv, KnownInv', AmountsCoverDeposit, NEW a \in Accounts, Funded(a),
         NEW msg \in VerdictMsg, Verdict(msg),
         a = msg.client => a = orders[msg.device].client /\ orders' # orders
  PROVE  Funded(a)'
<1> DEFINE who == msg.client
           d == msg.device
<1>0. TypeOK /\ TypeOK'
  BY DEF KnownInv
<1>1. who \in Accounts /\ d \in Accounts
  BY VerdictParts
<1>2. IsOpen(d)
  BY DEF Verdict, OnReject, OnRejectStuck, OnDone, OnDoneStuck, Known
<1>3. orders[d].client \in Accounts
  BY <1>0, <1>1, <1>2, KnownOrder
<1>a. a = who => a = orders[d].client /\ orders' # orders
  OBVIOUS
<1> HIDE DEF who, d
<1>4. CASE OnReject(who, d, msg.onoff)
  <2>1. /\ ledger' = CollateralReturned(FeeRefunded(who, d), d, orders[d].client)
        /\ orders' = [orders EXCEPT ![d] = NoOrder]
        /\ devices' = WithState(d, IdleState(msg.onoff))
    BY <1>4 DEF OnReject, OrderReject
  <2> QED
    BY <1>0, <1>1, <1>2, <1>3, <1>a, <2>1, FundedSettled
<1>5. CASE OnDone(who, d, msg.onoff)
  <2>1. /\ ledger' = CollateralReturned(FeePaid(who, d), d, who)
        /\ orders' = [orders EXCEPT ![d] = NoOrder]
        /\ devices' = WithState(d, IdleState(msg.onoff))
    BY <1>5 DEF OnDone
  <2> QED
    BY <1>0, <1>1, <1>2, <1>a, <2>1, FundedSettled
<1>6. ASSUME ledger' \in {FeeRefunded(who, d), FeePaid(who, d)},
             UNCHANGED <<devices, orders>>
      PROVE  Funded(a)'
  <2>1. a # who
    BY <1>6, <1>a
  <2>2. Surplus(a)' = Surplus(a)
    BY <1>0, <1>1, <1>2, <1>6, <2>1, UntouchedStuck
  <2> QED
    BY <2>2, FundedSurplus
<1> QED
  BY <1>4, <1>5, <1>6 DEF Verdict, OnRejectStuck, OnDoneStuck, who, d

LEMMA FundedCall ==
  ASSUME KnownInv, KnownInv', AmountsCoverDeposit, NEW a \in Accounts, Funded(a),
         CallStep \/ ChainStep \/ UNCHANGED vars
  PROVE  Funded(a)'
<1>0. TypeOK /\ TypeOK'
  BY DEF KnownInv
<1>1. ASSUME NEW who \in Accounts, NEW base \in OrderBase,
             OrderCall(who, base) \/ OrderUnsent(who, base)
      PROVE  Funded(a)'
  <2>1. OrderStored(who, base)
    BY <1>1 DEF OrderCall, OrderUnsent
  <2>2. base.device \in Accounts /\ devices[base.device] # NoDevice
    BY <2>1, StoredOrderType DEF OrderStored, Acceptable
  <2>3. \A x \in Accounts : devices'[x].penalty = devices[x].penalty
    BY <1>0, <1>1, <2>2, WithStatePenalty DEF OrderCall, OrderUnsent
  <2> QED
    BY <1>0, <2>1, <2>3, UntouchedStored, FundedSurplus
<1>2. ASSUME NEW who \in Accounts, NEW base \in OrderBase, OrderStranding(who, base)
      PROVE  Funded(a)'
  <2>1. base.device \in Accounts /\ devices[base.device] # NoDevice
    BY <1>2, StoredOrderType DEF OrderStranding, Acceptable
  <2>2. devices[base.device].penalty \in Nat
    BY <1>0, <2>1, KnownDevice
  <2>3. ledger[a].reserved <= ledger'[a].reserved
    BY <1>2, <2>1, <2>2, Amounts DEF OrderStranding, CollateralReserved, Reserve, Ledgers
  <2> QED
    BY <1>0, <1>2, <2>3, FundedKept DEF OrderStranding
<1>3. ASSUME NEW who \in Accounts, NEW d \in Accounts, Cancel(who, d)
      PROVE  Funded(a)'
  BY <1>0, <1>3, FundedSettled DEF Cancel, OrderReject
<1>4. ASSUME UNCHANGED <<orders, ledger>>,
             orders[a] # NoOrder => devices'[a].penalty = devices[a].penalty
      PROVE  Funded(a)'
  <2>1. ledger[a].reserved <= ledger'[a].reserved
    BY <1>4, Amounts
  <2> QED
    BY <1>0, <1>4, <2>1, FundedKept
<1>5. ASSUME NEW id \in Registrants, NEW p \in DeviceParas, NEW pen \in Penalties,
             NEW w \in Durations, NEW onoff \in BOOLEAN, Register(id, p, pen, w, onoff)
      PROVE  Funded(a)'
  <2>1. orders[a] # NoOrder => devices'[a] = devices[a]
    BY <1>0, <1>5 DEF Register, IsOpen, TypeOK
  <2> QED
    BY <1>4, <1>5, <2>1 DEF Register
<1>6. ASSUME NEW from \in Accounts, NEW to \in Accounts, TransferFunds(from, to)
      PROVE  Funded(a)'
  <2>1. PICK v \in 1 .. ledger[from].free :
          CanTransfer(ledger, from, to, v) /\ ledger' = Transfer(ledger, from, to, v)
    BY <1>6 DEF TransferFunds
  <2>2. v \in Nat /\ ledger \in Ledgers
    BY <1>0, <2>1 DEF TypeOK, Account, Ledgers
  <2>3. /\ HeldIn(devices, orders, a) \in Nat
        /\ HeldIn(devices, orders, a) = 0 \/ HeldIn(devices, orders, a) >= ExistentialDeposit
    BY KnownTables, HeldCoversDeposit
  <2>4. HeldIn(devices, orders, a) <= ledger[a].reserved
    BY FundedIs
  <2>5. HeldIn(devices, orders, a) <= ledger'[a].reserved
    BY <2>1, <2>2, <2>3, <2>4, TransferKeeps
  <2> QED
    BY <1>0, <1>6, <2>5, FundedKept DEF TransferFunds
<1>7. CASE Test \/ NextBlock \/ (\E p \in Paras : OpenChannel(p) \/ Carry(p)) \/ UNCHANGED vars
  BY <1>4, <1>7 DEF Test, NextBlock, OpenChannel, Carry, vars
<1> QED
  BY <1>1, <1>2, <1>3, <1>5, <1>6, <1>7 DEF CallStep, ChainStep

=============================================================================

------------------------- MODULE ServicePalletProofs -------------------------
(***************************************************************************)
(* Proofs about ServicePallet, for every value of its constants.           *)
(***************************************************************************)
EXTENDS ServicePallet, LedgerProofs

(***************************************************************************)
(* The shared state changes keep their variables in type.                  *)
(***************************************************************************)

LEMMA WithStateType ==
  ASSUME TypeOK, NEW d \in Accounts, devices[d] # NoDevice, NEW st \in DeviceState
  PROVE  WithState(d, st) \in [Accounts -> DeviceProfile \cup {NoDevice}]
BY DEF TypeOK, WithState, DeviceProfile

LEMMA SendType ==
  ASSUME TypeOK, NEW p \in Siblings, NEW m \in VerdictMsg, TrySend(p, m)
  PROVE  outbox' \in Verdicts
<1>1. outbox \in Verdicts
  BY DEF TypeOK
<1>2. CASE outbox' = outbox
  BY <1>1, <1>2
<1>3. CASE outbox' = [outbox EXCEPT ![p] = Append(outbox[p], m)]
  <2>1. outbox[p] \in Seq(VerdictMsg)
    BY <1>1 DEF Verdicts
  <2>2. Append(outbox[p], m) \in Seq(VerdictMsg)
    BY <2>1
  <2> QED
    BY <1>1, <1>3, <2>2 DEF Verdicts
<1> QED
  BY <1>2, <1>3 DEF TrySend, Send

LEMMA MessageTypes ==
  ASSUME NEW c \in Accounts, NEW d \in Accounts, NEW onoff \in BOOLEAN
  PROVE  /\ OrderAcceptMsg(c, d) \in VerdictMsg
         /\ OrderRejectMsg(c, d, onoff) \in VerdictMsg
         /\ OrderDoneMsg(c, d, onoff) \in VerdictMsg
BY DEF OrderAcceptMsg, OrderRejectMsg, OrderDoneMsg, VerdictMsg

LEMMA StateTypes ==
  /\ OnReceived \in DeviceState
  /\ \A onoff \in BOOLEAN : IdleState(onoff) \in {"Ready", "Off"}
  /\ {"Ready", "Off", "Busy", "Busy2"} \subseteq DeviceState
BY ServiceAssumption DEF DeviceState, IdleState

(***************************************************************************)
(* Type correctness, action by action.                                     *)
(***************************************************************************)

\* A device whose profile is known, and the amounts of a known order.
LEMMA KnownDevice ==
  ASSUME TypeOK, NEW d \in Accounts, devices[d] # NoDevice
  PROVE  /\ devices[d] \in DeviceProfile
         /\ devices[d].penalty \in Nat
BY AmountTypes DEF TypeOK, DeviceProfile

LEMMA KnownOrder ==
  ASSUME TypeOK, NEW d \in Accounts, IsOpen(d)
  PROVE  /\ orders[d] \in Order(ParaIds)
         /\ orders[d].fee \in Nat /\ orders[d].fee <= MaxBalance
         /\ orders[d].until \in Nat
         /\ orders[d].client \in Accounts
         /\ orders[d].paraid \in ParaIds
         /\ ~IsLocal(orders[d]) => orders[d].paraid \in Siblings
BY AmountTypes DEF TypeOK, IsOpen, IsLocal, Order, ParaIds

LEMMA OrderReceivedType ==
  ASSUME TypeOK, NEW o \in Order(ParaIds), NEW d \in Accounts, OrderReceived(o, d)
  PROVE  /\ devices' \in [Accounts -> DeviceProfile \cup {NoDevice}]
         /\ orders' \in [Accounts -> Order(ParaIds) \cup {NoOrder}]
         /\ ledger' \in Ledgers
         /\ outbox' \in Verdicts
<1>1. devices[d] # NoDevice
  BY DEF OrderReceived, Acceptable
<1>2. devices[d].penalty \in Nat /\ o.fee \in Nat /\ o.client \in Accounts
  BY <1>1, KnownDevice, AmountTypes DEF Order
<1>3. devices' \in [Accounts -> DeviceProfile \cup {NoDevice}]
  BY <1>1, WithStateType, StateTypes DEF OrderReceived
<1>4. orders' \in [Accounts -> Order(ParaIds) \cup {NoOrder}]
  BY DEF OrderReceived, TypeOK
<1>5. ledger' \in Ledgers
  <2>1. CASE IsLocal(o)
    <3> DEFINE first == Reserve(ledger, d, devices[d].penalty)
    <3>1. /\ CanReserve(ledger, d, devices[d].penalty)
          /\ CanReserve(first, o.client, o.fee)
          /\ ledger' = Reserve(first, o.client, o.fee)
      BY <2>1 DEF OrderReceived, HeldForOrder
    <3>2. ledger \in Ledgers
      BY DEF TypeOK, Ledgers
    <3>3. first \in Ledgers
      BY <1>2, <3>1, <3>2, ReserveType
    <3> HIDE DEF first
    <3> QED
      BY <1>2, <3>1, <3>3, ReserveType
  <2>2. CASE ~IsLocal(o)
    BY <2>2 DEF OrderReceived, TypeOK, Ledgers
  <2> QED BY <2>1, <2>2
<1>6. outbox' \in Verdicts
  <2>1. CASE OnReceived = "Busy2" /\ ~IsLocal(o)
    <3>1. o \in Order(ParaIds) /\ o # NoOrder
      BY ServiceAssumption
    <3>2. o.paraid \in Siblings
      BY <2>1, <3>1 DEF IsLocal, Order, ParaIds
    <3> QED
      BY <1>2, <2>1, <3>2, SendType, MessageTypes DEF OrderReceived
  <2>2. CASE ~(OnReceived = "Busy2" /\ ~IsLocal(o))
    BY <2>2 DEF OrderReceived, TypeOK
  <2> QED BY <2>1, <2>2
<1> QED BY <1>3, <1>4, <1>5, <1>6

LEMMA CollateralReturnedType ==
  ASSUME TypeOK, NEW l \in Ledgers, NEW d \in Accounts,
         devices[d] # NoDevice, IsOpen(d)
  PROVE  CollateralReturned(l, orders[d], d) \in Ledgers
BY KnownDevice, KnownOrder, UnreserveType, RepatriateType DEF CollateralReturned

LEMMA OrderRejectType ==
  ASSUME TypeOK, NEW d \in Accounts, devices[d] # NoDevice,
         NEW st \in DeviceState, NEW onoff \in BOOLEAN, OrderReject(d, st, onoff)
  PROVE  /\ devices' \in [Accounts -> DeviceProfile \cup {NoDevice}]
         /\ orders' \in [Accounts -> Order(ParaIds) \cup {NoOrder}]
         /\ ledger' \in Ledgers
         /\ outbox' \in Verdicts
<1>1. devices' \in [Accounts -> DeviceProfile \cup {NoDevice}]
  BY WithStateType DEF OrderReject
<1>2. orders' \in [Accounts -> Order(ParaIds) \cup {NoOrder}]
  BY DEF OrderReject, TypeOK
<1>3. ledger' \in Ledgers
  <2>1. CASE IsLocal(orders[d])
    <3> DEFINE refunded == Unreserve(ledger, orders[d].client, orders[d].fee)
    <3>1. IsOpen(d)
      BY <2>1 DEF IsLocal, IsOpen
    <3>2. refunded \in Ledgers
      BY <3>1, KnownOrder, UnreserveType DEF TypeOK, Ledgers
    <3>3. ledger' = CollateralReturned(refunded, orders[d], d)
      BY <2>1 DEF OrderReject
    <3> HIDE DEF refunded
    <3> QED
      BY <3>1, <3>2, <3>3, CollateralReturnedType
  <2>2. CASE ~IsLocal(orders[d])
    BY <2>2 DEF OrderReject, TypeOK, Ledgers
  <2> QED BY <2>1, <2>2
<1>4. outbox' \in Verdicts
  <2>1. CASE IsOpen(d) /\ ~IsLocal(orders[d])
    BY <2>1, KnownOrder, SendType, MessageTypes DEF OrderReject, TrySend
  <2>2. CASE ~(IsOpen(d) /\ ~IsLocal(orders[d]))
    BY <2>2 DEF OrderReject, TypeOK
  <2> QED BY <2>1, <2>2
<1> QED BY <1>1, <1>2, <1>3, <1>4

LEMMA DoneType ==
  ASSUME TypeOK, NEW id \in Accounts, NEW onoff \in BOOLEAN, Done(id, onoff)
  PROVE  TypeOK'
<1>1. DoneBegins(id, onoff)
  BY DEF Done, DoneLocal, DoneStranding, DoneRemote, DoneUnreported
<1>2. devices[id] # NoDevice /\ IsOpen(id)
  BY <1>1 DEF DoneBegins
<1>3. devices' \in [Accounts -> DeviceProfile \cup {NoDevice}]
  BY <1>1, <1>2, WithStateType, StateTypes DEF DoneBegins
<1>4. orders' \in [Accounts -> Order(ParaIds) \cup {NoOrder}]
  BY <1>1 DEF DoneBegins, TypeOK
<1>5. FeePaid(orders[id], id) \in Ledgers
  BY <1>2, KnownOrder, RepatriateType DEF FeePaid, TypeOK, Ledgers
<1>6. CollateralReturned(FeePaid(orders[id], id), orders[id], id) \in Ledgers
  BY <1>2, <1>5, CollateralReturnedType
<1>7. ledger' \in Ledgers
  BY <1>5, <1>6
  DEF Done, DoneLocal, DoneStranding, DoneRemote, DoneUnreported, TypeOK, Ledgers
<1>8. outbox' \in Verdicts
  <2>1. CASE DoneRemote(id, onoff)
    BY <1>2, <2>1, KnownOrder, SendType, MessageTypes DEF DoneRemote, TrySend
  <2>2. CASE ~DoneRemote(id, onoff)
    BY <2>2 DEF Done, DoneLocal, DoneStranding, DoneUnreported, TypeOK
  <2> QED BY <2>1, <2>2
<1>9. UNCHANGED <<now, open>>
  BY DEF Done, DoneLocal, DoneStranding, DoneRemote, DoneUnreported
<1> QED
  BY <1>3, <1>4, <1>7, <1>8, <1>9 DEF TypeOK, Ledgers

LEMMA StoredOrderType ==
  ASSUME NEW base \in OrderBase, NEW c \in Accounts, NEW p \in ParaIds
  PROVE  /\ StoredOrder(base, c, p) \in Order(ParaIds)
         /\ StoredOrder(base, c, p) # NoOrder
BY ServiceAssumption DEF OrderBase, StoredOrder, Order

LEMMA TypeInit == Init => TypeOK
BY ServiceAssumption DEF Init, TypeOK, Account, Verdicts

LEMMA TypeStep == TypeOK /\ [Next]_vars => TypeOK'
<1> SUFFICES ASSUME TypeOK, [Next]_vars PROVE TypeOK'
  OBVIOUS
<1>1. ASSUME NEW who \in Accounts, NEW base \in OrderBase, OrderCall(who, base)
      PROVE  TypeOK'
  <2>1. StoredOrder(base, who, SelfParaId) \in Order(ParaIds) /\ base.device \in Accounts
    BY StoredOrderType DEF ParaIds, OrderBase
  <2> QED
    BY <1>1, <2>1, OrderReceivedType DEF OrderCall, TypeOK, Ledgers
<1>2. ASSUME NEW who \in Accounts, NEW base \in OrderBase, OrderStranding(who, base)
      PROVE  TypeOK'
  <2>1. base.device \in Accounts /\ devices[base.device] # NoDevice
    BY <1>2 DEF OrderStranding, Acceptable, OrderBase
  <2>2. ledger' \in Ledgers
    BY <1>2, <2>1, KnownDevice, ReserveType DEF OrderStranding, TypeOK, Ledgers
  <2> QED
    BY <1>2, <2>2 DEF OrderStranding, TypeOK, Ledgers
<1>3. ASSUME NEW who \in Accounts, NEW d \in Accounts, Cancel(who, d)
      PROVE  TypeOK'
  <2>1. devices[d] # NoDevice /\ devices[d].state \in DeviceState
    BY <1>3, KnownDevice DEF Cancel, DeviceProfile
  <2> QED
    BY <1>3, <2>1, OrderRejectType DEF Cancel, TypeOK, Ledgers
<1>4. ASSUME NEW id \in Accounts, NEW onoff \in BOOLEAN, Reject(id, onoff)
      PROVE  TypeOK'
  BY <1>4, StateTypes, OrderRejectType DEF Reject, TypeOK, Ledgers
<1>5. ASSUME NEW id \in Accounts, NEW onoff \in BOOLEAN, Done(id, onoff)
      PROVE  TypeOK'
  BY <1>5, DoneType
<1>6. ASSUME NEW id \in Accounts, NEW onoff \in BOOLEAN, SetState(id, onoff)
      PROVE  TypeOK'
  BY <1>6, WithStateType, StateTypes DEF SetState, TypeOK
<1>7. ASSUME NEW id \in Accounts, Accept(id)
      PROVE  TypeOK'
  <2>1. devices' \in [Accounts -> DeviceProfile \cup {NoDevice}]
    BY <1>7, WithStateType, StateTypes DEF Accept
  <2>2. outbox' \in Verdicts
    <3>1. IsOpen(id)
      BY <1>7 DEF Accept
    <3>2. CASE IsLocal(orders[id])
      BY <1>7, <3>2 DEF Accept, TypeOK
    <3>3. CASE ~IsLocal(orders[id])
      BY <1>7, <3>1, <3>3, KnownOrder, SendType, MessageTypes DEF Accept
    <3> QED BY <3>2, <3>3
  <2> QED
    BY <1>7, <2>1, <2>2 DEF Accept, TypeOK
<1>8. ASSUME NEW id \in Registrants, NEW pen \in Penalties, NEW w \in Durations,
             NEW onoff \in BOOLEAN, Register(id, pen, w, onoff)
      PROVE  TypeOK'
  <2>1. id \in Accounts
    BY ServiceAssumption
  <2>2. [state |-> IdleState(onoff), penalty |-> pen, wcd |-> w] \in DeviceProfile
    BY StateTypes DEF DeviceProfile
  <2> QED
    BY <1>8, <2>1, <2>2 DEF Register, TypeOK
<1>9. ASSUME NEW sib \in Siblings, NEW msg \in OrderMsg,
             Handles(msg), HandleBlobMessage(sib, msg)
      PROVE  TypeOK'
  <2>1. /\ StoredOrder(msg.order, msg.client, sib) \in Order(ParaIds)
        /\ msg.order.device \in Accounts
    BY StoredOrderType DEF ParaIds, OrderBase, OrderMsg
  <2> QED
    BY <1>9, <2>1, OrderReceivedType DEF HandleBlobMessage, TypeOK, Ledgers
<1>10. ASSUME NEW from \in Accounts, NEW to \in Accounts, TransferFunds(from, to)
       PROVE  TypeOK'
  <2>1. PICK v \in 1 .. ledger[from].free :
          CanTransfer(ledger, from, to, v) /\ ledger' = Transfer(ledger, from, to, v)
    BY <1>10 DEF TransferFunds
  <2>2. v \in Nat
    BY <2>1 DEF TypeOK, Account
  <2>3. ledger' \in Ledgers
    BY <2>1, <2>2, TransferType DEF TypeOK, Ledgers
  <2> QED
    BY <1>10, <2>3 DEF TransferFunds, TypeOK, Ledgers
<1>11. CASE NextBlock
  BY <1>11 DEF NextBlock, TypeOK
<1>12. ASSUME NEW p \in Siblings, OpenChannel(p)
       PROVE  TypeOK'
  BY <1>12 DEF OpenChannel, TypeOK
<1>13. ASSUME NEW p \in Siblings, Carry(p)
       PROVE  TypeOK'
  <2>1. outbox[p] \in Seq(VerdictMsg) /\ outbox[p] # <<>>
    BY <1>13 DEF Carry, TypeOK, Verdicts
  <2>2. Tail(outbox[p]) \in Seq(VerdictMsg)
    BY <2>1
  <2> QED
    BY <1>13, <2>2 DEF Carry, TypeOK, Verdicts
<1>14. CASE UNCHANGED vars
  BY <1>14 DEF vars, TypeOK
<1> QED
  BY <1>1, <1>2, <1>3, <1>4, <1>5, <1>6, <1>7, <1>8, <1>9, <1>10, <1>11, <1>12,
     <1>13, <1>14 DEF Next, PalletStep, ChainStep, DeviceStep

\* Type correctness: no handler, in any order and with any input, leaves a
\* balance negative, a profile in an undeclared state, an order of an unknown
\* parachain or a message that is no verdict.
THEOREM TypeCorrect == Spec => []TypeOK
<1>1. Init => TypeOK
  BY TypeInit
<1>2. TypeOK /\ [Next]_vars => TypeOK'
  BY TypeStep
<1> QED
  BY <1>1, <1>2, PTL DEF Spec

(***************************************************************************)
(* A device with an open order is Busy or Busy2.                           *)
(***************************************************************************)

BusyInv == TypeOK /\ OrderedDevicesAreBusy

\* An open order is only ever added together with a busy state, and a device
\* with an order takes an idle state only when the order goes.
LEMMA BusyAfter ==
  ASSUME BusyInv, NEW d \in Accounts, devices[d] # NoDevice, NEW st \in DeviceState,
         devices' = WithState(d, st),
         orders' \in [Accounts -> Order(ParaIds) \cup {NoOrder}],
         \A x \in Accounts \ {d} : orders'[x] = orders[x],
         orders'[d] # NoOrder => st \in {"Busy", "Busy2"}
  PROVE  OrderedDevicesAreBusy'
<1> SUFFICES ASSUME NEW x \in Accounts, orders'[x] # NoOrder
             PROVE  devices'[x] # NoDevice /\ devices'[x].state \in {"Busy", "Busy2"}
  BY DEF OrderedDevicesAreBusy, IsOpen
<1>1. CASE x = d
  <2>1. devices'[d] = [devices[d] EXCEPT !.state = st]
    BY DEF WithState, BusyInv, TypeOK
  <2>2. devices'[d] \in DeviceProfile /\ devices'[d].state = st
    BY <2>1, KnownDevice DEF BusyInv, DeviceProfile
  <2> QED
    BY <1>1, <2>2, ServiceAssumption
<1>2. CASE x # d
  <2>1. orders[x] # NoOrder /\ devices'[x] = devices[x]
    BY <1>2 DEF WithState, BusyInv, TypeOK
  <2> QED
    BY <2>1 DEF BusyInv, OrderedDevicesAreBusy, IsOpen
<1> QED BY <1>1, <1>2

LEMMA BusyReceived ==
  ASSUME BusyInv, NEW o \in Order(ParaIds), NEW d \in Accounts, OrderReceived(o, d)
  PROVE  OrderedDevicesAreBusy'
<1>1. devices[d] # NoDevice /\ devices' = WithState(d, OnReceived)
  BY DEF OrderReceived, Acceptable
<1>2. orders' = [orders EXCEPT ![d] = o]
  BY DEF OrderReceived
<1>3. orders' \in [Accounts -> Order(ParaIds) \cup {NoOrder}]
  BY <1>2 DEF BusyInv, TypeOK
<1>4. \A x \in Accounts \ {d} : orders'[x] = orders[x]
  BY <1>2 DEF BusyInv, TypeOK
<1> QED
  BY <1>1, <1>3, <1>4, BusyAfter, StateTypes, ServiceAssumption

LEMMA BusyWithout ==
  ASSUME BusyInv, NEW d \in Accounts, devices[d] # NoDevice, NEW st \in DeviceState,
         devices' = WithState(d, st), orders' = [orders EXCEPT ![d] = NoOrder]
  PROVE  OrderedDevicesAreBusy'
<1>1. orders' \in [Accounts -> Order(ParaIds) \cup {NoOrder}]
  BY DEF BusyInv, TypeOK
<1>2. orders'[d] = NoOrder /\ \A x \in Accounts \ {d} : orders'[x] = orders[x]
  BY DEF BusyInv, TypeOK
<1> QED
  BY <1>1, <1>2, BusyAfter

LEMMA BusyStep == BusyInv /\ [Next]_vars => OrderedDevicesAreBusy'
<1> SUFFICES ASSUME BusyInv, [Next]_vars PROVE OrderedDevicesAreBusy'
  OBVIOUS
<1>0. TypeOK
  BY DEF BusyInv
<1>1. ASSUME NEW who \in Accounts, NEW base \in OrderBase, OrderCall(who, base)
      PROVE  OrderedDevicesAreBusy'
  BY <1>1, StoredOrderType, BusyReceived DEF OrderCall, ParaIds, OrderBase
<1>2. ASSUME NEW who \in Accounts, NEW d \in Accounts, Cancel(who, d)
      PROVE  OrderedDevicesAreBusy'
  <2>1. devices[d] # NoDevice /\ devices[d].state \in DeviceState
    BY <1>0, <1>2, KnownDevice DEF Cancel, DeviceProfile
  <2> QED
    BY <1>2, <2>1, BusyWithout DEF Cancel, OrderReject
<1>3. ASSUME NEW id \in Accounts, NEW onoff \in BOOLEAN, Reject(id, onoff)
      PROVE  OrderedDevicesAreBusy'
  BY <1>3, StateTypes, BusyWithout DEF Reject, OrderReject
<1>4. ASSUME NEW id \in Accounts, NEW onoff \in BOOLEAN, Done(id, onoff)
      PROVE  OrderedDevicesAreBusy'
  <2>1. DoneBegins(id, onoff)
    BY <1>4 DEF Done, DoneLocal, DoneStranding, DoneRemote, DoneUnreported
  <2> QED
    BY <2>1, StateTypes, BusyWithout DEF DoneBegins
<1>5. ASSUME NEW id \in Accounts, NEW onoff \in BOOLEAN, SetState(id, onoff)
      PROVE  OrderedDevicesAreBusy'
  <2>1. devices[id] # NoDevice /\ devices[id].state \in {"Ready", "Off"}
    BY <1>5 DEF SetState
  <2>2. orders[id] = NoOrder
    BY <2>1 DEF BusyInv, OrderedDevicesAreBusy, IsOpen
  <2>3. orders' = orders /\ devices' = WithState(id, IdleState(onoff))
    BY <1>5 DEF SetState
  <2>4. orders' \in [Accounts -> Order(ParaIds) \cup {NoOrder}]
    BY <1>0, <2>3 DEF TypeOK
  <2>5. IdleState(onoff) \in DeviceState
    BY StateTypes
  <2> QED
    BY <2>1, <2>2, <2>3, <2>4, <2>5, BusyAfter
<1>6. ASSUME NEW id \in Accounts, Accept(id)
      PROVE  OrderedDevicesAreBusy'
  <2>1. /\ devices[id] # NoDevice
        /\ orders' = orders /\ devices' = WithState(id, "Busy2")
    BY <1>6 DEF Accept
  <2>2. orders' \in [Accounts -> Order(ParaIds) \cup {NoOrder}]
    BY <1>0, <2>1 DEF TypeOK
  <2> QED
    BY <2>1, <2>2, StateTypes, BusyAfter
<1>7. ASSUME NEW id \in Registrants, NEW pen \in Penalties, NEW w \in Durations,
             NEW onoff \in BOOLEAN, Register(id, pen, w, onoff)
      PROVE  OrderedDevicesAreBusy'
  <2>1. /\ orders' = orders /\ orders[id] = NoOrder
        /\ \A x \in Accounts \ {id} : devices'[x] = devices[x]
    BY <1>0, <1>7 DEF Register, IsOpen, TypeOK
  <2> QED
    BY <2>1 DEF BusyInv, OrderedDevicesAreBusy, IsOpen
<1>8. ASSUME NEW sib \in Siblings, NEW msg \in OrderMsg,
             Handles(msg), HandleBlobMessage(sib, msg)
      PROVE  OrderedDevicesAreBusy'
  <2>1. /\ StoredOrder(msg.order, msg.client, sib) \in Order(ParaIds)
        /\ msg.order.device \in Accounts
    BY StoredOrderType DEF ParaIds, OrderBase, OrderMsg
  <2> QED
    BY <1>8, <2>1, BusyReceived DEF HandleBlobMessage
<1>9. CASE UNCHANGED <<devices, orders>>
  BY <1>9 DEF BusyInv, OrderedDevicesAreBusy, IsOpen
<1>10. CASE ChainStep \/ UNCHANGED vars
  BY <1>9, <1>10 DEF ChainStep, TransferFunds, NextBlock, OpenChannel, Carry, vars
<1>11. ASSUME NEW who \in Accounts, NEW base \in OrderBase, OrderStranding(who, base)
       PROVE  OrderedDevicesAreBusy'
  BY <1>9, <1>11 DEF OrderStranding
<1> QED
  BY <1>1, <1>2, <1>3, <1>4, <1>5, <1>6, <1>7, <1>8, <1>10, <1>11
  DEF Next, PalletStep, DeviceStep

LEMMA BusyInvariant == Spec => []BusyInv
<1>1. Init => BusyInv
  BY TypeInit DEF Init, BusyInv, OrderedDevicesAreBusy, IsOpen
<1>2. BusyInv /\ [Next]_vars => BusyInv'
  BY TypeStep, BusyStep DEF BusyInv
<1> QED
  BY <1>1, <1>2, PTL DEF Spec

\* Whatever the interleaving of register, set_state, accept, done, cancel and
\* the messages, a device with an open order is registered and Busy or Busy2;
\* so a Ready device is free, and register cannot alter a held collateral.
THEOREM OrderedDevicesBusy == Spec => []OrderedDevicesAreBusy
<1>1. BusyInv => OrderedDevicesAreBusy
  BY DEF BusyInv
<1> QED
  BY <1>1, BusyInvariant, PTL

(***************************************************************************)
(* A remote order leaves the table together with its report.               *)
(***************************************************************************)

\* What SettlementReported says of one device.
ReportedFor(d) ==
  (IsOpen(d) /\ ~IsLocal(orders[d]) /\ orders'[d] # orders[d]) =>
    LET o == orders[d]
    IN  \/ \E m \in ReportOf(o, d) :
             outbox' = [outbox EXCEPT ![o.paraid] = Append(@, m)]
        \/ \E onoff \in BOOLEAN : DoneUnreported(d, onoff)

LEMMA ReportedReject ==
  ASSUME TypeOK, NEW d \in Accounts, NEW x \in Accounts, NEW st, NEW onoff \in BOOLEAN,
         OrderReject(x, st, onoff)
  PROVE  ReportedFor(d)
<1> SUFFICES ASSUME IsOpen(d), ~IsLocal(orders[d]), orders'[d] # orders[d]
             PROVE  \E m \in ReportOf(orders[d], d) :
                      outbox' = [outbox EXCEPT ![orders[d].paraid] = Append(@, m)]
  BY DEF ReportedFor
<1>1. x = d
  BY DEF OrderReject, TypeOK
<1> DEFINE m == OrderRejectMsg(orders[d].client, d, onoff)
<1>2. outbox' = [outbox EXCEPT ![orders[d].paraid] = Append(outbox[orders[d].paraid], m)]
  BY <1>1 DEF OrderReject, Send
<1>3. m \in ReportOf(orders[d], d)
  BY DEF ReportOf
<1> QED
  BY <1>2, <1>3

LEMMA ReportedDone ==
  ASSUME TypeOK, NEW d \in Accounts, NEW x \in Accounts, NEW onoff \in BOOLEAN,
         Done(x, onoff)
  PROVE  ReportedFor(d)
<1> SUFFICES ASSUME IsOpen(d), ~IsLocal(orders[d]), orders'[d] # orders[d],
                    ~ \E flag \in BOOLEAN : DoneUnreported(d, flag)
             PROVE  \E m \in ReportOf(orders[d], d) :
                      outbox' = [outbox EXCEPT ![orders[d].paraid] = Append(@, m)]
  BY DEF ReportedFor
<1>1. DoneBegins(x, onoff)
  BY DEF Done, DoneLocal, DoneStranding, DoneRemote, DoneUnreported
<1>2. x = d
  BY <1>1 DEF DoneBegins, TypeOK
<1>3. DoneRemote(d, onoff)
  BY <1>2 DEF Done, DoneLocal, DoneStranding
<1> DEFINE m == OrderDoneMsg(orders[d].client, d, onoff)
<1>4. outbox' = [outbox EXCEPT ![orders[d].paraid] = Append(outbox[orders[d].paraid], m)]
  BY <1>3 DEF DoneRemote, Send
<1>5. m \in ReportOf(orders[d], d)
  BY DEF ReportOf
<1> QED
  BY <1>4, <1>5

\* A new order only takes a free place in the table.
LEMMA ReportedReceived ==
  ASSUME TypeOK, NEW d \in Accounts, NEW x \in Accounts, NEW o, OrderReceived(o, x)
  PROVE  ReportedFor(d)
BY DEF OrderReceived, Acceptable, TypeOK, ReportedFor

LEMMA ReportedStep ==
  ASSUME TypeOK, [Next]_vars, NEW d \in Accounts
  PROVE  ReportedFor(d)
<1>1. ASSUME NEW who \in Accounts, NEW base \in OrderBase, OrderCall(who, base)
      PROVE  ReportedFor(d)
  <2>1. base.device \in Accounts
    BY DEF OrderBase
  <2> QED
    BY <1>1, <2>1, ReportedReceived DEF OrderCall
<1>2. ASSUME NEW who \in Accounts, NEW x \in Accounts, Cancel(who, x)
      PROVE  ReportedFor(d)
  BY <1>2, ReportedReject DEF Cancel
<1>3. ASSUME NEW id \in Accounts, NEW onoff \in BOOLEAN, Reject(id, onoff)
      PROVE  ReportedFor(d)
  BY <1>3, ReportedReject DEF Reject
<1>4. ASSUME NEW id \in Accounts, NEW onoff \in BOOLEAN, Done(id, onoff)
      PROVE  ReportedFor(d)
  BY <1>4, ReportedDone
<1>5. ASSUME NEW sib \in Siblings, NEW msg \in OrderMsg,
             Handles(msg), HandleBlobMessage(sib, msg)
      PROVE  ReportedFor(d)
  <2>1. msg.order.device \in Accounts
    BY DEF OrderMsg, OrderBase
  <2> QED
    BY <1>5, <2>1, ReportedReceived DEF HandleBlobMessage
<1>6. CASE orders' = orders
  BY <1>6 DEF ReportedFor
<1>7. ASSUME NEW id \in Accounts, NEW onoff \in BOOLEAN, SetState(id, onoff)
      PROVE  ReportedFor(d)
  BY <1>6, <1>7 DEF SetState
<1>8. ASSUME NEW id \in Accounts, Accept(id)
      PROVE  ReportedFor(d)
  BY <1>6, <1>8 DEF Accept
<1>9. ASSUME NEW id \in Registrants, NEW pen \in Penalties, NEW w \in Durations,
             NEW onoff \in BOOLEAN, Register(id, pen, w, onoff)
      PROVE  ReportedFor(d)
  BY <1>6, <1>9 DEF Register
<1>10. ASSUME NEW who \in Accounts, NEW base \in OrderBase, OrderStranding(who, base)
       PROVE  ReportedFor(d)
  BY <1>6, <1>10 DEF OrderStranding
<1>11. CASE ChainStep \/ UNCHANGED vars
  BY <1>6, <1>11 DEF ChainStep, TransferFunds, NextBlock, OpenChannel, Carry, vars
<1> QED
  BY <1>1, <1>2, <1>3, <1>4, <1>5, <1>7, <1>8, <1>9, <1>10, <1>11
  DEF Next, PalletStep, DeviceStep

\* Cancel, reject and done drop a remote order in the very step that queues
\* its verdict for the parachain it came from, named after its own client and
\* device; done without a channel to that parachain is the one exception.
THEOREM RemoteSettlementReported == Spec => SettlementReported
<1>1. TypeOK /\ [Next]_vars
        => [\A d \in Accounts :
              (IsOpen(d) /\ ~IsLocal(orders[d]) /\ orders'[d] # orders[d]) =>
                LET o == orders[d]
                IN  \/ \E m \in ReportOf(o, d) :
                         outbox' = [outbox EXCEPT ![o.paraid] = Append(@, m)]
                    \/ \E onoff \in BOOLEAN : DoneUnreported(d, onoff)]_vars
  BY ReportedStep DEF ReportedFor
<1> QED
  BY <1>1, TypeCorrect, PTL DEF Spec, SettlementReported

(***************************************************************************)
(* Cancel has no error left to return.                                     *)
(***************************************************************************)

\* From the deadline on, what cancel and order_reject check of a living
\* client's local order holds: the device is registered (NoDevice) and, once
\* the fee is back, the collateral has a living account to go to (DeadAccount).
CancelUnhindered ==
  \A d \in Accounts :
    (IsLocal(orders[d]) /\ now >= orders[d].until /\ Signed(orders[d].client))
      => LET refunded == Unreserve(ledger, orders[d].client, orders[d].fee)
         IN  /\ devices[d] # NoDevice
             /\ CollateralPayable(refunded, orders[d], d)

\* Whatever devices and other clients do, a living client's late local order
\* passes every check of cancel and order_reject: the guards of Cancel that
\* CancelNeverBlocked asks for hold in every reachable state.
THEOREM CancelHasNoError == Spec => []CancelUnhindered
<1>1. ASSUME BusyInv, NEW d \in Accounts, IsLocal(orders[d]), Signed(orders[d].client)
      PROVE  /\ devices[d] # NoDevice
             /\ CollateralPayable(Unreserve(ledger, orders[d].client, orders[d].fee),
                                  orders[d], d)
  <2>1. TypeOK /\ IsOpen(d) /\ devices[d] # NoDevice
    BY <1>1 DEF BusyInv, OrderedDevicesAreBusy, IsLocal, IsOpen
  <2>2. orders[d].client \in Accounts /\ orders[d].fee \in Nat
    BY <2>1, KnownOrder
  <2>3. Exists(Unreserve(ledger, orders[d].client, orders[d].fee), orders[d].client)
    BY <1>1, <2>1, <2>2, UnreserveKeepsAlive DEF Signed, TypeOK, Ledgers
  <2> QED
    BY <2>1, <2>3 DEF CollateralPayable, CanRepatriate
<1>2. BusyInv => CancelUnhindered
  BY <1>1 DEF CancelUnhindered
<1> QED
  BY <1>2, BusyInvariant, PTL

-----------------------------------------------------------------------------
(***************************************************************************)
(* The reserve of every account covers what the open orders hold of it.    *)
(* Held fees are counted unit by unit, so adding or settling one order     *)
(* changes the count by that order's fee.                                  *)
(***************************************************************************)

OrderTable == [Accounts -> Order(ParaIds) \cup {NoOrder}]

\* What order o holds of the funds of its client x.
FeeOf(o, x) == IF IsLocal(o) /\ o.client = x THEN o.fee ELSE 0

LEMMA LocalOrder ==
  ASSUME NEW o \in Order(ParaIds) \cup {NoOrder}, IsLocal(o)
  PROVE  /\ o.client \in Accounts
         /\ o.fee \in Nat /\ o.fee <= MaxBalance /\ o.fee \in Fees
BY AmountTypes DEF IsLocal, Order

FeesOf(ords, x) == [d \in Accounts |-> FeeOf(ords[d], x)]

LEMMA FeesType ==
  ASSUME NEW ords \in OrderTable, NEW x
  PROVE  FeesOf(ords, x) \in FeeTable
<1>1. ASSUME NEW d \in Accounts
      PROVE  FeeOf(ords[d], x) \in 0 .. MaxBalance
  BY LocalOrder, AmountTypes DEF FeeOf, OrderTable
<1> QED
  BY <1>1 DEF FeesOf, FeeTable

LEMMA FeeUnitsAre ==
  ASSUME NEW ords \in OrderTable, NEW x
  PROVE  FeeUnits(ords, x) = Units(FeesOf(ords, x))
<1>1. ASSUME NEW u \in Accounts \X (1 .. MaxBalance)
      PROVE  u[2] <= FeesOf(ords, x)[u[1]]
               <=> /\ IsLocal(ords[u[1]]) /\ ords[u[1]].client = x
                   /\ u[2] <= ords[u[1]].fee
  <2>1. u[1] \in Accounts /\ u[2] \in 1 .. MaxBalance /\ MaxBalance \in Nat
    BY AmountTypes
  <2>2. FeesOf(ords, x)[u[1]] = FeeOf(ords[u[1]], x)
    BY <2>1 DEF FeesOf
  <2> QED
    BY <2>1, <2>2 DEF FeeOf
<1> QED
  BY <1>1 DEF FeeUnits, Units

LEMMA FeeUnitsFinite ==
  ASSUME NEW ords \in OrderTable, NEW x
  PROVE  IsFiniteSet(FeeUnits(ords, x)) /\ Cardinality(FeeUnits(ords, x)) \in Nat
BY FeeUnitsAre, UnitsFinite, ServiceAssumption

\* Putting an order where no local one was adds its fee to its client's count.
LEMMA FeeUnitsInsert ==
  ASSUME NEW ords \in OrderTable, NEW d \in Accounts, ~IsLocal(ords[d]),
         NEW o \in Order(ParaIds) \cup {NoOrder}, NEW x \in Accounts
  PROVE  Cardinality(FeeUnits([ords EXCEPT ![d] = o], x))
           = Cardinality(FeeUnits(ords, x)) + FeeOf(o, x)
<1> DEFINE fees == FeesOf(ords, x)
<1>1. FeeOf(o, x) \in 0 .. MaxBalance
  BY LocalOrder, AmountTypes DEF FeeOf
<1>2. fees \in FeeTable /\ fees[d] = 0
  BY FeesType DEF FeesOf, FeeOf
<1>3. [ords EXCEPT ![d] = o] \in OrderTable
  BY DEF OrderTable
<1>4. FeesOf([ords EXCEPT ![d] = o], x) = [fees EXCEPT ![d] = FeeOf(o, x)]
  BY DEF FeesOf, OrderTable
<1> HIDE DEF fees
<1>5. Cardinality(Units([fees EXCEPT ![d] = FeeOf(o, x)]))
        = Cardinality(Units(fees)) + FeeOf(o, x)
  BY <1>1, <1>2, UnitsInsert, ServiceAssumption
<1> QED
  BY <1>3, <1>4, <1>5, FeeUnitsAre DEF fees

\* Tables in which every device with an order is registered.
Tables(devs, ords) ==
  /\ devs \in [Accounts -> DeviceProfile \cup {NoDevice}]
  /\ ords \in OrderTable
  /\ \A d \in Accounts : ords[d] # NoOrder => devs[d] # NoDevice

LEMMA HeldCollateralType ==
  ASSUME NEW devs, NEW ords, Tables(devs, ords), NEW x \in Accounts
  PROVE  /\ HeldCollateral(devs, ords, x) \in Nat
         /\ IsLocal(ords[x]) => devs[x].penalty \in Penalties /\ devs[x].penalty \in Nat
<1>1. CASE IsLocal(ords[x])
  <2>1. devs[x] \in DeviceProfile
    BY <1>1 DEF Tables, IsLocal
  <2> QED
    BY <1>1, <2>1, AmountTypes DEF DeviceProfile, HeldCollateral
<1>2. CASE ~IsLocal(ords[x])
  BY <1>2 DEF HeldCollateral
<1> QED BY <1>1, <1>2

LEMMA HeldType ==
  ASSUME NEW devs, NEW ords, Tables(devs, ords), NEW x \in Accounts
  PROVE  Held(devs, ords, x) \in Nat
BY HeldCollateralType, FeeUnitsFinite DEF Held, Tables

\* If no single amount is below the deposit, no sum of holds is.
LEMMA HeldCoversDeposit ==
  ASSUME AmountsCoverDeposit, NEW devs, NEW ords, Tables(devs, ords), NEW x \in Accounts
  PROVE  Held(devs, ords, x) = 0 \/ Held(devs, ords, x) >= ExistentialDeposit
<1> DEFINE fees == FeesOf(ords, x)
<1>1. Cardinality(FeeUnits(ords, x)) \in Nat /\ HeldCollateral(devs, ords, x) \in Nat
  BY HeldCollateralType, FeeUnitsFinite DEF Tables
<1>2. HeldCollateral(devs, ords, x) = 0 \/ HeldCollateral(devs, ords, x) >= ExistentialDeposit
  BY HeldCollateralType DEF HeldCollateral, AmountsCoverDeposit
<1>3. fees \in FeeTable /\ FeeUnits(ords, x) = Units(fees)
  BY FeesType, FeeUnitsAre DEF Tables
<1>4. \A d \in Accounts : fees[d] = 0 \/ fees[d] >= ExistentialDeposit
  BY LocalOrder DEF FeesOf, FeeOf, Tables, OrderTable, AmountsCoverDeposit
<1> HIDE DEF fees
<1>5. CASE \A d \in Accounts : fees[d] = 0
  BY <1>1, <1>2, <1>3, <1>5, UnitsCount, ServiceAssumption, AmountTypes DEF Held
<1>6. CASE \E d \in Accounts : fees[d] # 0
  <2>1. PICK d \in Accounts : fees[d] >= ExistentialDeposit
    BY <1>4, <1>6
  <2>2. fees[d] <= Cardinality(FeeUnits(ords, x))
    BY <1>3, UnitsCount, ServiceAssumption
  <2>3. fees[d] \in Nat
    BY <1>3, AmountTypes DEF FeeTable
  <2> QED
    BY <1>1, <2>1, <2>2, <2>3, AmountTypes DEF Held
<1> QED BY <1>5, <1>6

\* What order o at device d holds of x, when the collateral is c.
HoldOf(o, d, c, x) == FeeOf(o, x) + IF x = d /\ IsLocal(o) THEN c ELSE 0

\* Storing an order where there was none adds its hold and nothing else.
LEMMA HeldInsert ==
  ASSUME NEW devs, NEW ords, Tables(devs, ords),
         NEW d \in Accounts, ~IsLocal(ords[d]), devs[d] \in DeviceProfile,
         NEW o \in Order(ParaIds) \cup {NoOrder}, NEW x \in Accounts
  PROVE  /\ HoldOf(o, d, devs[d].penalty, x) \in Nat
         /\ Held(devs, [ords EXCEPT ![d] = o], x)
              = Held(devs, ords, x) + HoldOf(o, d, devs[d].penalty, x)
<1> DEFINE after == [ords EXCEPT ![d] = o]
<1>1. Cardinality(FeeUnits(after, x)) = Cardinality(FeeUnits(ords, x)) + FeeOf(o, x)
  BY FeeUnitsInsert DEF Tables
<1>2. Cardinality(FeeUnits(ords, x)) \in Nat
  BY FeeUnitsFinite DEF Tables
<1>3. FeeOf(o, x) \in Nat
  BY LocalOrder DEF FeeOf
<1>4. devs[d].penalty \in Nat
  BY AmountTypes DEF DeviceProfile
<1>5. HeldCollateral(devs, ords, x) \in Nat
  BY HeldCollateralType
<1>6. HeldCollateral(devs, after, x)
        = HeldCollateral(devs, ords, x)
            + IF x = d /\ IsLocal(o) THEN devs[d].penalty ELSE 0
  <2>1. CASE x = d
    BY <1>4, <2>1 DEF HeldCollateral, Tables, OrderTable
  <2>2. CASE x # d
    BY <1>5, <2>2 DEF HeldCollateral, Tables, OrderTable
  <2> QED BY <2>1, <2>2
<1> HIDE DEF after
<1>7. HoldOf(o, d, devs[d].penalty, x) \in Nat
  BY <1>3, <1>4 DEF HoldOf
<1>8. Held(devs, after, x) = Held(devs, ords, x) + HoldOf(o, d, devs[d].penalty, x)
  BY <1>1, <1>2, <1>3, <1>4, <1>5, <1>6 DEF Held, HoldOf
<1> QED
  BY <1>7, <1>8 DEF after

\* Taking an order off the table releases its hold and nothing else.
LEMMA HeldRemove ==
  ASSUME NEW devs, NEW ords, Tables(devs, ords),
         NEW d \in Accounts, devs[d] \in DeviceProfile, NEW x \in Accounts
  PROVE  /\ HoldOf(ords[d], d, devs[d].penalty, x) \in Nat
         /\ Held(devs, ords, x)
              = Held(devs, [ords EXCEPT ![d] = NoOrder], x)
                  + HoldOf(ords[d], d, devs[d].penalty, x)
<1> DEFINE without == [ords EXCEPT ![d] = NoOrder]
<1>1. Tables(devs, without) /\ ~IsLocal(without[d])
  BY DEF Tables, OrderTable, IsLocal
<1>2. [without EXCEPT ![d] = ords[d]] = ords
  BY DEF Tables, OrderTable
<1>3. ords[d] \in Order(ParaIds) \cup {NoOrder}
  BY DEF Tables, OrderTable
<1> HIDE DEF without
<1>4. /\ HoldOf(ords[d], d, devs[d].penalty, x) \in Nat
      /\ Held(devs, [without EXCEPT ![d] = ords[d]], x)
           = Held(devs, without, x) + HoldOf(ords[d], d, devs[d].penalty, x)
  BY <1>1, <1>3, HeldInsert
<1> QED
  BY <1>2, <1>4 DEF without

\* A change of state, or of a device without a local order, moves no hold.
LEMMA HeldSamePenalties ==
  ASSUME NEW devs, NEW devs2, NEW ords,
         \A y \in Accounts : IsLocal(ords[y]) => devs2[y].penalty = devs[y].penalty,
         NEW x \in Accounts
  PROVE  Held(devs2, ords, x) = Held(devs, ords, x)
BY DEF Held, HeldCollateral

(***************************************************************************)
(* Settling a local order.                                                 *)
(***************************************************************************)

BackedInv == BusyInv /\ Backed

\* What the other orders hold once d's order is off the table, and the same
\* with d's collateral still to come.
NeedAfter(d) ==
  [x \in Accounts |-> Held(devices, [orders EXCEPT ![d] = NoOrder], x)]

NeedBetween(d) ==
  [x \in Accounts |-> NeedAfter(d)[x] + IF x = d THEN devices[d].penalty ELSE 0]

LEMMA CurrentTables ==
  ASSUME BusyInv
  PROVE  /\ Tables(devices, orders)
         /\ \A d \in Accounts : Tables(devices, [orders EXCEPT ![d] = NoOrder])
BY DEF BusyInv, TypeOK, OrderedDevicesAreBusy, IsOpen, Tables, OrderTable

LEMMA NeedTypes ==
  ASSUME BusyInv, NEW d \in Accounts, devices[d] # NoDevice
  PROVE  NeedAfter(d) \in Needs /\ NeedBetween(d) \in Needs
<1>1. NeedAfter(d) \in Needs
  BY CurrentTables, HeldType DEF NeedAfter, Needs
<1>2. devices[d].penalty \in Nat
  BY KnownDevice DEF BusyInv
<1> HIDE DEF NeedAfter
<1> QED
  BY <1>1, <1>2 DEF NeedBetween, Needs

LEMMA NeedsCoverDeposit ==
  ASSUME AmountsCoverDeposit, BusyInv, NEW d \in Accounts, devices[d] # NoDevice,
         NEW x \in Accounts
  PROVE  /\ NeedAfter(d)[x] = 0 \/ NeedAfter(d)[x] >= ExistentialDeposit
         /\ NeedBetween(d)[x] = 0 \/ NeedBetween(d)[x] >= ExistentialDeposit
<1>1. NeedAfter(d)[x] = 0 \/ NeedAfter(d)[x] >= ExistentialDeposit
  BY CurrentTables, HeldCoversDeposit DEF NeedAfter
<1>2. devices[d].penalty = 0 \/ devices[d].penalty >= ExistentialDeposit
  BY KnownDevice DEF BusyInv, AmountsCoverDeposit, DeviceProfile
<1>3. NeedAfter(d)[x] \in Nat /\ devices[d].penalty \in Nat
  BY NeedTypes, KnownDevice DEF BusyInv, Needs
<1>4. NeedBetween(d)[x] = NeedAfter(d)[x] + IF x = d THEN devices[d].penalty ELSE 0
  BY DEF NeedBetween
<1> HIDE DEF NeedAfter, NeedBetween
<1> QED
  BY <1>1, <1>2, <1>3, <1>4, AmountTypes

\* The reserve covers the fee on top of what remains needed in between.
LEMMA OrderHolds ==
  ASSUME BackedInv, NEW d \in Accounts, IsLocal(orders[d]), NEW x \in Accounts
  PROVE  NeedBetween(d)[x] + (IF x = orders[d].client THEN orders[d].fee ELSE 0)
           <= ledger[x].reserved
<1>1. BusyInv /\ TypeOK /\ IsOpen(d)
  BY DEF BackedInv, BusyInv, IsLocal, IsOpen
<1>2. devices[d] # NoDevice /\ devices[d] \in DeviceProfile /\ devices[d].penalty \in Nat
  BY <1>1, KnownDevice DEF BusyInv, OrderedDevicesAreBusy
<1>3. orders[d].fee \in Nat
  BY <1>1, KnownOrder
<1>4. Held(devices, orders, x)
        = NeedAfter(d)[x] + HoldOf(orders[d], d, devices[d].penalty, x)
  BY <1>1, <1>2, CurrentTables, HeldRemove DEF NeedAfter
<1>5. Held(devices, orders, x) <= ledger[x].reserved
  BY DEF BackedInv, Backed
<1>6. NeedAfter(d)[x] \in Nat
  BY <1>1, <1>2, NeedTypes DEF Needs
<1>7. NeedBetween(d)[x] = NeedAfter(d)[x] + IF x = d THEN devices[d].penalty ELSE 0
  BY DEF NeedBetween
<1>8. ledger[x].reserved \in Nat
  BY <1>1 DEF TypeOK, Account
<1> HIDE DEF NeedAfter, NeedBetween
<1>9. HoldOf(orders[d], d, devices[d].penalty, x)
        = (IF x = orders[d].client THEN orders[d].fee ELSE 0)
            + IF x = d THEN devices[d].penalty ELSE 0
  BY DEF HoldOf, FeeOf
<1> QED
  BY <1>2, <1>3, <1>4, <1>5, <1>6, <1>7, <1>8, <1>9

LEMMA FeeSettled ==
  ASSUME AmountsCoverDeposit, BackedInv, NEW d \in Accounts, IsLocal(orders[d])
  PROVE  /\ Covers(FeePaid(orders[d], d), NeedBetween(d))
         /\ Covers(Unreserve(ledger, orders[d].client, orders[d].fee), NeedBetween(d))
<1>1. BusyInv /\ TypeOK /\ IsOpen(d) /\ devices[d] # NoDevice
  BY DEF BackedInv, BusyInv, IsLocal, IsOpen, OrderedDevicesAreBusy
<1>2. orders[d].fee \in Nat /\ orders[d].client \in Accounts
  BY <1>1, KnownOrder
<1>3. NeedBetween(d) \in Needs
  BY <1>1, NeedTypes
<1>4. NeedBetween(d)[orders[d].client] = 0
        \/ NeedBetween(d)[orders[d].client] >= ExistentialDeposit
  BY <1>1, <1>2, NeedsCoverDeposit
<1>5. ledger \in Ledgers
  BY <1>1 DEF TypeOK, Ledgers
<1>6. \A x \in Accounts :
        NeedBetween(d)[x] + (IF x = orders[d].client THEN orders[d].fee ELSE 0)
          <= ledger[x].reserved
  BY OrderHolds
<1> HIDE DEF NeedBetween
<1>7. Covers(Repatriate(ledger, orders[d].client, d, orders[d].fee), NeedBetween(d))
  BY <1>2, <1>3, <1>4, <1>5, <1>6, RepatriateCovers
<1>8. Covers(Unreserve(ledger, orders[d].client, orders[d].fee), NeedBetween(d))
  BY <1>2, <1>3, <1>5, <1>6, UnreserveCovers
<1> QED
  BY <1>7, <1>8 DEF FeePaid

LEMMA CollateralSettled ==
  ASSUME AmountsCoverDeposit, BackedInv, NEW d \in Accounts, IsLocal(orders[d]),
         NEW l \in Ledgers, Covers(l, NeedBetween(d))
  PROVE  Covers(CollateralReturned(l, orders[d], d), NeedAfter(d))
<1>1. BusyInv /\ TypeOK /\ IsOpen(d) /\ devices[d] # NoDevice
  BY DEF BackedInv, BusyInv, IsLocal, IsOpen, OrderedDevicesAreBusy
<1>2. devices[d].penalty \in Nat /\ orders[d].client \in Accounts
  BY <1>1, KnownDevice, KnownOrder
<1>3. NeedAfter(d) \in Needs
  BY <1>1, NeedTypes
<1>4. NeedAfter(d)[d] = 0 \/ NeedAfter(d)[d] >= ExistentialDeposit
  BY <1>1, NeedsCoverDeposit
<1>5. \A x \in Accounts :
        NeedAfter(d)[x] + (IF x = d THEN devices[d].penalty ELSE 0) <= l[x].reserved
  BY DEF Covers, NeedBetween
<1> HIDE DEF NeedAfter
<1> QED
  BY <1>2, <1>3, <1>4, <1>5, RepatriateCovers, UnreserveCovers DEF CollateralReturned

(***************************************************************************)
(* Every step keeps the reserves sufficient.                               *)
(***************************************************************************)

\* A change of states alone leaves what an order table holds as it is.
LEMMA HeldAfterState ==
  ASSUME BusyInv, NEW d \in Accounts, devices[d] # NoDevice, NEW st,
         devices' = WithState(d, st), NEW ords, NEW x \in Accounts
  PROVE  Held(devices', ords, x) = Held(devices, ords, x)
<1>1. devices[d] \in DeviceProfile /\ DOMAIN devices = Accounts
  BY KnownDevice DEF BusyInv, TypeOK
<1>2. [devices[d] EXCEPT !.state = st].penalty = devices[d].penalty
  BY <1>1 DEF DeviceProfile
<1>3. \A y \in Accounts : devices'[y].penalty = devices[y].penalty
  BY <1>1, <1>2 DEF WithState
<1> QED
  BY <1>3 DEF Held, HeldCollateral

LEMMA BackedUnchanged ==
  ASSUME BackedInv, BusyInv', ledger' = ledger, orders' = orders,
         \A y \in Accounts : IsLocal(orders[y]) => devices'[y].penalty = devices[y].penalty
  PROVE  Backed'
<1>1. \A x \in Accounts : Held(devices', orders, x) = Held(devices, orders, x)
  BY HeldSamePenalties
<1> QED
  BY <1>1 DEF BackedInv, Backed

\* The order of d leaves the table: what remains needed is still covered.
LEMMA BackedAfterRemoval ==
  ASSUME BackedInv, BusyInv', NEW d \in Accounts, devices[d] # NoDevice, NEW st,
         devices' = WithState(d, st), orders' = [orders EXCEPT ![d] = NoOrder],
         Covers(ledger', NeedAfter(d))
  PROVE  Backed'
<1>1. BusyInv
  BY DEF BackedInv
<1>2. \A x \in Accounts : Held(devices', orders', x) = NeedAfter(d)[x]
  BY <1>1, HeldAfterState DEF NeedAfter
<1> HIDE DEF NeedAfter
<1> QED
  BY <1>2 DEF Backed, Covers

LEMMA NeedAfterCovered ==
  ASSUME BackedInv, NEW d \in Accounts, devices[d] # NoDevice
  PROVE  /\ Covers(ledger, NeedAfter(d))
         /\ \A l \in Ledgers : Covers(l, NeedBetween(d)) => Covers(l, NeedAfter(d))
<1>1. BusyInv /\ TypeOK /\ devices[d] \in DeviceProfile /\ devices[d].penalty \in Nat
  BY KnownDevice DEF BackedInv, BusyInv
<1>2. NeedAfter(d) \in Needs
  BY <1>1, NeedTypes
<1>3. ASSUME NEW x \in Accounts
      PROVE  NeedAfter(d)[x] <= ledger[x].reserved
  <2>1. /\ HoldOf(orders[d], d, devices[d].penalty, x) \in Nat
        /\ Held(devices, orders, x)
             = NeedAfter(d)[x] + HoldOf(orders[d], d, devices[d].penalty, x)
    BY <1>1, CurrentTables, HeldRemove DEF NeedAfter
  <2>2. Held(devices, orders, x) <= ledger[x].reserved /\ ledger[x].reserved \in Nat
    BY <1>1 DEF BackedInv, Backed, TypeOK, Account
  <2>3. NeedAfter(d)[x] \in Nat
    BY <1>2 DEF Needs
  <2> HIDE DEF NeedAfter
  <2> QED
    BY <2>1, <2>2, <2>3
<1>4. ASSUME NEW l \in Ledgers, Covers(l, NeedBetween(d)), NEW x \in Accounts
      PROVE  NeedAfter(d)[x] <= l[x].reserved
  <2>1. NeedBetween(d)[x] = NeedAfter(d)[x] + IF x = d THEN devices[d].penalty ELSE 0
    BY DEF NeedBetween
  <2>2. NeedBetween(d)[x] <= l[x].reserved /\ l[x].reserved \in Nat
    BY <1>4 DEF Covers, Ledgers, Account
  <2>3. NeedAfter(d)[x] \in Nat
    BY <1>2 DEF Needs
  <2> HIDE DEF NeedAfter, NeedBetween
  <2> QED
    BY <1>1, <2>1, <2>2, <2>3
<1> QED
  BY <1>3, <1>4 DEF Covers

\* An order that is received reserves exactly what it then holds.
LEMMA ReceivedHolds ==
  ASSUME BackedInv, BusyInv',
         NEW o \in Order(ParaIds), NEW d \in Accounts, OrderReceived(o, d),
         NEW x \in Accounts
  PROVE  /\ HoldOf(o, d, devices[d].penalty, x) \in Nat
         /\ Held(devices', orders', x)
              = Held(devices, orders, x) + HoldOf(o, d, devices[d].penalty, x)
         /\ ledger'[x].reserved = ledger[x].reserved + HoldOf(o, d, devices[d].penalty, x)
         /\ Held(devices, orders, x) <= ledger[x].reserved
         /\ Held(devices, orders, x) \in Nat /\ ledger[x].reserved \in Nat
<1>1. BusyInv /\ TypeOK /\ devices[d] # NoDevice /\ ~IsLocal(orders[d])
  BY DEF BackedInv, BusyInv, OrderReceived, Acceptable, IsOpen, IsLocal
<1>2. /\ devices' = WithState(d, OnReceived)
      /\ orders' = [orders EXCEPT ![d] = o]
  BY DEF OrderReceived
<1>3. devices[d] \in DeviceProfile /\ devices[d].penalty \in Nat
  BY <1>1, KnownDevice
<1>4. /\ HoldOf(o, d, devices[d].penalty, x) \in Nat
      /\ Held(devices', orders', x)
           = Held(devices, orders, x) + HoldOf(o, d, devices[d].penalty, x)
  <2>1. Held(devices', orders', x) = Held(devices, orders', x)
    BY <1>1, <1>2, HeldAfterState
  <2>2. Tables(devices, orders)
    BY <1>1, CurrentTables
  <2>3. /\ HoldOf(o, d, devices[d].penalty, x) \in Nat
        /\ Held(devices, [orders EXCEPT ![d] = o], x)
             = Held(devices, orders, x) + HoldOf(o, d, devices[d].penalty, x)
    BY <1>1, <1>3, <2>2, HeldInsert
  <2> QED
    BY <1>2, <2>1, <2>3
<1>5. /\ Held(devices, orders, x) <= ledger[x].reserved
      /\ Held(devices, orders, x) \in Nat /\ ledger[x].reserved \in Nat
  BY <1>1, CurrentTables, HeldType DEF BackedInv, Backed, TypeOK, Account
<1>6. ledger'[x].reserved = ledger[x].reserved + HoldOf(o, d, devices[d].penalty, x)
  <2>1. CASE ~IsLocal(o)
    <3>1. ledger' = ledger /\ HoldOf(o, d, devices[d].penalty, x) = 0
      BY <2>1 DEF OrderReceived, HoldOf, FeeOf
    <3> QED
      BY <1>5, <3>1
  <2>2. CASE IsLocal(o)
    <3> DEFINE first == Reserve(ledger, d, devices[d].penalty)
    <3>1. o.client \in Accounts /\ o.fee \in Nat
      BY <2>2, LocalOrder
    <3>2. /\ ledger' = Reserve(first, o.client, o.fee)
          /\ CanReserve(ledger, d, devices[d].penalty)
      BY <2>2 DEF OrderReceived, HeldForOrder
    <3>3. first \in Ledgers
      BY <1>1, <1>3, <3>2, ReserveType DEF TypeOK, Ledgers
    <3>4. first[x].reserved
            = ledger[x].reserved + IF x = d THEN devices[d].penalty ELSE 0
      BY <1>1, <1>3 DEF Reserve, TypeOK, Account
    <3> HIDE DEF first
    <3>5. ledger'[x].reserved
            = first[x].reserved + IF x = o.client THEN o.fee ELSE 0
      BY <3>1, <3>2, <3>3 DEF Reserve, Ledgers, Account
    <3>6. HoldOf(o, d, devices[d].penalty, x)
            = (IF x = o.client THEN o.fee ELSE 0) + IF x = d THEN devices[d].penalty ELSE 0
      BY <2>2 DEF HoldOf, FeeOf
    <3> QED
      BY <1>3, <1>5, <3>1, <3>4, <3>5, <3>6
  <2> QED BY <2>1, <2>2
<1> QED
  BY <1>4, <1>5, <1>6

LEMMA BackedReceived ==
  ASSUME BackedInv, BusyInv',
         NEW o \in Order(ParaIds), NEW d \in Accounts, OrderReceived(o, d)
  PROVE  Backed'
<1>1. ASSUME NEW x \in Accounts
      PROVE  Held(devices', orders', x) <= ledger'[x].reserved
  BY ReceivedHolds
<1> QED
  BY <1>1 DEF Backed

LEMMA BackedRejected ==
  ASSUME AmountsCoverDeposit, BackedInv, BusyInv', NEW d \in Accounts,
         devices[d] # NoDevice, NEW st, NEW onoff, OrderReject(d, st, onoff)
  PROVE  Backed'
<1>1. BusyInv /\ TypeOK
  BY DEF BackedInv, BusyInv
<1>2. Covers(ledger', NeedAfter(d))
  <2>1. CASE IsLocal(orders[d])
    <3> DEFINE refunded == Unreserve(ledger, orders[d].client, orders[d].fee)
    <3>1. Covers(refunded, NeedBetween(d))
      BY <2>1, FeeSettled
    <3>2. refunded \in Ledgers
      <4>1. IsOpen(d)
        BY <2>1 DEF IsLocal, IsOpen
      <4> QED
        BY <1>1, <4>1, KnownOrder, UnreserveType DEF TypeOK, Ledgers
    <3>3. ledger' = CollateralReturned(refunded, orders[d], d)
      BY <2>1 DEF OrderReject
    <3> HIDE DEF refunded
    <3> QED
      BY <2>1, <3>1, <3>2, <3>3, CollateralSettled
  <2>2. CASE ~IsLocal(orders[d])
    <3>1. ledger' = ledger
      BY <2>2 DEF OrderReject
    <3>2. Covers(ledger, NeedAfter(d))
      BY NeedAfterCovered
    <3> QED
      BY <3>1, <3>2
  <2> QED BY <2>1, <2>2
<1>3. devices' = WithState(d, st) /\ orders' = [orders EXCEPT ![d] = NoOrder]
  BY DEF OrderReject
<1> QED
  BY <1>2, <1>3, BackedAfterRemoval

LEMMA BackedDone ==
  ASSUME AmountsCoverDeposit, BackedInv, BusyInv',
         NEW d \in Accounts, NEW onoff \in BOOLEAN, Done(d, onoff)
  PROVE  Backed'
<1>1. DoneBegins(d, onoff)
  BY DEF Done, DoneLocal, DoneStranding, DoneRemote, DoneUnreported
<1>2. /\ devices[d] # NoDevice /\ IsOpen(d)
      /\ devices' = WithState(d, IdleState(onoff))
      /\ orders' = [orders EXCEPT ![d] = NoOrder]
  BY <1>1 DEF DoneBegins
<1>3. BusyInv /\ TypeOK
  BY DEF BackedInv, BusyInv
<1>4. FeePaid(orders[d], d) \in Ledgers
  BY <1>2, <1>3, KnownOrder, RepatriateType DEF FeePaid, TypeOK, Ledgers
<1>5. Covers(ledger', NeedAfter(d))
  <2>1. CASE DoneLocal(d, onoff)
    <3>1. /\ IsLocal(orders[d])
          /\ ledger' = CollateralReturned(FeePaid(orders[d], d), orders[d], d)
      BY <2>1 DEF DoneLocal
    <3> QED
      BY <1>4, <3>1, FeeSettled, CollateralSettled
  <2>2. CASE DoneStranding(d, onoff)
    <3>1. IsLocal(orders[d]) /\ ledger' = FeePaid(orders[d], d)
      BY <2>2 DEF DoneStranding
    <3>2. Covers(FeePaid(orders[d], d), NeedBetween(d))
      BY <3>1, FeeSettled
    <3> QED
      BY <1>2, <1>4, <3>1, <3>2, NeedAfterCovered
  <2>3. CASE DoneRemote(d, onoff) \/ DoneUnreported(d, onoff)
    <3>1. ledger' = ledger
      BY <2>3 DEF DoneRemote, DoneUnreported
    <3>2. Covers(ledger, NeedAfter(d))
      BY <1>2, NeedAfterCovered
    <3> QED
      BY <3>1, <3>2
  <2> QED BY <2>1, <2>2, <2>3 DEF Done
<1> QED
  BY <1>2, <1>5, BackedAfterRemoval

LEMMA BackedStep ==
  ASSUME AmountsCoverDeposit, BackedInv, BusyInv', [Next]_vars
  PROVE  Backed'
<1>0. BusyInv /\ TypeOK
  BY DEF BackedInv, BusyInv
<1>1. ASSUME NEW who \in Accounts, NEW base \in OrderBase, OrderCall(who, base)
      PROVE  Backed'
  BY <1>1, StoredOrderType, BackedReceived DEF OrderCall, ParaIds, OrderBase
<1>2. ASSUME NEW who \in Accounts, NEW base \in OrderBase, OrderStranding(who, base)
      PROVE  Backed'
  <2> DEFINE d == base.device
  <2>1. d \in Accounts /\ devices[d] # NoDevice
    BY <1>2 DEF OrderStranding, Acceptable, OrderBase
  <2>2. /\ devices' = devices /\ orders' = orders
        /\ ledger' = Reserve(ledger, d, devices[d].penalty)
    BY <1>2 DEF OrderStranding
  <2>3. devices[d].penalty \in Nat
    BY <1>0, <2>1, KnownDevice
  <2>4. \A x \in Accounts : ledger'[x].reserved
          = ledger[x].reserved + IF x = d THEN devices[d].penalty ELSE 0
    BY <1>0, <2>1, <2>2 DEF Reserve, TypeOK, Account
  <2>5. ASSUME NEW x \in Accounts
        PROVE  Held(devices, orders, x) <= ledger'[x].reserved
    <3>1. /\ Held(devices, orders, x) <= ledger[x].reserved
          /\ Held(devices, orders, x) \in Nat /\ ledger[x].reserved \in Nat
      BY <1>0, CurrentTables, HeldType DEF BackedInv, Backed, TypeOK, Account
    <3> QED
      BY <2>3, <2>4, <3>1
  <2> QED
    BY <2>2, <2>5 DEF Backed
<1>3. ASSUME NEW who \in Accounts, NEW d \in Accounts, Cancel(who, d)
      PROVE  Backed'
  BY <1>3, BackedRejected DEF Cancel
<1>4. ASSUME NEW id \in Accounts, NEW onoff \in BOOLEAN, Reject(id, onoff)
      PROVE  Backed'
  BY <1>4, BackedRejected DEF Reject
<1>5. ASSUME NEW id \in Accounts, NEW onoff \in BOOLEAN, Done(id, onoff)
      PROVE  Backed'
  BY <1>5, BackedDone
<1>6. ASSUME NEW id \in Accounts, devices[id] # NoDevice, NEW st,
             devices' = WithState(id, st), ledger' = ledger, orders' = orders
      PROVE  Backed'
  <2>1. \A y \in Accounts : devices'[y].penalty = devices[y].penalty
    BY <1>0, <1>6, KnownDevice DEF TypeOK, WithState, DeviceProfile
  <2> QED
    BY <1>6, <2>1, BackedUnchanged
<1>7. ASSUME NEW id \in Accounts, NEW onoff \in BOOLEAN,
             SetState(id, onoff) \/ Accept(id)
      PROVE  Backed'
  BY <1>6, <1>7 DEF SetState, Accept
<1>8. ASSUME NEW id \in Registrants, NEW pen \in Penalties, NEW w \in Durations,
             NEW onoff \in BOOLEAN, Register(id, pen, w, onoff)
      PROVE  Backed'
  <2>1. /\ orders' = orders /\ ledger' = ledger /\ ~IsLocal(orders[id])
        /\ \A y \in Accounts \ {id} : devices'[y] = devices[y]
    BY <1>0, <1>8 DEF Register, IsOpen, IsLocal, TypeOK
  <2>2. \A y \in Accounts : IsLocal(orders[y]) => devices'[y].penalty = devices[y].penalty
    BY <2>1
  <2> QED
    BY <2>1, <2>2, BackedUnchanged
<1>9. ASSUME NEW sib \in Siblings, NEW msg \in OrderMsg,
             Handles(msg), HandleBlobMessage(sib, msg)
      PROVE  Backed'
  <2>1. /\ StoredOrder(msg.order, msg.client, sib) \in Order(ParaIds)
        /\ msg.order.device \in Accounts
    BY StoredOrderType DEF ParaIds, OrderBase, OrderMsg
  <2> QED
    BY <1>9, <2>1, BackedReceived DEF HandleBlobMessage
<1>10. ASSUME NEW from \in Accounts, NEW to \in Accounts, TransferFunds(from, to)
       PROVE  Backed'
  <2> DEFINE need == [x \in Accounts |-> Held(devices, orders, x)]
  <2>1. PICK v \in 1 .. ledger[from].free :
          CanTransfer(ledger, from, to, v) /\ ledger' = Transfer(ledger, from, to, v)
    BY <1>10 DEF TransferFunds
  <2>2. v \in Nat
    BY <1>0, <2>1 DEF TypeOK, Account
  <2>3. need \in Needs /\ (need[from] = 0 \/ need[from] >= ExistentialDeposit)
    BY <1>0, CurrentTables, HeldType, HeldCoversDeposit DEF Needs
  <2>4. Covers(ledger, need)
    BY DEF Covers, BackedInv, Backed
  <2>5. ledger \in Ledgers
    BY <1>0 DEF TypeOK, Ledgers
  <2>6. \A x \in Accounts : need[x] = Held(devices, orders, x)
    OBVIOUS
  <2> HIDE DEF need
  <2>7. Covers(ledger', need)
    BY <2>1, <2>2, <2>3, <2>4, <2>5, TransferCovers
  <2>8. devices' = devices /\ orders' = orders
    BY <1>10 DEF TransferFunds
  <2> QED
    BY <2>6, <2>7, <2>8 DEF Covers, Backed
<1>11. ASSUME UNCHANGED <<devices, orders, ledger>>
       PROVE  Backed'
  BY <1>11 DEF BackedInv, Backed
<1>12. CASE NextBlock \/ (\E p \in Siblings : OpenChannel(p) \/ Carry(p)) \/ UNCHANGED vars
  BY <1>11, <1>12 DEF NextBlock, OpenChannel, Carry, vars
<1> QED
  BY <1>1, <1>2, <1>3, <1>4, <1>5, <1>7, <1>8, <1>9, <1>10, <1>12
  DEF Next, PalletStep, ChainStep, DeviceStep

\* The invariant of every behaviour.
LEMMA BackedInvariant == ASSUME AmountsCoverDeposit PROVE Spec => []BackedInv
<1>1. Init => BackedInv
  <2> SUFFICES ASSUME Init PROVE BackedInv
    OBVIOUS
  <2>1. TypeOK
    BY TypeInit
  <2>2. \A x \in Accounts : orders[x] = NoOrder
    BY DEF Init
  <2>3. BusyInv
    BY <2>1, <2>2 DEF BusyInv, OrderedDevicesAreBusy, IsOpen
  <2>4. ASSUME NEW x \in Accounts
        PROVE  Held(devices, orders, x) <= ledger[x].reserved
    <3>1. FeeUnits(orders, x) = {} /\ HeldCollateral(devices, orders, x) = 0
      BY <2>2 DEF FeeUnits, HeldCollateral, IsLocal
    <3>2. Held(devices, orders, x) = 0
      BY <3>1, FS_EmptySet DEF Held
    <3> QED
      BY <2>1, <3>2 DEF TypeOK, Account
  <2> QED
    BY <2>3, <2>4 DEF BackedInv, Backed
<1>2. BackedInv /\ [Next]_vars => BackedInv'
  BY TypeStep, BusyStep, BackedStep DEF BackedInv, BusyInv
<1> QED
  BY <1>1, <1>2, PTL DEF Spec

\* No account is ever client or device of more than its reserve can pay: as
\* long as no amount is below the existential deposit, the reserve covers all
\* open local orders, for any number of accounts and orders and through every
\* error that order_received and order_done return half way.
THEOREM ReservesBacked == ASSUME AmountsCoverDeposit PROVE Spec => []Backed
<1>1. BackedInv => Backed
  BY DEF BackedInv
<1> QED
  BY <1>1, BackedInvariant, PTL

=============================================================================

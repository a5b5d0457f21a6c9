---------------------------- MODULE ClientPallet ----------------------------
(***************************************************************************)
(* pallets/client/src/lib.rs: the pallet of the parachain the clients live *)
(* on.  A device of another parachain registers here as well, with the id  *)
(* of that parachain.  An order reserves the fee and the collateral on     *)
(* THIS chain and is sent to the device's parachain; the verdict that      *)
(* comes back (OrderReject, OrderDone) settles it.  A client that hears    *)
(* nothing cancels after the deadline.                                     *)
(*                                                                         *)
(* As in the service pallet, an error keeps what was written before it.    *)
(* OrderStranding, OrderUnsent, OnRejectStuck and OnDoneStuck are the      *)
(* errors that follow a write.                                             *)
(***************************************************************************)
EXTENDS PalletCommon, FiniteSets

CONSTANTS DeviceParas, TestPara, Registrants, GenesisFree,
          NoDevice, NoOrder, MaxNow, MaxInFlight

Paras == DeviceParas \cup {TestPara}

DeviceProfile ==
  [state : DeviceState, penalty : Penalties, wcd : Durations, paraid : DeviceParas]

\* Order::convert leaves the parachain of a stored order unset.
Unset == 0

ASSUME ClientAssumption ==
  /\ IsFiniteSet(Accounts)
  /\ Registrants \subseteq Accounts
  /\ GenesisFree \in [Accounts -> {0} \cup {f \in Nat : f >= ExistentialDeposit}]
  /\ NoDevice \notin DeviceProfile
  /\ NoOrder \notin Order({Unset})
  /\ MaxNow \in Nat /\ MaxInFlight \in Nat

VARIABLES
  devices,  \* Device: the profile of a registered device, or NoDevice
  orders,   \* Orders: the open order of a device, or NoOrder
  ledger,   \* the balances of the chain
  now,      \* the timestamp of the current block
  open,     \* the parachains to which an HRMP channel is open
  outbox    \* the messages under way to each parachain

vars == <<devices, orders, ledger, now, open, outbox>>

\* The two bytes of `test` decode to no XCMPMessage.
Undecodable == [kind |-> "Undecodable"]

SentMsg == OrderMsg \cup {Undecodable}

TypeOK ==
  /\ devices \in [Accounts -> DeviceProfile \cup {NoDevice}]
  /\ orders \in [Accounts -> Order({Unset}) \cup {NoOrder}]
  /\ ledger \in [Accounts -> Account]
  /\ now \in Nat
  /\ open \in SUBSET Paras
  /\ outbox \in [Paras -> Seq(SentMsg)]

Init ==
  /\ devices = [x \in Accounts |-> NoDevice]
  /\ orders = [x \in Accounts |-> NoOrder]
  /\ ledger = [x \in Accounts |-> [free |-> GenesisFree[x], reserved |-> 0]]
  /\ now = 0
  /\ open = {}
  /\ outbox = [p \in Paras |-> <<>>]

-----------------------------------------------------------------------------
\* An extrinsic is signed by a living account, which paid for it.
Signed(who) == Exists(ledger, who)

IsOpen(d) == orders[d] # NoOrder

\* Device::insert with a new state.
WithState(d, st) == [devices EXCEPT ![d] = [devices[d] EXCEPT !.state = st]]

\* XcmpMessageSender::send_blob_message, when it succeeds.
Send(p, m) ==
  /\ p \in open /\ Len(outbox[p]) < MaxInFlight
  /\ outbox' = [outbox EXCEPT ![p] = Append(outbox[p], m)]

\* The checks of order, in front of its first write.
Acceptable(who, base) ==
  LET d == base.device IN
  /\ Signed(who)
  /\ now < base.until
  /\ ~IsOpen(d)
  /\ devices[d] # NoDevice
  /\ devices[d].state = "Ready"
  /\ ~Rush(base.until, now, devices[d].wcd)
  /\ CanReserve(ledger, who, base.fee)
  /\ CanReserve(ledger, d, devices[d].penalty)

CollateralReserved(base) == Reserve(ledger, base.device, devices[base.device].penalty)

\* Variant: that the device can put up its collateral is checked, not done.
OrderStoredFeeOnly(who, base) ==
  /\ Acceptable(who, base)
  /\ ledger' = Reserve(ledger, who, base.fee)
  /\ orders' = [orders EXCEPT ![base.device] = StoredOrder(base, who, Unset)]

\* Both amounts are reserved and the order is stored.
OrderStored(who, base) ==
  /\ Acceptable(who, base)
  /\ CanReserve(CollateralReserved(base), who, base.fee)
  /\ ledger' = Reserve(CollateralReserved(base), who, base.fee)
  /\ orders' = [orders EXCEPT ![base.device] = StoredOrder(base, who, Unset)]

\* The collateral goes back in time and to `to` when it is late.
CollateralReturned(l, d, to) ==
  IF now < orders[d].until
    THEN Unreserve(l, d, devices[d].penalty)
    ELSE Repatriate(l, d, to, devices[d].penalty)

CollateralPayable(l, d, to) ==
  now < orders[d].until \/ CanRepatriate(l, d, to, devices[d].penalty)

\* order_reject refunds `who`, but a late collateral goes to the order's client.
FeeRefunded(who, d) == Unreserve(ledger, who, orders[d].fee)

\* Variant: the order is not removed.
OrderRejectKeeping(who, d, st) ==
  /\ CollateralPayable(FeeRefunded(who, d), d, orders[d].client)
  /\ ledger' = CollateralReturned(FeeRefunded(who, d), d, orders[d].client)
  /\ UNCHANGED orders
  /\ devices' = WithState(d, st)

OrderReject(who, d, st) ==
  /\ CollateralPayable(FeeRefunded(who, d), d, orders[d].client)
  /\ ledger' = CollateralReturned(FeeRefunded(who, d), d, orders[d].client)
  /\ orders' = [orders EXCEPT ![d] = NoOrder]
  /\ devices' = WithState(d, st)

\* Variant: the two amounts of an order are mixed up.
FeePaidSwapped(who, d) == Repatriate(ledger, who, d, devices[d].penalty)

FeePaid(who, d) == Repatriate(ledger, who, d, orders[d].fee)

-----------------------------------------------------------------------------
(***************************************************************************)
(* The dispatchables.                                                      *)
(***************************************************************************)

\* Variant: the device is not marked Busy.
OrderCallNotBusy(who, base) ==
  LET d == base.device IN
  /\ OrderStored(who, base)
  /\ Send(devices[d].paraid,
          NewOrderMsg(who, SentOrder(StoredOrder(base, who, Unset), d)))
  /\ UNCHANGED <<devices, now, open>>

OrderCall(who, base) ==
  LET d == base.device IN
  /\ OrderStored(who, base)
  /\ Send(devices[d].paraid,
          NewOrderMsg(who, SentOrder(StoredOrder(base, who, Unset), d)))
  /\ devices' = WithState(d, "Busy")
  /\ UNCHANGED <<now, open>>

\* CannotReachDestination: the order and its holds stay, the device is left
\* as it was.
OrderUnsent(who, base) ==
  /\ OrderStored(who, base)
  /\ devices[base.device].paraid \notin open
  /\ UNCHANGED <<devices, now, open, outbox>>

\* A device that orders from itself and lacks the fee beside its collateral.
OrderStranding(who, base) ==
  /\ Acceptable(who, base)
  /\ ~CanReserve(CollateralReserved(base), who, base.fee)
  /\ ledger' = CollateralReserved(base)
  /\ UNCHANGED <<devices, orders, now, open, outbox>>

\* Variants: only while the device is Busy, without the check of the deadline,
\* and with a strict one.
CancelBusy(who, d) ==
  /\ Signed(who)
  /\ IsOpen(d)
  /\ now >= orders[d].until /\ orders[d].client = who
  /\ devices[d] # NoDevice /\ devices[d].state = "Busy"
  /\ OrderReject(who, d, devices[d].state)
  /\ UNCHANGED <<now, open, outbox>>
CancelAnytime(who, d) ==
  /\ Signed(who)
  /\ IsOpen(d)
  /\ orders[d].client = who
  /\ devices[d] # NoDevice
  /\ OrderReject(who, d, devices[d].state)
  /\ UNCHANGED <<now, open, outbox>>
CancelAfterDeadline(who, d) == CancelAnytime(who, d) /\ now > orders[d].until

Cancel(who, d) ==
  /\ Signed(who)
  /\ IsOpen(d)
  /\ now >= orders[d].until /\ orders[d].client = who
  /\ devices[d] # NoDevice
  /\ OrderReject(who, d, devices[d].state)
  /\ UNCHANGED <<now, open, outbox>>

\* Variant: without the check for an open order.
RegisterAnytime(id, paraid, penalty, wcd, onoff) ==
  /\ Signed(id)
  /\ devices' = [devices EXCEPT ![id] =
       [state |-> IdleState(onoff), penalty |-> penalty, wcd |-> wcd, paraid |-> paraid]]
  /\ UNCHANGED <<orders, ledger, now, open, outbox>>

Register(id, paraid, penalty, wcd, onoff) ==
  /\ Signed(id)
  /\ ~IsOpen(id)
  /\ devices' = [devices EXCEPT ![id] =
       [state |-> IdleState(onoff), penalty |-> penalty, wcd |-> wcd, paraid |-> paraid]]
  /\ UNCHANGED <<orders, ledger, now, open, outbox>>

\* test: two bytes to parachain 200.
Test ==
  /\ Send(TestPara, Undecodable)
  /\ UNCHANGED <<devices, orders, ledger, now, open>>

-----------------------------------------------------------------------------
(***************************************************************************)
(* handle_blob_message.  Who sent a verdict, and whether its client is the *)
(* client of the order, is not looked at.                                  *)
(***************************************************************************)

Known(d) == IsOpen(d) /\ devices[d] # NoDevice

OnReject(who, d, onoff) ==
  /\ Known(d)
  /\ OrderReject(who, d, IdleState(onoff))
  /\ UNCHANGED <<now, open, outbox>>

\* The client of the late order is dead: the refund stays, the order too.
OnRejectStuck(who, d) ==
  /\ Known(d)
  /\ ~CollateralPayable(FeeRefunded(who, d), d, orders[d].client)
  /\ ledger' = FeeRefunded(who, d)
  /\ UNCHANGED <<devices, orders, now, open, outbox>>

OnDone(who, d, onoff) ==
  /\ Known(d)
  /\ CanRepatriate(ledger, who, d, orders[d].fee)
  /\ CollateralPayable(FeePaid(who, d), d, who)
  /\ ledger' = CollateralReturned(FeePaid(who, d), d, who)
  /\ orders' = [orders EXCEPT ![d] = NoOrder]
  /\ devices' = WithState(d, IdleState(onoff))
  /\ UNCHANGED <<now, open, outbox>>

\* The fee was all the client had left and its late collateral cannot reach
\* it: the fee is paid and the order stays open.
OnDoneStuck(who, d) ==
  /\ Known(d)
  /\ CanRepatriate(ledger, who, d, orders[d].fee)
  /\ ~CollateralPayable(FeePaid(who, d), d, who)
  /\ ledger' = FeePaid(who, d)
  /\ UNCHANGED <<devices, orders, now, open, outbox>>

Verdict(msg) ==
  \/ msg.kind = "OrderReject" /\ OnReject(msg.client, msg.device, msg.onoff)
  \/ msg.kind = "OrderReject" /\ OnRejectStuck(msg.client, msg.device)
  \/ msg.kind = "OrderDone" /\ OnDone(msg.client, msg.device, msg.onoff)
  \/ msg.kind = "OrderDone" /\ OnDoneStuck(msg.client, msg.device)

\* Whether a verdict changes anything: on_accept only deposits an event, and
\* NoOrder, NoDevice and a dead device are errors before the first write.
HasEffect(msg) ==
  \/ msg.kind = "OrderReject" /\ Known(msg.device)
  \/ /\ msg.kind = "OrderDone" /\ Known(msg.device)
     /\ CanRepatriate(ledger, msg.client, msg.device, orders[msg.device].fee)

HandleBlobMessage(msg) == IF HasEffect(msg) THEN Verdict(msg) ELSE UNCHANGED vars

-----------------------------------------------------------------------------
(***************************************************************************)
(* The rest of the chain.                                                  *)
(***************************************************************************)

TransferFunds(from, to) ==
  \E v \in 1 .. ledger[from].free :
    /\ CanTransfer(ledger, from, to, v)
    /\ ledger' = Transfer(ledger, from, to, v)
    /\ UNCHANGED <<devices, orders, now, open, outbox>>

NextBlock ==
  /\ now < MaxNow
  /\ now' = now + 1
  /\ UNCHANGED <<devices, orders, ledger, open, outbox>>

OpenChannel(p) ==
  /\ p \notin open
  /\ open' = open \cup {p}
  /\ UNCHANGED <<devices, orders, ledger, now, outbox>>

Carry(p) ==
  /\ outbox[p] # <<>>
  /\ outbox' = [outbox EXCEPT ![p] = Tail(outbox[p])]
  /\ UNCHANGED <<devices, orders, ledger, now, open>>

CallStep ==
  \/ \E who \in Accounts, base \in OrderBase :
       OrderCall(who, base) \/ OrderUnsent(who, base) \/ OrderStranding(who, base)
  \/ \E who, d \in Accounts : Cancel(who, d)
  \/ \E id \in Registrants, p \in DeviceParas, pen \in Penalties, w \in Durations,
        onoff \in BOOLEAN : Register(id, p, pen, w, onoff)
  \/ Test

MessageStep == \E msg \in VerdictMsg : HasEffect(msg) /\ Verdict(msg)

ChainStep ==
  \/ \E from, to \in Accounts : TransferFunds(from, to)
  \/ NextBlock
  \/ \E p \in Paras : OpenChannel(p) \/ Carry(p)

Next == CallStep \/ MessageStep \/ ChainStep

Spec == Init /\ [][Next]_vars

-----------------------------------------------------------------------------
(***************************************************************************)
(* What the pallet promises, whatever verdicts reach it.                   *)
(***************************************************************************)

\* What open orders hold of a's funds: its fees, a pair for each unit, and the
\* collateral of its own order.
FeeUnits(a) ==
  {u \in Accounts \X (1 .. MaxBalance) :
     IsOpen(u[1]) /\ orders[u[1]].client = a /\ u[2] <= orders[u[1]].fee}

Held(a) ==
  Cardinality(FeeUnits(a)) + IF IsOpen(a) THEN devices[a].penalty ELSE 0

Surplus(a) == ledger[a].reserved - Held(a)

Stray(msg) ==
  /\ Known(msg.device) /\ Verdict(msg)
  /\ \/ msg.client # orders[msg.device].client
     \/ orders'[msg.device] = orders[msg.device]

\* Accounts have one reserve for all their orders, and a verdict moves what
\* it finds there.  Still no verdict, cancel or order touches the holds of
\* another order: only one that names the wrong client, or fails half way,
\* does so, and then only for the two clients it confuses.  Until then the
\* reserve is never short (order_reject, on_done).
OthersHoldsUntouched ==
  [][\A a \in Accounts :
       \/ Surplus(a) < 0
       \/ Surplus(a)' = Surplus(a)
       \/ ~Exists(ledger', a)
       \/ \E base \in OrderBase : OrderStranding(a, base)
       \/ \E msg \in VerdictMsg :
            Stray(msg) /\ a \in {msg.client, orders[msg.device].client}]_vars

\* Until it is settled, a device with an open order is registered; it is
\* Busy, or still Ready when the order could not be sent.
OrderedDevicesKnown ==
  \A d \in Accounts :
    IsOpen(d) => devices[d] # NoDevice /\ devices[d].state \in {"Busy", "Ready"}

\* A silent, wrong or late verdict cannot keep a client from its funds: from
\* the deadline on, a living client can cancel (cancel, order_reject).
CancelNeverBlocked ==
  \A d \in Accounts :
    (IsOpen(d) /\ now >= orders[d].until /\ Signed(orders[d].client))
      => ENABLED Cancel(orders[d].client, d)

\* A NewOrder goes out exactly when the device turns Busy for that order, so
\* a message never offers terms other than the stored ones.
SentAsStored ==
  [][\A p \in Paras :
       Len(outbox'[p]) > Len(outbox[p]) /\ outbox'[p][Len(outbox'[p])] # Undecodable
         => LET m == outbox'[p][Len(outbox'[p])]
                d == m.order.device
            IN  /\ ~IsOpen(d) /\ devices'[d].state = "Busy"
                /\ orders'[d] = StoredOrder(m.order, m.client, Unset)
                /\ p = devices'[d].paraid]_vars

\* DeviceState::Ready, common/src/lib.rs: "Device is ready to accept orders".
ReadyIsFree ==
  \A d \in Accounts :
    devices[d] # NoDevice /\ devices[d].state = "Ready" => ~IsOpen(d)

=============================================================================

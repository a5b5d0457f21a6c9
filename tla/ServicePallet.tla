---------------------------- MODULE ServicePallet ----------------------------
(***************************************************************************)
(* pallets/service/src/lib.rs: the pallet of the parachain that runs the   *)
(* devices.  A device registers the collateral (`penalty`) it puts up and  *)
(* the time (`wcd`) a job takes; a client's order reserves the client's    *)
(* fee and the device's collateral; done, reject and cancel settle it.     *)
(* Orders also arrive as messages from client parachains.  Those reserve   *)
(* nothing here: their money is on the client's chain, and the pallet only *)
(* reports the outcome back.                                               *)
(*                                                                         *)
(* A dispatchable that returns an error keeps what it wrote before (there  *)
(* is no storage transaction around it), so each error after a write is an *)
(* action of its own: OrderStranding, DoneStranding, DoneUnreported.       *)
(*                                                                         *)
(* OnReceived is the state the runtime's hook answers with: "Busy2" for    *)
(* AcceptOnReceive of the runtime, "Busy" for the default implementation   *)
(* that the pallet's tests use.  Registrants are the accounts that call    *)
(* register.  MaxNow and MaxInFlight bound the clock and a channel.        *)
(***************************************************************************)
EXTENDS PalletCommon, FiniteSets

CONSTANTS SelfParaId, Siblings, OnReceived, Registrants, GenesisFree,
          NoDevice, NoOrder, MaxNow, MaxInFlight

ParaIds == {SelfParaId} \cup Siblings

DeviceProfile == [state : DeviceState, penalty : Penalties, wcd : Durations]

ASSUME ServiceAssumption ==
  /\ IsFiniteSet(Accounts)
  /\ SelfParaId \notin Siblings
  /\ OnReceived \in {"Busy", "Busy2"}
  /\ Registrants \subseteq Accounts
  /\ GenesisFree \in [Accounts -> {0} \cup {f \in Nat : f >= ExistentialDeposit}]
  /\ NoDevice \notin DeviceProfile
  /\ NoOrder \notin Order(ParaIds)
       \cup [client : Accounts, fee : Fees, collateral : Penalties, until : Deadlines]
  /\ MaxNow \in Nat /\ MaxInFlight \in Nat

VARIABLES
  devices,  \* Device: the profile of a registered device, or NoDevice
  orders,   \* Orders: the open order of a device, or NoOrder
  ledger,   \* the balances of the chain
  now,      \* the timestamp of the current block
  open,     \* the siblings to which an HRMP channel is open
  outbox    \* the verdicts under way to each sibling

vars == <<devices, orders, ledger, now, open, outbox>>

Verdicts == [Siblings -> Seq(VerdictMsg)]

TypeOK ==
  /\ devices \in [Accounts -> DeviceProfile \cup {NoDevice}]
  /\ orders \in [Accounts -> Order(ParaIds) \cup {NoOrder}]
  /\ ledger \in [Accounts -> Account]
  /\ now \in Nat
  /\ open \in SUBSET Siblings
  /\ outbox \in Verdicts

Init ==
  /\ devices = [a \in Accounts |-> NoDevice]
  /\ orders = [a \in Accounts |-> NoOrder]
  /\ ledger = [a \in Accounts |-> [free |-> GenesisFree[a], reserved |-> 0]]
  /\ now = 0
  /\ open = {}
  /\ outbox = [p \in Siblings |-> <<>>]

-----------------------------------------------------------------------------
(***************************************************************************)
(* Predicates and state changes the handlers share.                        *)
(***************************************************************************)

\* An extrinsic is signed by a living account, which paid for it.
Signed(who) == Exists(ledger, who)

IsOpen(d) == orders[d] # NoOrder

IsLocal(o) == o # NoOrder /\ o.paraid = SelfParaId

\* Device::insert with a new state.
WithState(d, st) == [devices EXCEPT ![d] = [devices[d] EXCEPT !.state = st]]

\* XcmpMessageSender::send_blob_message, when it succeeds.
Send(p, m) ==
  /\ p \in open /\ Len(outbox[p]) < MaxInFlight
  /\ outbox' = [outbox EXCEPT ![p] = Append(outbox[p], m)]

\* order_accept swallows the error of a send without a channel.
TrySend(p, m) == Send(p, m) \/ (p \notin open /\ UNCHANGED outbox)

\* The checks of order_received, in front of its first write.
Acceptable(order, d) ==
  /\ now < order.until
  /\ ~IsOpen(d)
  /\ devices[d] # NoDevice
  /\ devices[d].state = "Ready"
  /\ ~Rush(order.until, now, devices[d].wcd)

HeldForOrder(order, d) ==
  Reserve(Reserve(ledger, d, devices[d].penalty), order.client, order.fee)

\* order_received: the order is stored and its hook picks the next state.
OrderReceived(order, d) ==
  /\ Acceptable(order, d)
  /\ IF IsLocal(order)
       THEN /\ CanReserve(ledger, order.client, order.fee)
            /\ CanReserve(ledger, d, devices[d].penalty)
            /\ CanReserve(Reserve(ledger, d, devices[d].penalty), order.client, order.fee)
            /\ ledger' = HeldForOrder(order, d)
       ELSE UNCHANGED ledger
  /\ orders' = [orders EXCEPT ![d] = order]
  /\ devices' = WithState(d, OnReceived)
  /\ IF OnReceived = "Busy2" /\ ~IsLocal(order)
       THEN TrySend(order.paraid, OrderAcceptMsg(order.client, d))
       ELSE UNCHANGED outbox

\* Variant: the deadline itself counts as in time.
CollateralReturnedAtDeadline(l, order, d) ==
  IF now <= order.until
    THEN Unreserve(l, d, devices[d].penalty)
    ELSE Repatriate(l, d, order.client, devices[d].penalty)

\* The collateral goes back in time and to the client when it is late.
CollateralReturned(l, order, d) ==
  IF now < order.until
    THEN Unreserve(l, d, devices[d].penalty)
    ELSE Repatriate(l, d, order.client, devices[d].penalty)

CollateralPayable(l, order, d) ==
  now < order.until \/ CanRepatriate(l, d, order.client, devices[d].penalty)

\* order_reject: of an open order or of none, by the device or the client.
OrderReject(d, st, onoff) ==
  /\ IF IsLocal(orders[d])
       THEN LET refunded == Unreserve(ledger, orders[d].client, orders[d].fee)
            IN  /\ CollateralPayable(refunded, orders[d], d)
                /\ ledger' = CollateralReturned(refunded, orders[d], d)
       ELSE UNCHANGED ledger
  /\ IF IsOpen(d) /\ ~IsLocal(orders[d])
       THEN Send(orders[d].paraid, OrderRejectMsg(orders[d].client, d, onoff))
       ELSE UNCHANGED outbox
  /\ orders' = [orders EXCEPT ![d] = NoOrder]
  /\ devices' = WithState(d, st)

\* Variant: the two amounts of an order are mixed up.
FeePaidSwapped(order, d) == Repatriate(ledger, order.client, d, devices[d].penalty)

FeePaid(order, d) == Repatriate(ledger, order.client, d, order.fee)

\* Variant: done reads the order with `get` where the code has `take`.
DoneBeginsKeeping(id, onoff) ==
  /\ Signed(id)
  /\ devices[id] # NoDevice /\ devices[id].state = "Busy2"
  /\ IsOpen(id)
  /\ devices' = WithState(id, IdleState(onoff))
  /\ UNCHANGED orders

\* done, up to the point where order_done pays or reports.
DoneBegins(id, onoff) ==
  /\ Signed(id)
  /\ devices[id] # NoDevice /\ devices[id].state = "Busy2"
  /\ IsOpen(id)
  /\ orders' = [orders EXCEPT ![id] = NoOrder]
  /\ devices' = WithState(id, IdleState(onoff))

-----------------------------------------------------------------------------
(***************************************************************************)
(* The dispatchables and the message handler.                              *)
(***************************************************************************)

OrderCall(who, base) ==
  /\ Signed(who)
  /\ OrderReceived(StoredOrder(base, who, SelfParaId), base.device)
  /\ UNCHANGED <<now, open>>

\* A device that orders from itself can pass can_reserve and yet lack the
\* fee once its collateral is reserved: the call fails, the hold remains.
OrderStranding(who, base) ==
  LET d == base.device IN
  /\ Signed(who)
  /\ Acceptable(base, d)
  /\ CanReserve(ledger, who, base.fee)
  /\ CanReserve(ledger, d, devices[d].penalty)
  /\ ~CanReserve(Reserve(ledger, d, devices[d].penalty), who, base.fee)
  /\ ledger' = Reserve(ledger, d, devices[d].penalty)
  /\ UNCHANGED <<devices, orders, now, open, outbox>>

\* Variants: at the deadline itself it is still too early, and the device
\* must have accepted the order first.
CancelAccepted(who, d) ==
  /\ Signed(who)
  /\ IsOpen(d)
  /\ now >= orders[d].until /\ orders[d].client = who
  /\ devices[d] # NoDevice /\ devices[d].state = "Busy2"
  /\ OrderReject(d, devices[d].state, FALSE)
  /\ UNCHANGED <<now, open>>
CancelAfterDeadline(who, d) ==
  /\ Signed(who)
  /\ IsOpen(d)
  /\ now > orders[d].until /\ orders[d].client = who
  /\ devices[d] # NoDevice
  /\ OrderReject(d, devices[d].state, FALSE)
  /\ UNCHANGED <<now, open>>

Cancel(who, d) ==
  /\ Signed(who)
  /\ IsOpen(d)
  /\ now >= orders[d].until /\ orders[d].client = who
  /\ devices[d] # NoDevice
  /\ OrderReject(d, devices[d].state, FALSE)
  /\ UNCHANGED <<now, open>>

\* Variant: rejecting asks for an order, as accepting does.
RejectOfOrder(id, onoff) ==
  /\ Signed(id)
  /\ devices[id] # NoDevice /\ devices[id].state \in {"Busy", "Busy2"}
  /\ IsOpen(id)
  /\ OrderReject(id, IdleState(onoff), onoff)
  /\ UNCHANGED <<now, open>>

\* accept(reject = true)
Reject(id, onoff) ==
  /\ Signed(id)
  /\ devices[id] # NoDevice /\ devices[id].state \in {"Busy", "Busy2"}
  /\ OrderReject(id, IdleState(onoff), onoff)
  /\ UNCHANGED <<now, open>>

\* accept(reject = false), with order_accept
Accept(id) ==
  /\ Signed(id)
  /\ devices[id] # NoDevice /\ devices[id].state = "Busy"
  /\ IsOpen(id)
  /\ now < orders[id].until
  /\ devices' = WithState(id, "Busy2")
  /\ IF IsLocal(orders[id])
       THEN UNCHANGED outbox
       ELSE TrySend(orders[id].paraid, OrderAcceptMsg(orders[id].client, id))
  /\ UNCHANGED <<orders, ledger, now, open>>

DoneLocal(id, onoff) ==
  /\ DoneBegins(id, onoff)
  /\ IsLocal(orders[id])
  /\ CollateralPayable(FeePaid(orders[id], id), orders[id], id)
  /\ ledger' = CollateralReturned(FeePaid(orders[id], id), orders[id], id)
  /\ UNCHANGED <<now, open, outbox>>

\* The fee was all the client had left: late collateral cannot be paid to a
\* reaped account, and the error leaves it reserved with no order behind it.
DoneStranding(id, onoff) ==
  /\ DoneBegins(id, onoff)
  /\ IsLocal(orders[id])
  /\ ~CollateralPayable(FeePaid(orders[id], id), orders[id], id)
  /\ ledger' = FeePaid(orders[id], id)
  /\ UNCHANGED <<now, open, outbox>>

\* Variant: the message of "TODO Send XCM with done" is still missing.
DoneRemoteSilent(id, onoff) ==
  /\ DoneBegins(id, onoff)
  /\ ~IsLocal(orders[id])
  /\ UNCHANGED <<ledger, now, open, outbox>>

DoneRemote(id, onoff) ==
  /\ DoneBegins(id, onoff)
  /\ ~IsLocal(orders[id])
  /\ Send(orders[id].paraid, OrderDoneMsg(orders[id].client, id, onoff))
  /\ UNCHANGED <<ledger, now, open>>

\* CannotReachDestination: the order is gone and nobody was told.
DoneUnreported(id, onoff) ==
  /\ DoneBegins(id, onoff)
  /\ ~IsLocal(orders[id])
  /\ orders[id].paraid \notin open
  /\ UNCHANGED <<ledger, now, open, outbox>>

Done(id, onoff) ==
  \/ DoneLocal(id, onoff)
  \/ DoneStranding(id, onoff)
  \/ DoneRemote(id, onoff)
  \/ DoneUnreported(id, onoff)

\* Variant: without the check for an open order.
RegisterAnytime(id, penalty, wcd, onoff) ==
  /\ Signed(id)
  /\ devices' = [devices EXCEPT ![id] =
       [state |-> IdleState(onoff), penalty |-> penalty, wcd |-> wcd]]
  /\ UNCHANGED <<orders, ledger, now, open, outbox>>

Register(id, penalty, wcd, onoff) ==
  /\ Signed(id)
  /\ ~IsOpen(id)
  /\ devices' = [devices EXCEPT ![id] =
       [state |-> IdleState(onoff), penalty |-> penalty, wcd |-> wcd]]
  /\ UNCHANGED <<orders, ledger, now, open, outbox>>

\* Variant: without the check of the current state.
SetStateAnytime(id, onoff) ==
  /\ Signed(id)
  /\ devices[id] # NoDevice
  /\ devices' = WithState(id, IdleState(onoff))
  /\ UNCHANGED <<orders, ledger, now, open, outbox>>

SetState(id, onoff) ==
  /\ Signed(id)
  /\ devices[id] # NoDevice
  /\ devices[id].state \in IF onoff THEN {"Off"} ELSE {"Ready", "Off"}
  /\ devices' = WithState(id, IdleState(onoff))
  /\ UNCHANGED <<orders, ledger, now, open, outbox>>

\* Only NewOrder is handled; an order that is refused is only logged.
Handles(msg) ==
  msg.kind = "NewOrder" /\ Acceptable(msg.order, msg.order.device)

\* Variant: the parachain of a received order is set as `order` sets it.
HandleBlobMessageAsLocal(sender, msg) ==
  IF Handles(msg)
    THEN /\ OrderReceived(StoredOrder(msg.order, msg.client, SelfParaId), msg.order.device)
         /\ UNCHANGED <<now, open>>
    ELSE UNCHANGED vars

HandleBlobMessage(sender, msg) ==
  IF Handles(msg)
    THEN /\ OrderReceived(StoredOrder(msg.order, msg.client, sender), msg.order.device)
         /\ UNCHANGED <<now, open>>
    ELSE UNCHANGED vars

-----------------------------------------------------------------------------
(***************************************************************************)
(* The rest of the chain.                                                  *)
(***************************************************************************)

TransferFunds(from, to) ==
  \E v \in 1 .. ledger[from].free :
    /\ CanTransfer(ledger, from, to, v)
    /\ ledger' = Transfer(ledger, from, to, v)
    /\ UNCHANGED <<devices, orders, now, open, outbox>>

NextBlock ==
  /\ now < MaxNow
  /\ now' = now + 1
  /\ UNCHANGED <<devices, orders, ledger, open, outbox>>

OpenChannel(p) ==
  /\ p \notin open
  /\ open' = open \cup {p}
  /\ UNCHANGED <<devices, orders, ledger, now, outbox>>

\* The relay chain takes the oldest message to p on its way.
Carry(p) ==
  /\ outbox[p] # <<>>
  /\ outbox' = [outbox EXCEPT ![p] = Tail(outbox[p])]
  /\ UNCHANGED <<devices, orders, ledger, now, open>>

DeviceStep(id) ==
  \/ \E onoff \in BOOLEAN : Reject(id, onoff) \/ Done(id, onoff) \/ SetState(id, onoff)
  \/ Accept(id)

PalletStep ==
  \/ \E who \in Accounts, base \in OrderBase : OrderCall(who, base) \/ OrderStranding(who, base)
  \/ \E who, d \in Accounts : Cancel(who, d)
  \/ \E id \in Accounts : DeviceStep(id)
  \/ \E id \in Registrants, p \in Penalties, w \in Durations, onoff \in BOOLEAN :
       Register(id, p, w, onoff)
  \/ \E s \in Siblings, msg \in OrderMsg : Handles(msg) /\ HandleBlobMessage(s, msg)

ChainStep ==
  \/ \E from, to \in Accounts : TransferFunds(from, to)
  \/ NextBlock
  \/ \E p \in Siblings : OpenChannel(p) \/ Carry(p)

Next == PalletStep \/ ChainStep

Spec == Init /\ [][Next]_vars

\* Blocks keep coming, and a client that may cancel does so.  Nothing is
\* expected of devices.
FairSpec ==
  /\ Spec
  /\ WF_vars(NextBlock)
  /\ \A who, d \in Accounts : WF_vars(Cancel(who, d))

-----------------------------------------------------------------------------
(***************************************************************************)
(* What the pallet promises.                                               *)
(***************************************************************************)

\* The fees local orders hold of a's funds, a pair for each unit, and the
\* collateral a's own local order holds.
FeeUnits(ords, a) ==
  {u \in Accounts \X (1 .. MaxBalance) :
     /\ IsLocal(ords[u[1]])
     /\ ords[u[1]].client = a
     /\ u[2] <= ords[u[1]].fee}

HeldCollateral(devs, ords, a) == IF IsLocal(ords[a]) THEN devs[a].penalty ELSE 0

Held(devs, ords, a) == Cardinality(FeeUnits(ords, a)) + HeldCollateral(devs, ords, a)

Surplus(a) == ledger[a].reserved - Held(devices, orders, a)

\* An account is client and device at once and has one reserve for all its
\* orders.  Whatever the order of settlements, that reserve covers every fee
\* and collateral that open local orders still hold (order_received,
\* order_done, order_reject; register may not change a penalty meanwhile).
Backed == \A a \in Accounts : Held(devices, orders, a) <= ledger[a].reserved

\* A device with an open order stays registered and Busy or Busy2, whatever
\* register, set_state, cancel and the messages do to it in between.
OrderedDevicesAreBusy ==
  \A d \in Accounts :
    IsOpen(d) => devices[d] # NoDevice /\ devices[d].state \in {"Busy", "Busy2"}

Stranding(a) ==
  \/ \E base \in OrderBase : OrderStranding(a, base)
  \/ \E onoff \in BOOLEAN : DoneStranding(a, onoff)

\* Settling an order touches only what that order holds: the reserve of an
\* account beyond its orders' holds changes in the two failing calls alone.
OthersHoldsUntouched ==
  [][\A a \in Accounts :
       \/ Surplus(a)' = Surplus(a)
       \/ Stranding(a)
       \/ ~Exists(ledger', a)]_vars

\* One pooled reserve per account, moved by calls that saturate, implements an
\* escrow per order: the amounts are taken together, given back exactly once,
\* fee to one side and collateral to the device in time and to the client when
\* late, and no other order's money moves with them (order_received,
\* order_done, order_reject; full_circle, delay_accept and delay_confirm of
\* tests.rs).  Remote orders touch no money.
EscrowOf(d) ==
  IF IsLocal(orders[d])
    THEN [client |-> orders[d].client, fee |-> orders[d].fee,
          collateral |-> devices[d].penalty, until |-> orders[d].until]
    ELSE NoOrder

Escrow == INSTANCE OrderEscrow WITH
  escrow <- [d \in Accounts |-> EscrowOf(d)],
  funds <- [x \in Accounts |-> ledger[x].free]

ImplementsEscrow == Escrow!Spec

\* From the deadline on, a living client can always cancel: no error of
\* cancel or order_reject (NoDevice, DeadAccount) can lock its fee away.
CancelNeverBlocked ==
  \A d \in Accounts :
    (IsLocal(orders[d]) /\ now >= orders[d].until /\ Signed(orders[d].client))
      => ENABLED Cancel(orders[d].client, d)

\* A local order does not stay open for ever: whatever its device does or
\* leaves undone, its client gets it off the table (cancel, order_reject).
LocalOrdersEnd ==
  \A d \in Accounts : IsLocal(orders[d]) ~> ~IsLocal(orders[d])

ReportOf(o, d) ==
  {OrderDoneMsg(o.client, d, onoff) : onoff \in BOOLEAN}
    \cup {OrderRejectMsg(o.client, d, onoff) : onoff \in BOOLEAN}

\* A remote order leaves the table together with the one message that tells
\* its own parachain; only done without a channel drops it silently.
SettlementReported ==
  [][\A d \in Accounts :
       (IsOpen(d) /\ ~IsLocal(orders[d]) /\ orders'[d] # orders[d]) =>
         LET o == orders[d]
         IN  \/ \E m \in ReportOf(o, d) :
                  outbox' = [outbox EXCEPT ![o.paraid] = Append(@, m)]
             \/ \E onoff \in BOOLEAN : DoneUnreported(d, onoff)]_vars

\* tests.rs, delay_confirm: a late done earns the device the fee and costs it
\* the collateral.
LateDoneCostsCollateral ==
  [][\A d \in Accounts, onoff \in BOOLEAN :
       (Done(d, onoff) /\ IsLocal(orders[d]) /\ now >= orders[d].until
          /\ orders[d].client # d)
         => Total(ledger'[d]) = Total(ledger[d]) + orders[d].fee - devices[d].penalty]_vars

\* tests.rs, order_rush: no order is taken that leaves the device less than
\* its duty cycle before the deadline.
NoRushedOrder ==
  [][\A d \in Accounts :
       (~IsOpen(d) /\ orders'[d] # NoOrder)
         => now + devices[d].wcd <= orders'[d].until]_vars

=============================================================================

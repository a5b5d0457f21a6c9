---------------------------- MODULE PalletCommon ----------------------------
(***************************************************************************)
(* pallets/common/src/lib.rs: the device states, the order records and the *)
(* messages the two pallets exchange.  The order's payload (`data`) is     *)
(* stored and forwarded but never inspected, so it is left out.            *)
(*                                                                         *)
(* Fees, Penalties, Durations and Deadlines are the inputs users choose    *)
(* from.  Times are millisecond timestamps, u64 in the runtime: sums of    *)
(* times are taken modulo MomentMod.  MaxBalance is the largest amount a   *)
(* Balance (u128) holds.                                                   *)
(***************************************************************************)
EXTENDS Balances, Sequences

CONSTANTS Accounts, Fees, Penalties, Durations, Deadlines,
          MomentMod, MaxBalance

ASSUME InputsAssumption ==
  /\ MaxBalance \in Nat
  /\ Fees \subseteq 0 .. MaxBalance
  /\ Penalties \subseteq 0 .. MaxBalance
  /\ Durations \subseteq Nat
  /\ Deadlines \subseteq Nat
  /\ MomentMod \in Nat \ {0}

\* No hold is small enough to be reaped with its account.  The pallets do not
\* check it; it is what their accounting needs of the amounts users choose.
AmountsCoverDeposit ==
  \A v \in Fees \cup Penalties : v = 0 \/ v >= ExistentialDeposit

DeviceState == {"Off", "Ready", "Busy", "Busy2", "Timewait"}

\* Variant: the state set_state's commented-out arm would leave a device in.
IdleStateStandby(onoff) == IF onoff THEN "Ready" ELSE "Standby"

\* `onoff` arguments choose the state an idle device is left in.
IdleState(onoff) == IF onoff THEN "Ready" ELSE "Off"

\* What a client asks for, and the order a pallet stores for it.
OrderBase == [until : Deadlines, fee : Fees, device : Accounts]

Order(paras) == [until : Deadlines, fee : Fees, client : Accounts, paraid : paras]

StoredOrder(base, client, paraid) ==
  [until |-> base.until, fee |-> base.fee, client |-> client, paraid |-> paraid]

\* Order::convert, back to what goes into a message.
SentOrder(order, device) ==
  [until |-> order.until, fee |-> order.fee, device |-> device]

\* XCMPMessage
NewOrderMsg(client, base) ==
  [kind |-> "NewOrder", client |-> client, order |-> base]
OrderAcceptMsg(client, device) ==
  [kind |-> "OrderAccept", client |-> client, device |-> device]
OrderRejectMsg(client, device, onoff) ==
  [kind |-> "OrderReject", client |-> client, device |-> device, onoff |-> onoff]
OrderDoneMsg(client, device, onoff) ==
  [kind |-> "OrderDone", client |-> client, device |-> device, onoff |-> onoff]

OrderMsg == [kind : {"NewOrder"}, client : Accounts, order : OrderBase]

VerdictMsg ==
       [kind : {"OrderAccept"}, client : Accounts, device : Accounts]
  \cup [kind : {"OrderReject", "OrderDone"}, client : Accounts,
        device : Accounts, onoff : BOOLEAN]

\* The time a device needs does not fit before the deadline.
Rush(until, now, wcd) == until < (now + wcd) % MomentMod

=============================================================================

------------------------------ MODULE Balances ------------------------------
(***************************************************************************)
(* The part of the ReservableCurrency trait that both pallets use, as      *)
(* operators over a ledger in [Accounts -> Account].  The implementation   *)
(* is the balances pallet of Substrate, which is not in this repository:   *)
(* these definitions follow from how pallets/service and pallets/client    *)
(* call it and from its configuration in runtime/src/lib.rs.               *)
(*                                                                         *)
(* Two of its habits decide what the pallets achieve.  `unreserve` and     *)
(* `repatriate_reserved` SATURATE: they move what is there and succeed,    *)
(* however much was asked for.  And an account whose free and reserved     *)
(* funds together are below ExistentialDeposit is reaped, reserved funds   *)
(* included.                                                               *)
(***************************************************************************)
EXTENDS Integers

CONSTANT ExistentialDeposit

ASSUME DepositAssumption == ExistentialDeposit \in Nat \ {0}

Account == [free : Nat, reserved : Nat]

Empty == [free |-> 0, reserved |-> 0]

Total(acc) == acc.free + acc.reserved

\* An account is alive while it holds the existential deposit.
Exists(l, a) == Total(l[a]) >= ExistentialDeposit

Lesser(v, w) == IF v <= w THEN v ELSE w

\* What is left of an account after a withdrawal: its dust is burned.
Reap(acc) == IF Total(acc) < ExistentialDeposit THEN Empty ELSE acc

\* Currency::can_reserve
CanReserve(l, a, v) == v = 0 \/ v <= l[a].free

\* Currency::reserve, for a value CanReserve allows.
Reserve(l, a, v) ==
  [l EXCEPT ![a] = [free |-> l[a].free - v, reserved |-> l[a].reserved + v]]

\* Currency::unreserve saturates, and does nothing on a dead account.
Unreserve(l, a, v) ==
  LET moved == Lesser(v, l[a].reserved)
  IN  [l EXCEPT ![a] = [free     |-> l[a].free + moved,
                        reserved |-> l[a].reserved - moved]]

\* Currency::repatriate_reserved fails on a dead beneficiary ...
CanRepatriate(l, from, to, v) == v = 0 \/ from = to \/ Exists(l, to)

\* ... and saturates like unreserve; it may reap the account it takes from.
Repatriate(l, from, to, v) ==
  IF from = to THEN Unreserve(l, from, v)
  ELSE LET moved == Lesser(v, l[from].reserved)
       IN  [l EXCEPT
              ![to]   = [free |-> l[to].free + moved, reserved |-> l[to].reserved],
              ![from] = Reap([free     |-> l[from].free,
                              reserved |-> l[from].reserved - moved])]

\* Balances::transfer, which may empty the sender and create the receiver.
CanTransfer(l, from, to, v) ==
  /\ from # to /\ v <= l[from].free
  /\ Total(l[to]) + v >= ExistentialDeposit

Transfer(l, from, to, v) ==
  [l EXCEPT ![to]   = [free |-> l[to].free + v, reserved |-> l[to].reserved],
            ![from] = Reap([free |-> l[from].free - v, reserved |-> l[from].reserved])]

=============================================================================

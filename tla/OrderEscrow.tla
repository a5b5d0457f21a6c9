----------------------------- MODULE OrderEscrow -----------------------------
(***************************************************************************)
(* What the service pallet promises about money, without its accounts'     *)
(* pooled reserves, its device states or its messages: every local order   *)
(* has an escrow of its own, which takes the client's fee and the device's *)
(* collateral out of their free funds and gives both back exactly once.    *)
(* `unreserve` and `repatriate_reserved` know nothing of orders and move   *)
(* what happens to be reserved, so that the pallet achieves this is not    *)
(* obvious; ServicePallet!ImplementsEscrow says it.                        *)
(*                                                                         *)
(* Two steps lose a collateral: Strand and Forfeit.  They are the pallet's *)
(* calls that fail after their first write, with the narrow conditions     *)
(* under which that happens.                                               *)
(***************************************************************************)
EXTENDS Integers

CONSTANTS Accounts, Fees, Penalties, Deadlines, ExistentialDeposit, NoOrder

VARIABLES
  escrow,  \* what is held for the order of a device, or NoOrder
  funds,   \* what an account can spend
  now

vars == <<escrow, funds, now>>

Hold == [client : Accounts, fee : Fees, collateral : Penalties, until : Deadlines]

Init ==
  /\ escrow = [d \in Accounts |-> NoOrder]
  /\ funds \in [Accounts -> Nat]
  /\ now \in Nat

Credit(f, a, v) == [f EXCEPT ![a] = f[a] + v]

Covers(f) == \A a \in Accounts : f[a] >= 0

\* Nothing is held of a's money, so a can be reaped.
Uninvolved(esc, a) ==
  \A d \in Accounts :
    esc[d] # NoOrder =>
      /\ esc[d].client = a => esc[d].fee = 0
      /\ d = a => esc[d].collateral = 0

\* The new funds are f; accounts left below the existential deposit may go.
Become(f) ==
  \A a \in Accounts :
    \/ funds'[a] = f[a]
    \/ funds'[a] = 0 /\ f[a] < ExistentialDeposit /\ Uninvolved(escrow', a)

Take(d, hold) ==
  LET paid == Credit(Credit(funds, d, -hold.collateral), hold.client, -hold.fee)
  IN  /\ escrow[d] = NoOrder /\ now < hold.until
      /\ Covers(paid)
      /\ escrow' = [escrow EXCEPT ![d] = hold]
      /\ funds' = paid
      /\ UNCHANGED now

\* The fee goes to either side, the collateral to the device in time and to
\* the client from the deadline on.
Settle(d, payee) ==
  LET hold == escrow[d]
      owner == IF now < hold.until THEN d ELSE hold.client
  IN  /\ hold # NoOrder /\ payee \in {d, hold.client}
      /\ escrow' = [escrow EXCEPT ![d] = NoOrder]
      /\ Become(Credit(Credit(funds, payee, hold.fee), owner, hold.collateral))
      /\ UNCHANGED now

\* A late job is done, and its client has nothing left but the fee it pays:
\* nobody gets the collateral.
Forfeit(d) ==
  LET hold == escrow[d]
  IN  /\ hold # NoOrder /\ now >= hold.until /\ hold.client # d
      /\ funds[hold.client] < ExistentialDeposit
      /\ escrow' = [escrow EXCEPT ![d] = NoOrder]
      /\ Become(Credit(funds, d, hold.fee))
      /\ Uninvolved(escrow', hold.client) /\ funds'[hold.client] = 0
      /\ UNCHANGED now

\* A device that orders from itself can pay the fee and the collateral, but
\* not both: the collateral is gone and there is no order.
Strand(d, collateral) ==
  /\ collateral <= funds[d]
  /\ \E fee \in Fees : fee <= funds[d] /\ fee + collateral > funds[d]
  /\ funds' = Credit(funds, d, -collateral)
  /\ UNCHANGED <<escrow, now>>

Pay(from, to, v) ==
  /\ from # to /\ v <= funds[from]
  /\ Become(Credit(Credit(funds, from, -v), to, v))
  /\ UNCHANGED <<escrow, now>>

Tick == now' > now /\ UNCHANGED <<escrow, funds>>

Next ==
  \/ \E d \in Accounts, hold \in Hold : Take(d, hold)
  \/ \E d, payee \in Accounts : Settle(d, payee)
  \/ \E d \in Accounts : Forfeit(d) \/ \E c \in Penalties : Strand(d, c)
  \/ \E from, to \in Accounts : \E v \in 1 .. funds[from] : Pay(from, to, v)
  \/ Tick

Spec == Init /\ [][Next]_vars

=============================================================================

----------------------------- MODULE CrossChain -----------------------------
(***************************************************************************)
(* The client parachain and the service parachain of runtime/src/lib.rs    *)
(* connected by two HRMP channels, one for each direction.  A channel      *)
(* delivers every message once and in order, at any later time; the        *)
(* outboxes of the pallets are the channels.  The operator opens the two   *)
(* channels one after the other (scripts/init.sh).  Both chains read the   *)
(* wall clock of their collators, so they share `now`.                     *)
(*                                                                         *)
(* All orders here are placed on the client chain; the service pallet's    *)
(* local orders, and transfers on its chain, are in ServicePallet.         *)
(***************************************************************************)
EXTENDS PalletCommon, FiniteSets

CONSTANTS ClientPara, ServicePara, OnReceived, Registrants,
          ClientGenesis, ServiceGenesis, NoDevice, NoOrder, MaxNow, MaxInFlight

VARIABLES
  now,
  cDevices, cOrders, cLedger, cOpen, cOutbox,   \* the client chain
  sDevices, sOrders, sLedger, sOpen, sOutbox,   \* the service chain
  cancelled, \* history: the devices of which something of a cancelled order
             \* may still be under way
  drawnOn    \* history: the accounts a verdict took money of that settled
             \* no order of theirs

clientVars == <<cDevices, cOrders, cLedger, cOpen, cOutbox>>
serviceVars == <<sDevices, sOrders, sLedger, sOpen, sOutbox>>
history == <<cancelled, drawnOn>>
vars == <<now, clientVars, serviceVars, history>>

Client == INSTANCE ClientPallet WITH
  DeviceParas <- {ServicePara}, TestPara <- ServicePara,
  GenesisFree <- ClientGenesis, devices <- cDevices, orders <- cOrders,
  ledger <- cLedger, open <- cOpen, outbox <- cOutbox

Service == INSTANCE ServicePallet WITH
  SelfParaId <- ServicePara, Siblings <- {ClientPara},
  GenesisFree <- ServiceGenesis, devices <- sDevices, orders <- sOrders,
  ledger <- sLedger, open <- sOpen, outbox <- sOutbox

ASSUME CrossAssumption ==
  /\ IsFiniteSet(Accounts) /\ Registrants \subseteq Accounts
  /\ ClientPara # ServicePara
  /\ OnReceived \in {"Busy", "Busy2"}
  /\ {ClientGenesis, ServiceGenesis}
       \subseteq [Accounts -> {0} \cup {f \in Nat : f >= ExistentialDeposit}]
  /\ NoDevice \notin Client!DeviceProfile \cup Service!DeviceProfile
  /\ NoOrder \notin Order({Client!Unset, ClientPara, ServicePara})
       \cup [client : Accounts, fee : Fees, collateral : Penalties, until : Deadlines]
  /\ MaxNow \in Nat /\ MaxInFlight \in Nat

ToService == cOutbox[ServicePara]
ToClient == sOutbox[ClientPara]

TypeOK ==
  /\ Client!TypeOK /\ Service!TypeOK
  /\ cancelled \subseteq Accounts /\ drawnOn \subseteq Accounts

Init == Client!Init /\ Service!Init /\ cancelled = {} /\ drawnOn = {}

Settles(m, d) == m.kind \in {"OrderReject", "OrderDone"} /\ m.device = d

OrdersUnderWay(d) ==
  {i \in DOMAIN ToService : ToService[i].kind = "NewOrder" /\ ToService[i].order.device = d}

VerdictsUnderWay(d) == {i \in DOMAIN ToClient : Settles(ToClient[i], d)}

Traces(d) ==
  Cardinality(OrdersUnderWay(d)) + Cardinality(VerdictsUnderWay(d))
    + IF Service!IsOpen(d) THEN 1 ELSE 0

-----------------------------------------------------------------------------
\* An order that meets nothing of an earlier one has a fresh start.
ClientOrder(who, base) ==
  /\ Client!OrderCall(who, base) \/ Client!OrderUnsent(who, base)
  /\ cancelled' = IF Traces(base.device) = 0 THEN cancelled \ {base.device} ELSE cancelled
  /\ UNCHANGED <<serviceVars, drawnOn>>

ClientCall ==
  /\ \/ \E who \in Accounts, base \in OrderBase : Client!OrderStranding(who, base)
     \/ \E id \in Registrants, pen \in Penalties, w \in Durations, onoff \in BOOLEAN :
          Client!Register(id, ServicePara, pen, w, onoff)
     \/ \E from, to \in Accounts : Client!TransferFunds(from, to)
  /\ UNCHANGED <<serviceVars, history>>

ClientCancel(who, d) ==
  /\ Client!Cancel(who, d)
  /\ cancelled' = IF Traces(d) = 0 THEN cancelled ELSE cancelled \cup {d}
  /\ UNCHANGED <<serviceVars, drawnOn>>

\* The device, and clients that hold an account of the same id here too.
ServiceCall ==
  /\ \/ \E id \in Accounts : Service!DeviceStep(id)
     \/ \E id \in Registrants, pen \in Penalties, w \in Durations, onoff \in BOOLEAN :
          Service!Register(id, pen, w, onoff)
     \/ \E who, d \in Accounts : Service!Cancel(who, d)
  /\ UNCHANGED <<clientVars, history>>

\* The service chain takes the oldest message, accepted or not.
DeliverOrder ==
  /\ Client!Carry(ServicePara)
  /\ Service!HandleBlobMessage(ClientPara, Head(ToService))
  /\ UNCHANGED history

\* The order of the device is another client's, or it stays open after half
\* of its settlement.
DrawsOn(m) ==
  /\ Client!HasEffect(m)
  /\ \/ m.client # cOrders[m.device].client
     \/ cOrders'[m.device] = cOrders[m.device]

DeliverVerdict ==
  /\ Service!Carry(ClientPara)
  /\ Client!HandleBlobMessage(Head(ToClient))
  /\ drawnOn' = drawnOn \cup IF DrawsOn(Head(ToClient)) THEN {Head(ToClient).client} ELSE {}
  /\ UNCHANGED cancelled

NextBlock ==
  /\ Client!NextBlock
  /\ UNCHANGED <<serviceVars, history>>

OpenChannels ==
  \/ Client!OpenChannel(ServicePara) /\ UNCHANGED <<serviceVars, history>>
  \/ Service!OpenChannel(ClientPara) /\ UNCHANGED <<clientVars, history>>

Next ==
  \/ \E who \in Accounts, base \in OrderBase : ClientOrder(who, base)
  \/ ClientCall
  \/ \E who, d \in Accounts : ClientCancel(who, d)
  \/ ServiceCall
  \/ DeliverOrder
  \/ DeliverVerdict
  \/ NextBlock
  \/ OpenChannels

Spec == Init /\ [][Next]_vars

\* A device that is Busy2 keeps trying to end its job, by done or, when its
\* order is no longer there, by accept(reject).
Finish(d) ==
  /\ \E onoff \in BOOLEAN :
       \/ Service!Done(d, onoff)
       \/ ~Service!IsOpen(d) /\ Service!Reject(d, onoff)
  /\ UNCHANGED <<clientVars, history>>

\* Blocks keep coming and take what is in a channel, a client that may cancel
\* does so, and devices finish.  Nobody need ever open a channel.  (Only
\* Registrants can be devices.)
FairSpec ==
  /\ Spec
  /\ WF_vars(NextBlock)
  /\ WF_vars(DeliverOrder)
  /\ WF_vars(DeliverVerdict)
  /\ \A who \in Accounts, d \in Registrants : WF_vars(ClientCancel(who, d))
  /\ \A d \in Registrants : WF_vars(Finish(d))

-----------------------------------------------------------------------------
(***************************************************************************)
(* What the two pallets promise together.                                  *)
(***************************************************************************)

\* Unless a client cancelled before the job had come to rest, an order travels
\* as one token: it is on its way, or open on the service chain, or its verdict
\* is on its way back, and never two of these (order, order_received, done,
\* accept, handle_blob_message).
OneTrace == \A d \in Accounts \ cancelled : Traces(d) <= 1

\* With the same exception, whatever the service chain holds or reports is
\* about the very order that the client chain holds funds for.
SameOrder ==
  \A d \in Accounts \ cancelled :
    /\ Service!IsOpen(d) =>
         /\ Client!IsOpen(d)
         /\ sOrders[d] = [cOrders[d] EXCEPT !.paraid = ClientPara]
    /\ \A i \in OrdersUnderWay(d) :
         /\ Client!IsOpen(d)
         /\ ToService[i] = NewOrderMsg(cOrders[d].client, SentOrder(cOrders[d], d))
    /\ \A i \in VerdictsUnderWay(d) :
         Client!IsOpen(d) /\ ToClient[i].client = cOrders[d].client

\* No order is taken from a client before its deadline without a verdict: the
\* client chain drops an open order early only on a message about its device.
EarlyEndNeedsVerdict ==
  [][\A d \in Accounts :
       (Client!IsOpen(d) /\ cOrders'[d] # cOrders[d] /\ now < cOrders[d].until)
         => /\ ToClient # <<>> /\ Settles(Head(ToClient), d)
            /\ sOutbox' = [sOutbox EXCEPT ![ClientPara] = Tail(ToClient)]]_vars

\* However cancels, new orders and late verdicts interleave, the reserve of an
\* account on the client chain covers what its open orders hold, unless a
\* verdict for somebody else's order, or one that failed half way, has drawn
\* on that very account (order, on_done, on_reject, cancel).
ClientFundsBacked ==
  \A a \in Accounts \ drawnOn : Client!Held(a) <= cLedger[a].reserved

\* Whatever became of its message, an order leaves the client chain again.
\* (Sends fail for want of a channel, order_received only logs a refusal,
\* order_accept drops the error of its send.)  The exception is an order
\* whose client was drawn on: it may be reaped, and then nobody can cancel.
ClientOrdersEnd ==
  \A d \in Registrants :
    Client!IsOpen(d) ~> (Client!IsOpen(d) => cOrders[d].client \in drawnOn)

ServiceDeviceIdle(d) ==
  /\ ~Service!IsOpen(d)
  /\ sDevices[d] # NoDevice /\ sDevices[d].state \in {"Ready", "Off"}

\* A device that took an order on the service chain gets rid of it and of the
\* state it put the device in, so that it can offer itself again: channel or
\* not, and also when a cancel took the order away and left the device Busy2
\* (order_received, done, accept, cancel).
ServiceDevicesIdleAgain ==
  \A d \in Registrants : Service!IsOpen(d) ~> ServiceDeviceIdle(d)

\* The terms of an order, stored or on its way.
TermsOf(order) == [client |-> order.client, fee |-> order.fee, until |-> order.until]

OfferedIn(m) == [client |-> m.client, fee |-> m.order.fee, until |-> m.order.until]

\* The job of d: its stage is where its one token is.
Job(d) ==
  LET held == TermsOf(cOrders[d])
      offered == ToService[CHOOSE i \in OrdersUnderWay(d) : TRUE]
      stage == IF OrdersUnderWay(d) # {} THEN "offered"
               ELSE IF Service!IsOpen(d) THEN "taken"
               ELSE IF VerdictsUnderWay(d) = {} THEN "stranded"
               ELSE IF \E i \in VerdictsUnderWay(d) : ToClient[i].kind = "OrderDone"
                 THEN "done"
               ELSE "rejected"
  IN  IF d \in cancelled
        THEN [stage |-> "withdrawn", held |-> NoOrder, offer |-> NoOrder]
      ELSE IF ~Client!IsOpen(d)
        THEN [stage |-> "free", held |-> NoOrder, offer |-> NoOrder]
      ELSE [stage |-> stage, held |-> held,
            offer |-> CASE stage = "offered" -> OfferedIn(offered)
                        [] stage = "taken" -> TermsOf(sOrders[d])
                        [] OTHER -> NoOrder]

Remote == INSTANCE RemoteOrder WITH job <- [d \in Accounts |-> Job(d)]

\* The two pallets implement one job for each device: each step of either chain
\* moves at most one job, by one stage, on the terms the client's funds are held
\* for; a job is taken in time only, a verdict settles it once, and a rejection
\* in time always does (order, order_received, accept, done, on_reject, on_done,
\* cancel on both chains).
ImplementsRemoteOrder == Remote!Spec

\* client/src/lib.rs, on_done and on_reject: "order.client== who".  A verdict
\* settles only an order of the client it names.
VerdictForItsClient ==
  [][\A d \in Accounts :
       (/\ Client!IsOpen(d) /\ ~\E who \in Accounts : ClientCancel(who, d)
        /\ cOrders'[d] # cOrders[d])
         => Head(ToClient).client = cOrders[d].client]_vars

=============================================================================

---------------------------- MODULE MCCrossChain -----------------------------
(* Two clients and one device that serves them over the channels.          *)
EXTENDS CrossChain, TLC

CONSTANTS alice, bob, dev

\* What the device and the clients hold on the client chain.
ClientFunds == (alice :> 1) @@ (bob :> 1) @@ (dev :> 1)

\* On the service chain everyone can sign; no order moves money there.
ServiceFunds == [x \in {alice, bob, dev} |-> 1]

=============================================================================

--------------------------- MODULE MCServicePallet ---------------------------
(* Instances of the service pallet: who holds how much at genesis.         *)
EXTENDS ServicePallet, TLC

CONSTANTS a, b, c

\* Three accounts that can each pay for one order.
Even == (a :> 2) @@ (b :> 2) @@ (c :> 2)

\* Two accounts; what one pays the other can leave it with dust.
Uneven == (a :> 4) @@ (b :> 5)

=============================================================================

--------------------------- MODULE MCClientPallet ----------------------------
(* An instance of the client pallet: two accounts, each a device and a     *)
(* client of the other and of itself.                                      *)
EXTENDS ClientPallet, TLC

CONSTANTS a, b

\* b can pay one order and be left with nothing; a device order may strand.
Genesis == (a :> 2) @@ (b :> 2)

=============================================================================

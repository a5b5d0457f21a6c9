----------------------------- MODULE RemoteOrder -----------------------------
(***************************************************************************)
(* What the two pallets promise of an order placed on another chain than   *)
(* its device's, without chains, channels, accounts or device states: each *)
(* device has at most one job, which goes through its stages one at a time *)
(* and on the terms it was placed on.  CrossChain!ImplementsRemoteOrder    *)
(* says that the chains, their queues and their handlers achieve this.     *)
(*                                                                         *)
(* The promise ends where a client takes an order back before the job has  *)
(* come to rest: the device's chain is never told, so that what happens    *)
(* to the device's jobs is open until an order meets nothing of an earlier *)
(* one.                                                                    *)
(***************************************************************************)
EXTENDS Integers

CONSTANTS Accounts, Fees, Deadlines, NoOrder

VARIABLES
  job,  \* of each device: its stage, the terms the client's chain holds funds
        \* for, and the terms the device's chain is offered or works on
  now

vars == <<job, now>>

Terms == [client : Accounts, fee : Fees, until : Deadlines]

Free == [stage |-> "free", held |-> NoOrder, offer |-> NoOrder]

\* Nobody but the client can end the job, and only once it is late.
Stranded(terms) == [stage |-> "stranded", held |-> terms, offer |-> NoOrder]

Withdrawn == [stage |-> "withdrawn", held |-> NoOrder, offer |-> NoOrder]

Init ==
  /\ job = [d \in Accounts |-> Free]
  /\ now \in Nat

Become(d, j) == job' = [job EXCEPT ![d] = j] /\ UNCHANGED now

Late(d) == now >= job[d].held.until

\* The device's chain is told, or cannot be reached.
Place(d, terms) ==
  /\ job[d] \in {Free, Withdrawn}
  /\ now < terms.until
  /\ \/ Become(d, [stage |-> "offered", held |-> terms, offer |-> terms])
     \/ Become(d, Stranded(terms))

\* The device's chain takes the job, which it does in time only, or refuses.
Take(d) ==
  /\ job[d].stage = "offered"
  /\ now < job[d].offer.until
  /\ Become(d, [job[d] EXCEPT !.stage = "taken"])

Refuse(d) == job[d].stage = "offered" /\ Become(d, Stranded(job[d].held))

\* The device's chain is done with the job and tells so, or tells nobody.
Report(d, verdict) ==
  /\ job[d].stage = "taken"
  /\ Become(d, [stage |-> verdict, held |-> job[d].held, offer |-> NoOrder])

GoUnreported(d) == job[d].stage = "taken" /\ Become(d, Stranded(job[d].held))

Settle(d) == job[d].stage \in {"done", "rejected"} /\ Become(d, Free)

\* A verdict that cannot be carried out: the fee of a job that is done cannot
\* be paid, or the collateral of a late one.
Stick(d) ==
  /\ job[d].stage = "done" \/ (job[d].stage = "rejected" /\ Late(d))
  /\ Become(d, Stranded(job[d].held))

Withdraw(d) ==
  /\ job[d] \notin {Free, Withdrawn} /\ Late(d)
  /\ Become(d, IF job[d].stage = "stranded" THEN Free ELSE Withdrawn)

Tick == now' > now /\ UNCHANGED job

Next ==
  \/ \E d \in Accounts :
       \/ \E terms \in Terms : Place(d, terms)
       \/ Take(d) \/ Refuse(d)
       \/ \E verdict \in {"done", "rejected"} : Report(d, verdict)
       \/ GoUnreported(d)
       \/ Settle(d) \/ Stick(d)
       \/ Withdraw(d)
  \/ Tick

Spec == Init /\ [][Next]_vars

=============================================================================
